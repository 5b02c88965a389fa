---------------------------- MODULE EngineLayers -----------------------------
(***************************************************************************)
(* Layers, and whose containers a step removes.                            *)
(*                                                                         *)
(* The base of a live branch is live.  This is inductive with two facts    *)
(* about gcLayers: a layer that a process has counted as unreferenced is   *)
(* the base of no live branch until the process is done with it, and no    *)
(* process holds a layer that is still to be inserted (CommitFreezeCtx     *)
(* could take that one as a base).                                         *)
(***************************************************************************)
EXTENDS EngineTheorems

\* The provers a leaf is tried with, unless it names its own.
USE SMTT(10), Zenon, SMTT(30)

Orphaning == {"orphan", "inspect"}
Deleting == {"gcvol", "gcrow"}

Tidy ==
    /\ \A id \in LiveRows : branches[id].base \in LiveLayers \cup {None}
    /\ \A p \in Procs :
        /\ proc[p].op = "orphan" <=> proc[p].pc \in Orphaning
        /\ \A i \in DOMAIN proc[p].chain : layers[proc[p].chain[i]].st # "absent"
        /\ proc[p].pc \in Deleting => \A id \in LiveRows : branches[id].base # Head(proc[p].chain)

\* A chain that a process may come to hold.
Known(ch) == \A i \in DOMAIN ch : layers[ch[i]].st # "absent"

\* The container is the process's own to remove.
Theirs(q, k) ==
    IF q.op = "orphan" THEN k.cid = q.cid /\ k.row \notin q.seen
    ELSE k.name \in {q.name, q.pname} /\ (Docker => k.row \in {q.id, q.pid})

\* What every step of a process does, except those of gcLayers.
Shape(p) ==
    /\ \A o \in Procs \ {p} : proc'[o] = proc[o]
    /\ proc'[p].pc \notin Deleting
    /\ proc'[p].op = "orphan" <=> proc'[p].pc \in Orphaning
    /\ Known(proc'[p].chain)

\* The chain of a row that LayerChain reads without an error.
LEMMA ReadChainKnown ==
    ASSUME EngineInv, NEW id \in RowIds, ChainOK(id) PROVE Known(LayerChain(id))
<1>1. LayerChain(id) \in Seq(LayerIds)
    BY ChainTyped
<1>2. DOMAIN LayerChain(id) = 1..Len(LayerChain(id))
    BY <1>1
<1> QED
    BY <1>2 DEF ChainOK, ChainSet, LiveLayers, Known

\* A process replaces its record.
LEMMA WithShape ==
    ASSUME EngineInv, NEW p \in Procs, NEW e, GoWith(p, e), e.pc \notin Deleting,
           e.op = "orphan" <=> e.pc \in Orphaning, Known(e.chain)
    PROVE  Shape(p)
BY DEF EngineInv, GoWith, Shape

\* It carries its operation and its chain on.
LEMMA OnShape ==
    ASSUME EngineInv, Tidy, NEW p \in Procs, NEW e, GoWith(p, e), proc[p].pc \notin Orphaning,
           e.pc \notin Deleting \cup Orphaning, e.op = proc[p].op,
           e.chain = proc[p].chain \/ Known(e.chain)
    PROVE  Shape(p)
<1>1. Known(e.chain)
    BY DEF Tidy, Known
<1>2. e.op # "orphan"
    BY DEF Tidy
<1> QED
    BY <1>1, <1>2, WithShape

\* It only moves on, or is done.
Goes(p) ==
    \/ End(p)
    \/ proc[p].pc \notin Orphaning /\ \E x : x \notin Deleting \cup Orphaning /\ Go(p, x)

\* Moving on, or ending, is such a step.
LEMMA GoShape == ASSUME EngineInv, Tidy, NEW p \in Procs, Goes(p) PROVE Shape(p)
<1>1. CASE End(p)
    <2>1. Idle.pc \notin Deleting /\ Idle.pc \notin Orphaning /\ Idle.op # "orphan" /\ Known(Idle.chain)
        <3>1. Idle.pc = "idle" /\ Idle.op = "none" /\ Idle.chain = << >>
            BY DEF Idle
        <3>2. DOMAIN << >> = {}
            OBVIOUS
        <3> QED
            BY <3>1, <3>2, Zenon DEF Deleting, Orphaning, Known
    <2>2. GoWith(p, Idle)
        BY <1>1 DEF End, GoWith
    <2> QED
        BY <2>1, <2>2, WithShape
<1>2. ASSUME proc[p].pc \notin Orphaning, NEW x, x \notin Deleting \cup Orphaning, Go(p, x)
      PROVE  Shape(p)
    <2>1. PICK q \in Process : q = proc[p]
        BY DEF EngineInv
    <2>2. PICK e : e = [q EXCEPT !.pc = x]
        BY Zenon
    <2>3. GoWith(p, e)
        BY <1>2, <2>1, <2>2 DEF Go, GoWith, EngineInv
    <2>4. e.pc = x /\ e.op = q.op /\ e.chain = q.chain
        BY <2>2 DEF Process
    <2> QED
        BY <1>2, <2>1, <2>3, <2>4, OnShape
<1> QED
    BY <1>1, <1>2 DEF Goes

\* The steps that only move on.
LEMMA SagaGoes ==
    ASSUME NEW p \in Procs,
           \/ Own(p) \/ Mark(p) \/ Undone(p) \/ MarkFailed(p) \/ Freeze(p) \/ StopParent(p)
           \/ Unfreeze(p) \/ OwnParent(p) \/ TouchParent(p) \/ TouchChild(p) \/ OwnChild(p)
           \/ Commit(p) \/ MarkChild(p) \/ Reown(p) \/ Remark(p) \/ Restop(p) \/ FailTarget(p)
    PROVE  Goes(p)
<1> USE DEF Goes, At, Deleting, Orphaning
<1>1. CASE Own(p) \/ Mark(p) \/ Undone(p) \/ MarkFailed(p)
    BY <1>1, Zenon DEF Own, Mark, Undone, MarkFailed
<1>2. CASE Freeze(p) \/ StopParent(p) \/ Unfreeze(p) \/ OwnParent(p)
    BY <1>2, Zenon DEF Freeze, StopParent, Unfreeze, OwnParent
<1>3. CASE TouchParent(p) \/ TouchChild(p) \/ OwnChild(p) \/ Commit(p) \/ MarkChild(p)
    BY <1>3, Zenon DEF TouchParent, TouchChild, OwnChild, Commit, MarkChild
<1>4. CASE Reown(p) \/ Remark(p) \/ Restop(p) \/ FailTarget(p)
    BY <1>4, Zenon DEF Reown, Remark, Restop, FailTarget
<1> QED
    BY <1>1, <1>2, <1>3, <1>4, Zenon

\* The same for a teardown ...
LEMMA TeardownGoes ==
    ASSUME NEW p \in Procs,
           \/ ToResetting(p) \/ ToDestroying(p) \/ Halt(p) \/ Guard(p) \/ RmVol(p)
           \/ FailNote(p) \/ ToDestroyed(p)
    PROVE  Goes(p)
<1> USE DEF Goes, At, Deleting, Orphaning
<1>1. CASE ToResetting(p) \/ ToDestroying(p)
    BY <1>1, Zenon DEF ToResetting, ToDestroying
<1>2. CASE Halt(p)
    BY <1>2 DEF Halt
<1>3. CASE Guard(p) \/ RmVol(p)
    BY <1>3 DEF Guard, RmVol
<1>4. CASE FailNote(p) \/ ToDestroyed(p)
    BY <1>4, Zenon DEF FailNote, ToDestroyed
<1> QED
    BY <1>1, <1>2, <1>3, <1>4

\* ... and for a pass of reconcile, a failure and a crash.
LEMMA ReconcileGoes ==
    ASSUME NEW p \in Procs,
           \/ ApplyReap(p) \/ ApplyRetry(p) \/ Stray(p) \/ LostOwn(p) \/ LostMark(p)
           \/ LostDrop(p) \/ FailReady(p) \/ RmOrphan(p) \/ CheckLiveRows(p)
           \/ CheckLiveLayers(p) \/ RmOrphanVolume(p) \/ StepFails(p) \/ Crash(p)
    PROVE  Goes(p)
<1> USE DEF Goes, At, Deleting, Orphaning
<1>1. CASE ApplyReap(p) \/ ApplyRetry(p) \/ Stray(p) \/ LostOwn(p)
    BY <1>1, Zenon DEF ApplyReap, ApplyRetry, Stray, LostOwn
<1>2. CASE LostMark(p) \/ LostDrop(p) \/ FailReady(p) \/ RmOrphan(p)
    BY <1>2, Zenon DEF LostMark, LostDrop, FailReady, RmOrphan
<1>3. CASE CheckLiveRows(p) \/ CheckLiveLayers(p) \/ RmOrphanVolume(p)
    BY <1>3, Zenon DEF CheckLiveRows, CheckLiveLayers, RmOrphanVolume
<1>4. CASE StepFails(p) \/ Crash(p)
    BY <1>4 DEF StepFails, Crash
<1> QED
    BY <1>1, <1>2, <1>3, <1>4, Zenon

\* The steps that start a container.
LEMMA StartShape ==
    ASSUME EngineInv, Tidy, NEW p \in Procs,
           Start(p) \/ StartParent(p) \/ StartChild(p) \/ Restart(p) \/ LostStart(p)
    PROVE  Shape(p)
<1>1. PICK q \in Process : q = proc[p]
    BY DEF EngineInv
<1>2. q.pc \notin Orphaning
    BY <1>1, Zenon DEF Start, StartParent, StartChild, Restart, LostStart, At, Orphaning
<1>3. ASSUME NEW n, NEW id, NEW rw, NEW L, NEW install, NEW next, NEW failed,
             StartOn(p, n, id, rw, L, install, next, failed),
             next.pc \notin Deleting \cup Orphaning, next.op = q.op, next.chain = q.chain,
             \/ failed = Idle
             \/ failed.pc \notin Deleting \cup Orphaning /\ failed.op = q.op /\ failed.chain = q.chain
      PROVE  Shape(p)
    <2>1. GoWith(p, next) \/ GoWith(p, failed)
        BY <1>3, Zenon DEF StartOn
    <2>2. CASE GoWith(p, next)
        BY <1>1, <1>2, <1>3, <2>2, OnShape, Zenon
    <2>3. CASE GoWith(p, failed) /\ failed # Idle
        BY <1>1, <1>2, <1>3, <2>3, OnShape, Zenon
    <2>4. CASE GoWith(p, Idle)
        BY <2>4, GoShape, Zenon DEF Goes, End, GoWith
    <2> QED
        BY <2>1, <2>2, <2>3, <2>4
<1>4. CASE Start(p)
    <2> DEFINE e == [q EXCEPT !.pc = "own", !.new = NewCid(q.name),
                              !.undo = Undo(p, "ctr", NewCid(q.name))]
               f == [q EXCEPT !.pc = "undo"]
    <2>1. e.pc = "own" /\ e.op = q.op /\ e.chain = q.chain
        BY DEF Process
    <2>2. f.pc = "undo" /\ f.op = q.op /\ f.chain = q.chain
        BY DEF Process
    <2>3. StartOn(p, q.name, q.id, q.rw, VolsOf(q.chain), TRUE, e, f)
        BY <1>1, <1>4, Zenon DEF Start
    <2> HIDE DEF e, f
    <2>4. e.pc \notin Deleting \cup Orphaning /\ f.pc \notin Deleting \cup Orphaning
        BY <2>1, <2>2 DEF Deleting, Orphaning
    <2> QED
        BY <1>3, <2>1, <2>2, <2>3, <2>4, Zenon
<1>5. CASE StartParent(p)
    <2> DEFINE e == [q EXCEPT !.pc = "ownparent", !.pnew = NewCid(q.pname),
                              !.undo = Undo(p, "ctr", NewCid(q.pname))]
               f == [q EXCEPT !.pc = "undo"]
    <2>1. e.pc = "ownparent" /\ e.op = q.op /\ e.chain = q.chain
        BY DEF Process
    <2>2. f.pc = "undo" /\ f.op = q.op /\ f.chain = q.chain
        BY DEF Process
    <2>3. StartOn(p, q.pname, q.pid, q.newrw, Frozen(q), TRUE, e, f)
        BY <1>1, <1>5, Zenon DEF StartParent
    <2> HIDE DEF e, f
    <2>4. e.pc \notin Deleting \cup Orphaning /\ f.pc \notin Deleting \cup Orphaning
        BY <2>1, <2>2 DEF Deleting, Orphaning
    <2> QED
        BY <1>3, <2>1, <2>2, <2>3, <2>4, Zenon
<1>6. CASE StartChild(p)
    <2> DEFINE e == [q EXCEPT !.pc = "ownchild", !.new = NewCid(q.name),
                              !.undo = Undo(p, "ctr", NewCid(q.name))]
               f == [q EXCEPT !.pc = "undo"]
    <2>1. e.pc = "ownchild" /\ e.op = q.op /\ e.chain = q.chain
        BY DEF Process
    <2>2. f.pc = "undo" /\ f.op = q.op /\ f.chain = q.chain
        BY DEF Process
    <2>3. StartOn(p, q.name, q.id, q.rw, Frozen(q), TRUE, e, f)
        BY <1>1, <1>6, Zenon DEF StartChild
    <2> HIDE DEF e, f
    <2>4. e.pc \notin Deleting \cup Orphaning /\ f.pc \notin Deleting \cup Orphaning
        BY <2>1, <2>2 DEF Deleting, Orphaning
    <2> QED
        BY <1>3, <2>1, <2>2, <2>3, <2>4, ZenonT(30)
<1>7. CASE Restart(p)
    <2> DEFINE e == [q EXCEPT !.pc = "reown", !.pnew = NewCid(TargetName(q))]
               f == [q EXCEPT !.pc = "failtarget"]
    <2>1. e.pc = "reown" /\ e.op = q.op /\ e.chain = q.chain
        BY DEF Process
    <2>2. f.pc = "failtarget" /\ f.op = q.op /\ f.chain = q.chain
        BY DEF Process
    <2>3. StartOn(p, TargetName(q), TargetId(q), TargetRW(q), VolsOf(q.chain), q.op = "recover", e, f)
        BY <1>1, <1>7, Zenon DEF Restart
    <2> HIDE DEF e, f
    <2>4. e.pc \notin Deleting \cup Orphaning /\ f.pc \notin Deleting \cup Orphaning
        BY <2>1, <2>2 DEF Deleting, Orphaning
    <2> QED
        BY <1>3, <2>1, <2>2, <2>3, <2>4, ZenonT(30)
<1>8. CASE LostStart(p) /\ ~End(p)
    <2> DEFINE e == [q EXCEPT !.pc = "lostown", !.new = NewCid(q.name)]
    <2>1. e.pc = "lostown" /\ e.op = q.op /\ e.chain = q.chain
        BY DEF Process
    <2>2. StartOn(p, q.name, q.id, q.rw, VolsOf(LayerChain(q.id)), FALSE, e, Idle)
        BY <1>1, <1>8, Zenon DEF LostStart
    <2> HIDE DEF e
    <2>3. e.pc \notin Deleting \cup Orphaning
        BY <2>1 DEF Deleting, Orphaning
    <2> QED
        BY <1>3, <2>1, <2>2, <2>3, ZenonT(30)
<1>9. CASE End(p)
    BY <1>9, GoShape DEF Goes
<1> QED
    BY <1>4, <1>5, <1>6, <1>7, <1>8, <1>9

\* The other steps that write to the process's record.
LEMMA WriteShape ==
    ASSUME EngineInv, Tidy, NEW p \in Procs,
           \/ InsertRow(p) \/ MkVol(p) \/ UndoStep(p) \/ FreezePlan(p) \/ Claim(p) \/ MkFreezeVol(p)
           \/ ReadDestroy(p) \/ Reread(p) \/ ApplyLost(p)
    PROVE  Shape(p)
<1>1. PICK q \in Process : q = proc[p] /\ Sane(q)
    BY Current
<1>2. q.pc \notin Orphaning
    BY <1>1, Zenon DEF InsertRow, MkVol, UndoStep, FreezePlan, Claim, MkFreezeVol, ReadDestroy, Reread,
                ApplyLost, At, Orphaning
<1>3. CASE Goes(p)
    BY <1>3, GoShape
<1>4. ASSUME NEW e, GoWith(p, e), e.pc \notin Deleting \cup Orphaning, e.op = q.op,
             e.chain = q.chain \/ Known(e.chain)
      PROVE  Shape(p)
    BY <1>1, <1>2, <1>4, OnShape, ZenonT(30)
<1>5. CASE InsertRow(p)
    <2>1. PICK x : x = IF q.op = "create" THEN "mkvol" ELSE "plan"
        BY Zenon
    <2> DEFINE e == [q EXCEPT !.id = NewRow, !.pc = x]
    <2>2. End(p) \/ GoWith(p, e)
        BY <1>1, <1>5, <2>1, ZenonT(30) DEF InsertRow
    <2>3. e.pc = x /\ e.op = q.op /\ e.chain = q.chain
        BY DEF Process
    <2> HIDE DEF e
    <2> QED
        BY <1>3, <1>4, <2>1, <2>2, <2>3 DEF Deleting, Orphaning, Goes
<1>6. CASE MkVol(p)
    <2> DEFINE e == [q EXCEPT !.pc = "start", !.chain = LayerChain(q.id),
                              !.undo = Undo(p, "vol", q.rw)]
    <2>1. e.pc = "start" /\ e.op = q.op /\ e.chain = LayerChain(q.id)
        BY DEF Process
    <2>2. Go(p, "undo") \/ (ChainOK(q.id) /\ GoWith(p, e))
        BY <1>1, <1>6, Zenon DEF MkVol
    <2> HIDE DEF e
    <2>3. q.id \in RowIds
        BY <1>1, <1>6, WorkRead DEF MkVol, At, Working
    <2>4. ChainOK(q.id) => Known(e.chain)
        BY <2>1, <2>3, ReadChainKnown, Zenon
    <2> QED
        BY <1>1, <1>2, <1>3, <1>4, <2>1, <2>2, <2>4, ZenonT(30) DEF Deleting, Orphaning, Goes
<1>7. CASE UndoStep(p)
    <2>1. PICK u : GoWith(p, [q EXCEPT !.undo = u])
        BY <1>1, <1>7, Zenon DEF UndoStep
    <2> DEFINE e == [q EXCEPT !.undo = u]
    <2>2. e.pc = q.pc /\ e.op = q.op /\ e.chain = q.chain
        BY DEF Process
    <2>3. q.pc = "undo"
        BY <1>1, <1>7 DEF UndoStep, At
    <2> HIDE DEF e
    <2> QED
        BY <1>4, <2>1, <2>2, <2>3, Zenon DEF Deleting, Orphaning, e
<1>8. CASE FreezePlan(p)
    <2>1. PICK g : \/ Go(p, "markfailed")
                   \/ /\ ChainOK(q.pid)
                      /\ GoWith(p, [q EXCEPT !.pc = "freeze", !.chain = LayerChain(q.pid), !.newrw = g])
        BY <1>1, <1>8, Zenon DEF FreezePlan
    <2> DEFINE e == [q EXCEPT !.pc = "freeze", !.chain = LayerChain(q.pid), !.newrw = g]
    <2>2. e.pc = "freeze" /\ e.op = q.op /\ e.chain = LayerChain(q.pid)
        BY DEF Process
    <2> HIDE DEF e
    <2>3. q.pid \in RowIds
        <3>1. q.op = "from"
            BY <1>1, <1>8 DEF FreezePlan, At, Sane, Located, Freezing
        <3> QED
            BY <1>1, <3>1, Zenon DEF Sane, Located, Is
    <2>4. ChainOK(q.pid) => Known(e.chain)
        BY <2>2, <2>3, ReadChainKnown
    <2> QED
        BY <1>1, <1>2, <1>3, <1>4, <2>1, <2>2, <2>4, ZenonT(30) DEF Deleting, Orphaning, Goes, e
<1>9. CASE Claim(p)
    <2>1. PICK u : GoWith(p, [q EXCEPT !.pc = "mknew", !.undo = u])
        BY <1>1, <1>9, Zenon DEF Claim
    <2> DEFINE e == [q EXCEPT !.pc = "mknew", !.undo = u]
    <2>2. e.pc = "mknew" /\ e.op = q.op /\ e.chain = q.chain
        BY DEF Process
    <2> HIDE DEF e
    <2> QED
        BY <1>4, <2>1, <2>2, ZenonT(30) DEF Deleting, Orphaning, e
<1>10. CASE MkFreezeVol(p)
    <2>1. PICK u, x : /\ x \in {"startparent", "startchild"}
                      /\ Go(p, "undo") \/ GoWith(p, [q EXCEPT !.undo = u, !.pc = x])
        BY <1>1, <1>10, Zenon DEF MkFreezeVol
    <2> DEFINE e == [q EXCEPT !.undo = u, !.pc = x]
    <2>2. e.pc = x /\ e.op = q.op /\ e.chain = q.chain
        BY DEF Process
    <2> HIDE DEF e
    <2> QED
        BY <1>1, <1>2, <1>3, <1>4, <2>1, <2>2, ZenonT(30) DEF Deleting, Orphaning, Goes, e
<1>11. CASE Reread(p)
    <2>1. PICK c : GoWith(p, [q EXCEPT !.pc = "halt", !.cid = c])
        BY <1>1, <1>11, Zenon DEF Reread
    <2> DEFINE e == [q EXCEPT !.pc = "halt", !.cid = c]
    <2>2. e.pc = "halt" /\ e.op = q.op /\ e.chain = q.chain
        BY DEF Process
    <2> HIDE DEF e
    <2> QED
        BY <1>4, <2>1, <2>2, Zenon DEF Deleting, Orphaning, e
<1>12. CASE ApplyLost(p)
    <2>1. PICK i, v, c : End(p) \/ GoWith(p, [q EXCEPT !.pc = "halt", !.id = i, !.rw = v, !.cid = c])
        BY <1>1, <1>12, Zenon DEF ApplyLost
    <2> DEFINE e == [q EXCEPT !.pc = "halt", !.id = i, !.rw = v, !.cid = c]
    <2>2. e.pc = "halt" /\ e.op = q.op /\ e.chain = q.chain
        BY DEF Process
    <2> HIDE DEF e
    <2> QED
        BY <1>3, <1>4, <2>1, <2>2, Zenon DEF Deleting, Orphaning, Goes, e
<1>13. CASE ReadDestroy(p)
    <2>1. ASSUME NEW id \in ByName(q.name), NEW st, st = branches[id].state,
                 GoWith(p, [q EXCEPT !.id = id, !.rw = branches[id].rw,
                     !.cid = branches[id].cid, !.chain = LayerChain(id),
                     !.guarded = st \notin {"ready", "failed"},
                     !.pc = CASE st \in {"creating", "resetting"} -> "force"
                              [] st \in {"ready", "failed"} -> "todestroying"
                              [] OTHER -> "note"])
          PROVE  Shape(p)
        <3>1. PICK x : x = CASE st \in {"creating", "resetting"} -> "force"
                              [] st \in {"ready", "failed"} -> "todestroying"
                              [] OTHER -> "note"
            BY Zenon
        <3> DEFINE e == [q EXCEPT !.id = id, !.rw = branches[id].rw,
                             !.cid = branches[id].cid, !.chain = LayerChain(id),
                             !.guarded = st \notin {"ready", "failed"}, !.pc = x]
        <3>2. e.pc = x /\ e.op = q.op /\ e.chain = LayerChain(id)
            BY DEF Process
        <3>3. GoWith(p, e)
            BY <2>1, <3>1, Zenon
        <3> HIDE DEF e
        <3>4. id \in RowIds /\ ChainOK(id)
            <4>1. id \in LiveRows
                BY DEF ByName, LiveRows, Live
            <4>2. id \in RowIds /\ branches[id].base \in LiveLayers \cup {None}
                BY <4>1, Zenon DEF Tidy, LiveRows
            <4> QED
                BY <4>2, BaseLive, Zenon DEF EngineInv
        <3>5. Known(e.chain)
            BY <3>2, <3>4, ReadChainKnown
        <3>6. x \in {"force", "todestroying", "note"}
            BY <3>1
        <3> QED
            BY <1>4, <3>2, <3>3, <3>5, <3>6, ZenonT(30) DEF Deleting, Orphaning
    <2> QED
        BY <1>1, <1>3, <1>13, <2>1, Zenon DEF ReadDestroy, Goes
<1> QED
    BY <1>5, <1>6, <1>7, <1>8, <1>9, <1>10, <1>11, <1>12, <1>13

\* A new operation, or a planned action.
LEMMA FreshShape ==
    ASSUME EngineInv, NEW p \in Procs, NEW e, GoWith(p, e), e.pc \notin Deleting,
           e.op = "orphan" <=> e.pc \in Orphaning, e.chain = << >> \/ Known(e.chain)
    PROVE  Shape(p)
<1>1. Known(e.chain)
    BY DEF Known
<1> QED
    BY <1>1, WithShape

\* The operations callers ask for.
LEMMA RequestShape ==
    ASSUME EngineInv, NEW p \in Procs, Request(p) PROVE Shape(p)
<1>1. PICK n \in Names :
          \/ \E ttl \in {"never", "later"} : StartCreate(p, n, ttl)
          \/ \E pn \in Names : StartFrom(p, n, pn)
          \/ \E op \in {"reset", "recover"} : ReadForRestart(p, n, op)
          \/ GoWith(p, [Idle EXCEPT !.op = "destroy", !.pc = "destroy", !.name = n])
    BY Zenon DEF Request
<1>2. ASSUME NEW e, GoWith(p, e), e.op \in {"create", "from", "reset", "recover", "destroy"},
             e.pc \in {"insert", "reset", "destroy"}, e.chain = << >> \/ Known(e.chain)
      PROVE  Shape(p)
    BY <1>2, FreshShape DEF Deleting, Orphaning
<1>3. ASSUME NEW ttl, StartCreate(p, n, ttl) PROVE Shape(p)
    <2> DEFINE e == [Idle EXCEPT !.op = "create", !.pc = "insert", !.name = n,
                              !.rw = FreshLayer(n, 1), !.ttl = ttl]
    <2>1. GoWith(p, e)
        BY <1>3, Zenon DEF StartCreate
    <2>2. e.op = "create" /\ e.pc = "insert" /\ e.chain = << >>
        BY DEF Idle
    <2> HIDE DEF e
    <2> QED
        BY <1>2, <2>1, <2>2
<1>4. ASSUME NEW pn, StartFrom(p, n, pn) PROVE Shape(p)
    <2>1. PICK pid : GoWith(p, [Idle EXCEPT !.op = "from", !.pc = "insert", !.name = n,
                                    !.rw = FreshLayer(n, 1), !.pid = pid, !.pname = pn,
                                    !.prw = branches[pid].rw, !.pcid = branches[pid].cid])
        BY <1>4, Zenon DEF StartFrom
    <2> DEFINE e == [Idle EXCEPT !.op = "from", !.pc = "insert", !.name = n,
                         !.rw = FreshLayer(n, 1), !.pid = pid, !.pname = pn,
                         !.prw = branches[pid].rw, !.pcid = branches[pid].cid]
    <2>2. e.op = "from" /\ e.pc = "insert" /\ e.chain = << >>
        BY DEF Idle
    <2>3. GoWith(p, e)
        BY <2>1, Zenon
    <2> HIDE DEF e
    <2> QED
        BY <1>2, <2>2, <2>3
<1>5. ASSUME NEW op \in {"reset", "recover"}, ReadForRestart(p, n, op) PROVE Shape(p)
    <2>1. PICK id \in ByName(n) :
              /\ op = "recover" => ChainOK(id)
              /\ GoWith(p, [Idle EXCEPT !.op = op, !.pc = "reset", !.id = id, !.name = n,
                     !.rw = branches[id].rw, !.cid = branches[id].cid,
                     !.chain = IF op = "recover" THEN LayerChain(id) ELSE << >>])
        BY <1>5, Zenon DEF ReadForRestart
    <2>2. PICK ch : ch = IF op = "recover" THEN LayerChain(id) ELSE << >>
        BY Zenon
    <2> DEFINE e == [Idle EXCEPT !.op = op, !.pc = "reset", !.id = id, !.name = n,
                         !.rw = branches[id].rw, !.cid = branches[id].cid, !.chain = ch]
    <2>3. e.op = op /\ e.pc = "reset" /\ e.chain = ch
        BY DEF Idle
    <2>4. GoWith(p, e)
        BY <2>1, <2>2, Zenon
    <2> HIDE DEF e
    <2>5. id \in RowIds
        BY DEF ByName
    <2>6. ch = << >> \/ Known(ch)
        BY <2>1, <2>2, <2>5, ReadChainKnown
    <2> QED
        BY <1>2, <2>3, <2>4, <2>6
<1>6. CASE GoWith(p, [Idle EXCEPT !.op = "destroy", !.pc = "destroy", !.name = n])
    <2> DEFINE e == [Idle EXCEPT !.op = "destroy", !.pc = "destroy", !.name = n]
    <2>1. e.op = "destroy" /\ e.pc = "destroy" /\ e.chain = << >>
        BY DEF Idle
    <2>2. GoWith(p, e)
        BY <1>6, Zenon
    <2> HIDE DEF e
    <2> QED
        BY <1>2, <2>1, <2>2
<1> QED
    BY <1>1, <1>3, <1>4, <1>5, <1>6

\* The actions a pass plans.
LEMMA PlanShape ==
    ASSUME EngineInv, NEW p \in Procs, PlanStep(p) PROVE Shape(p)
<1>1. ASSUME NEW op \in {"reap", "retry", "lost"}, NEW n, Planned(p, op, n) PROVE Shape(p)
    <2> DEFINE e == [Idle EXCEPT !.op = op, !.pc = op, !.name = n]
    <2>1. e.op = op /\ e.pc = op /\ e.chain = << >>
        BY DEF Idle
    <2>2. GoWith(p, e)
        BY <1>1, Zenon DEF Planned
    <2> HIDE DEF e
    <2> QED
        BY <2>1, <2>2, FreshShape DEF Deleting, Orphaning
<1>2. CASE PlanReap(p) \/ PlanRetry(p) \/ PlanLost(p)
    BY <1>1, <1>2 DEF PlanReap, PlanRetry, PlanLost
<1>3. CASE FailStuck(p)
    <2>1. PICK id : GoWith(p, [Idle EXCEPT !.op = "failstuck", !.pc = "reread", !.id = id,
                                   !.name = branches[id].name, !.rw = branches[id].rw,
                                   !.cid = branches[id].cid, !.guarded = TRUE])
        BY <1>3, Zenon DEF FailStuck
    <2> DEFINE e == [Idle EXCEPT !.op = "failstuck", !.pc = "reread", !.id = id,
                         !.name = branches[id].name, !.rw = branches[id].rw,
                         !.cid = branches[id].cid, !.guarded = TRUE]
    <2>2. e.op = "failstuck" /\ e.pc = "reread" /\ e.chain = << >>
        BY DEF Idle
    <2>3. GoWith(p, e)
        BY <2>1, Zenon
    <2> HIDE DEF e
    <2> QED
        BY <2>2, <2>3, FreshShape DEF Deleting, Orphaning
<1>4. CASE PlanOrphan(p)
    <2>1. PICK k \in ctrs : GoWith(p, [Idle EXCEPT !.op = "orphan", !.pc = "orphan", !.cid = k.cid])
        BY <1>4, Zenon DEF PlanOrphan
    <2> DEFINE e == [Idle EXCEPT !.op = "orphan", !.pc = "orphan", !.cid = k.cid]
    <2>2. e.op = "orphan" /\ e.pc = "orphan" /\ e.chain = << >>
        BY DEF Idle
    <2>3. GoWith(p, e)
        BY <2>1, Zenon
    <2> HIDE DEF e
    <2> QED
        BY <2>2, <2>3, FreshShape DEF Deleting, Orphaning
<1>5. CASE PlanGCLayer(p)
    <2>1. PICK l \in LiveLayers :
              GoWith(p, [Idle EXCEPT !.op = "gclayer", !.pc = "gc", !.chain = <<l>>])
        BY <1>5, Zenon DEF PlanGCLayer
    <2> DEFINE e == [Idle EXCEPT !.op = "gclayer", !.pc = "gc", !.chain = <<l>>]
    <2>2. e.op = "gclayer" /\ e.pc = "gc" /\ e.chain = <<l>>
        BY DEF Idle
    <2>3. GoWith(p, e)
        BY <2>1, Zenon
    <2> HIDE DEF e
    <2>4. Known(e.chain)
        BY <2>2 DEF Known, LiveLayers
    <2> QED
        BY <2>2, <2>3, <2>4, FreshShape DEF Deleting, Orphaning
<1>6. CASE PlanGCVolume(p)
    <2>1. PICK v \in Vols : GoWith(p, [Idle EXCEPT !.op = "gcvolume", !.pc = "livevols", !.rw = v])
        BY <1>6, Zenon DEF PlanGCVolume
    <2> DEFINE e == [Idle EXCEPT !.op = "gcvolume", !.pc = "livevols", !.rw = v]
    <2>2. e.op = "gcvolume" /\ e.pc = "livevols" /\ e.chain = << >>
        BY DEF Idle
    <2>3. GoWith(p, e)
        BY <2>1, Zenon
    <2> HIDE DEF e
    <2> QED
        BY <2>2, <2>3, FreshShape DEF Deleting, Orphaning
<1> QED
    BY <1>2, <1>3, <1>4, <1>5, <1>6 DEF PlanStep

\* The re-check of an orphan against the rows.
LEMMA CheckOrphanShape ==
    ASSUME EngineInv, Tidy, NEW p \in Procs, CheckOrphan(p) PROVE Shape(p)
<1>1. PICK q \in Process : q = proc[p]
    BY DEF EngineInv
<1>2. CASE End(p)
    BY <1>2, GoShape DEF Goes
<1>3. CASE GoWith(p, [q EXCEPT !.pc = "inspect", !.seen = MayOwn])
    <2> DEFINE e == [q EXCEPT !.pc = "inspect", !.seen = MayOwn]
    <2>1. e.op = q.op /\ e.pc = "inspect" /\ e.chain = q.chain
        BY DEF Process
    <2>2. GoWith(p, e)
        BY <1>3, Zenon
    <2> HIDE DEF e
    <2>3. q.op = "orphan" /\ Known(q.chain)
        BY <1>1 DEF CheckOrphan, At, Tidy, Orphaning, Known
    <2> QED
        BY <2>1, <2>2, <2>3, WithShape DEF Deleting, Orphaning
<1> QED
    BY <1>1, <1>2, <1>3, Zenon DEF CheckOrphan

\* Only gcLayers deletes layers, and only a committed freeze inserts one.
LEMMA SagaLayers ==
    ASSUME NEW p \in Procs, Provision(p) \/ FreezeSaga(p), ~Commit(p) PROVE UNCHANGED layers
<1> USE DEF OnlyLocal, OnlyRegistry, regVars, BestEffort
<1>1. CASE InsertRow(p)
    BY <1>1 DEF InsertRow, CreateBranch
<1>2. CASE MkVol(p) \/ Start(p) \/ Undone(p) \/ FreezePlan(p) \/ StopParent(p)
    BY <1>2, ZenonT(30) DEF MkVol, Start, Undone, FreezePlan, StopParent
<1>3. CASE Own(p) \/ Mark(p)
    BY <1>3 DEF Own, Mark, SetBranchContainer, MarkBranchReady
<1>4. CASE UndoStep(p)
    BY <1>4, Zenon DEF UndoStep, SetBranchPendingVolume
<1>5. CASE MarkFailed(p) \/ Freeze(p)
    BY <1>5 DEF MarkFailed, Freeze, TransitionBranch
<1>6. CASE Unfreeze(p) \/ Claim(p) \/ MkFreezeVol(p)
    BY <1>6 DEF Unfreeze, Claim, MkFreezeVol, TransitionBranch, SetBranchPendingVolume
<1>7. CASE StartParent(p) \/ StartChild(p) \/ Restart(p) \/ Restop(p)
    BY <1>7, Zenon DEF StartParent, StartChild, Restart, Restop
<1>8. CASE OwnParent(p) \/ OwnChild(p)
    BY <1>8 DEF OwnParent, OwnChild, SetBranchContainer
<1>9. CASE TouchParent(p) \/ TouchChild(p)
    BY <1>9 DEF TouchParent, TouchChild, TouchBranch
<1>10. CASE MarkChild(p) \/ Reown(p) \/ Remark(p) \/ FailTarget(p)
    BY <1>10, Zenon DEF MarkChild, Reown, Remark, FailTarget, MarkBranchReady, SetBranchContainer,
                 TransitionBranch
<1> QED
    BY <1>1, <1>2, <1>3, <1>4, <1>5, <1>6, <1>7, <1>8, <1>9, <1>10 DEF Provision, FreezeSaga

\* The same outside the sagas.
LEMMA OtherLayers ==
    ASSUME NEW p \in Procs, Teardown(p) \/ ReconcileStep(p) \/ PlanStep(p) \/ Request(p), ~GCRow(p)
    PROVE  UNCHANGED layers
<1> USE DEF OnlyLocal, OnlyRegistry, regVars, BestEffort
<1>1. CASE ToResetting(p) \/ ToDestroying(p)
    BY <1>1, ZenonT(30) DEF ToResetting, ToDestroying, TransitionBranch, NoteBranch
<1>2. CASE FailNote(p) \/ ToDestroyed(p)
    BY <1>2 DEF FailNote, ToDestroyed, TransitionBranch, NoteBranch
<1>3. CASE ReadDestroy(p) \/ Halt(p) \/ Guard(p) \/ RmVol(p) \/ GCCheck(p) \/ GCVol(p)
    BY <1>3, Zenon DEF ReadDestroy, Halt, Guard, RmVol, GCCheck, GCVol
<1>4. CASE ApplyReap(p) \/ ApplyRetry(p) \/ Reread(p) \/ ApplyLost(p) \/ Stray(p) \/ LostStart(p)
           \/ LostDrop(p)
    BY <1>4, Zenon DEF ApplyReap, ApplyRetry, Reread, ApplyLost, Stray, LostStart, LostDrop
<1>5. CASE LostOwn(p) \/ LostMark(p) \/ FailReady(p)
    BY <1>5, Zenon DEF LostOwn, LostMark, FailReady, UpdateBranchEndpoint, UpdateBranchEndpointCtx,
                FailReadyBranch
<1>6. CASE CheckOrphan(p) \/ RmOrphan(p) \/ CheckLiveRows(p) \/ CheckLiveLayers(p)
           \/ RmOrphanVolume(p)
    BY <1>6, Zenon DEF CheckOrphan, RmOrphan, CheckLiveRows, CheckLiveLayers, RmOrphanVolume
<1>7. CASE PlanStep(p)
    BY <1>7, Zenon DEF PlanStep, PlanReap, PlanRetry, PlanLost, PlanOrphan, PlanGCLayer, PlanGCVolume,
                Plan, FailStuck, FailStuckBranch
<1>8. CASE Request(p)
    BY <1>8, Zenon DEF Request, StartCreate, StartFrom, ReadForRestart, Begin
<1> QED
    BY <1>1, <1>2, <1>3, <1>4, <1>5, <1>6, <1>7, <1>8 DEF Teardown, ReconcileStep

\* The invariant after a step of process p: what it may hold, given that the
\* bases of the live rows outlive the step.
LEMMA TidyStep ==
    ASSUME EngineInv, Tidy, Fine, NEW p \in Procs,
           \A o \in Procs \ {p} : proc'[o] = proc[o],
           proc'[p].op = "orphan" <=> proc'[p].pc \in Orphaning,
           Known(proc'[p].chain),
           proc'[p].pc \in Deleting =>
               /\ proc'[p].chain # << >>
               /\ \A id \in LiveRows : branches[id].base # Head(proc'[p].chain),
           \A id \in LiveRows : branches[id].base \in LiveLayers' \cup {None}
    PROVE  Tidy'
<1>1. /\ LayersStay
      /\ \A i \in LiveRows' :
                \/ i \in LiveRows /\ branches'[i].base = branches[i].base
                \/ branches'[i].base = None
                \/ LET l == branches'[i].base
                   IN l \in LayerIds /\ layers[l].st = "absent" /\ l \in LiveLayers'
    BY BasesStep DEF EngineInv, LayersInv, Fine
<1>2. \A i \in LiveRows' : branches'[i].base \in LiveLayers' \cup {None}
    BY <1>1
<1>3. \A o \in Procs : /\ proc'[o].op = "orphan" <=> proc'[o].pc \in Orphaning
                       /\ Known(proc'[o].chain)
                       /\ proc'[o].pc \in Deleting =>
                            /\ proc'[o].chain # << >>
                            /\ \A id \in LiveRows : branches[id].base # Head(proc'[o].chain)
    <2> SUFFICES ASSUME NEW o \in Procs \ {p}
                 PROVE  proc[o].pc \in Deleting => proc[o].chain # << >>
        BY ZenonT(30) DEF Tidy, Known
    <2>1. Located(proc[o])
        BY Zenon DEF EngineInv, Sane
    <2> QED
        BY <2>1, Zenon DEF Located, Deleting
<1>4. \A o \in Procs : proc'[o].chain \in Seq(LayerIds)
    BY Zenon DEF Fine, EngineInv, Process
<1>5. ASSUME NEW ch \in Seq(LayerIds), Known(ch)
      PROVE  \A i \in DOMAIN ch : layers'[ch[i]].st # "absent"
    <2>1. \A i \in DOMAIN ch : ch[i] \in LayerIds /\ layers[ch[i]].st # "absent"
        BY <1>5 DEF Known
    <2> QED
        BY <1>1, <2>1, Zenon DEF LayersStay
<1>6. ASSUME NEW ch \in Seq(LayerIds), Known(ch), ch # << >>,
             \A id \in LiveRows : branches[id].base # Head(ch), NEW i \in LiveRows'
      PROVE  branches'[i].base # Head(ch)
    <2>1. Head(ch) \in LayerIds /\ layers[Head(ch)].st # "absent"
        BY <1>6 DEF Known
    <2>2. Head(ch) # None
        BY <2>1, RegistryAssumption
    <2> QED
        BY <1>1, <1>6, <2>1, <2>2
<1> QED
    BY <1>2, <1>3, <1>4, <1>5, <1>6, ZenonT(30) DEF Tidy

\* Every step of a process outside gcLayers.
LEMMA ShapeTidy ==
    ASSUME EngineInv, Tidy, Fine, NEW p \in Procs, Shape(p), UNCHANGED layers \/ Commit(p)
    PROVE  Tidy'
<1>1. LiveLayers \subseteq LiveLayers'
    <2>1. CASE UNCHANGED layers
        BY <2>1 DEF LiveLayers
    <2>2. CASE Commit(p) /\ ~UNCHANGED layers
        <3>1. PICK pid, kid, l, v, w, c : CommitFreeze(pid, kid, l, v, w, c)
            BY <2>2, Zenon DEF Commit, regVars
        <3>2. RegistryTypeOK
            BY DEF EngineInv, LayersInv
        <3>3. layers[l].st = "absent" /\ \A k \in LayerIds \ {l} : layers'[k] = layers[k]
            BY <3>1, <3>2 DEF CommitFreeze, RegistryTypeOK
        <3> QED
            BY <3>3 DEF LiveLayers
    <2> QED
        BY <2>1, <2>2
<1>2. \A id \in LiveRows : branches[id].base \in LiveLayers' \cup {None}
    BY <1>1 DEF Tidy
<1> QED
    BY <1>2, TidyStep DEF Shape

\* gcLayers: a layer is deleted after its references were counted, and in
\* between none can be added, since a branch is only ever based on a new layer.
LEMMA CollectTidy ==
    ASSUME EngineInv, Tidy, Fine, NEW p \in Procs, GCCheck(p) \/ GCVol(p) \/ GCRow(p)
    PROVE  Tidy'
<1>1. PICK q \in Process : q = proc[p] /\ Sane(q)
    BY Current
<1>2. q.pc \notin Orphaning /\ q.op # "orphan" /\ Known(q.chain)
    BY <1>1, Zenon DEF GCCheck, GCVol, GCRow, At, Tidy, Known, Orphaning
<1>3. CASE End(p) /\ UNCHANGED layers
    BY <1>3, GoShape, ShapeTidy DEF Goes
<1>4. ASSUME NEW x, x \in Deleting, Go(p, x), UNCHANGED layers, q.chain # << >>,
             \A id \in LiveRows : branches[id].base # Head(q.chain)
      PROVE  Tidy'
    <2>1. PICK e : e = [q EXCEPT !.pc = x]
        BY Zenon
    <2>2. proc'[p] = e /\ \A o \in Procs \ {p} : proc'[o] = proc[o]
        BY <1>1, <1>4, <2>1 DEF Go, EngineInv
    <2>3. e.pc = x /\ e.op = q.op /\ e.chain = q.chain
        BY <2>1 DEF Process
    <2>4. \A id \in LiveRows : branches[id].base \in LiveLayers' \cup {None}
        BY <1>4, Zenon DEF Tidy, LiveLayers
    <2>5. x \notin Orphaning
        BY <1>4, Zenon DEF Deleting, Orphaning
    <2> QED
        BY <1>2, <1>4, <2>2, <2>3, <2>4, <2>5, TidyStep
<1>5. CASE GCCheck(p) /\ ~End(p)
    <2>1. /\ q.chain # << >> /\ ReferencingLayer(Head(q.chain)) = {}
          /\ Go(p, "gcvol") /\ UNCHANGED layers
        BY <1>1, <1>5 DEF GCCheck, OnlyLocal, regVars
    <2>2. Head(q.chain) \in LayerIds
        BY <2>1 DEF Process
    <2>3. \A id \in LiveRows : branches[id].base # Head(q.chain)
        BY <2>1, <2>2, BaseReferenced, Zenon DEF EngineInv
    <2> QED
        BY <1>4, <2>1, <2>3 DEF Deleting
<1>6. CASE GCVol(p) /\ ~End(p)
    <2>1. Go(p, "gcrow") /\ UNCHANGED layers /\ q.pc = "gcvol"
        BY <1>1, <1>6, Zenon DEF GCVol, At, regVars
    <2>2. q.chain # << >> /\ \A id \in LiveRows : branches[id].base # Head(q.chain)
        BY <1>1, <2>1, Zenon DEF Sane, Located, Tidy, Deleting
    <2> QED
        BY <1>4, <2>1, <2>2 DEF Deleting
<1>7. CASE GCRow(p) /\ ~End(p)
    <2>1. PICK l \in LayerIds : l = Head(q.chain)
        BY <1>1, <1>7 DEF GCRow, At, Sane, Located, Process
    <2>2. DeleteLayer(l) /\ GoWith(p, [q EXCEPT !.pc = "gc", !.chain = Tail(q.chain)])
        BY <1>1, <1>7, <2>1 DEF GCRow
    <2>3. q.chain # << >> /\ \A id \in LiveRows : branches[id].base # l
        BY <1>1, <1>7, <2>1 DEF GCRow, At, Sane, Located, Tidy, Deleting
    <2>4. PICK e : e = [q EXCEPT !.pc = "gc", !.chain = Tail(q.chain)]
        BY Zenon
    <2>5. proc'[p] = e /\ \A o \in Procs \ {p} : proc'[o] = proc[o]
        BY <2>2, <2>4 DEF GoWith, EngineInv
    <2>6. e.pc = "gc" /\ e.op = q.op /\ e.chain = Tail(q.chain)
        BY <2>4 DEF Process
    <2>7. Known(Tail(q.chain))
        <3>1. PICK ch \in Seq(LayerIds) : ch = q.chain
            BY DEF Process
        <3>2. /\ Tail(ch) \in Seq(LayerIds)
              /\ \A i \in DOMAIN Tail(ch) : i + 1 \in DOMAIN ch /\ Tail(ch)[i] = ch[i + 1]
            BY <2>3, <3>1
        <3> QED
            BY <1>2, <3>1, <3>2 DEF Known
    <2>8. \A id \in LiveRows : branches[id].base \in LiveLayers' \cup {None}
        <3>1. RegistryTypeOK
            BY DEF EngineInv, LayersInv
        <3>2. \A k \in LayerIds \ {l} : layers'[k] = layers[k]
            BY <2>2, <3>1 DEF DeleteLayer, RegistryTypeOK
        <3> QED
            BY <2>3, <3>2 DEF Tidy, LiveLayers
    <2>9. "gc" \notin Deleting \cup Orphaning
        BY DEF Deleting, Orphaning
    <2> QED
        BY <1>2, <2>5, <2>6, <2>7, <2>8, <2>9, TidyStep, ZenonT(30)
<1>8. End(p) => UNCHANGED layers
    <2>1. GCCheck(p) \/ GCVol(p) => UNCHANGED layers
        BY Zenon DEF GCCheck, GCVol, OnlyLocal, regVars
    <2>2. GCRow(p) /\ End(p) => UNCHANGED layers
        <3> SUFFICES ASSUME GCRow(p), End(p), ~UNCHANGED layers PROVE FALSE
            OBVIOUS
        <3>1. GoWith(p, [q EXCEPT !.pc = "gc", !.chain = Tail(q.chain)])
            BY <1>1 DEF GCRow, regVars
        <3>2. PICK e : e = [q EXCEPT !.pc = "gc", !.chain = Tail(q.chain)]
            BY Zenon
        <3>3. proc'[p] = e /\ proc'[p] = Idle
            BY <3>1, <3>2 DEF GoWith, EngineInv, End
        <3>4. e.pc = "gc" /\ Idle.pc = "idle"
            <4>1. e.pc = "gc"
                BY <3>2 DEF Process
            <4>2. Idle.pc = "idle"
                BY DEF Idle
            <4> QED
                BY <4>1, <4>2
        <3> QED
            BY <3>3, <3>4
    <2> QED
        BY <2>1, <2>2
<1> QED
    BY <1>3, <1>5, <1>6, <1>7, <1>8

\* Every step of the engine.
LEMMA TidyInductive == EngineInv /\ Tidy /\ [EngineNext]_engineVars => Tidy'
<1> SUFFICES ASSUME EngineInv, Tidy, [EngineNext]_engineVars PROVE Tidy'
    OBVIOUS
<1>1. Fine
    BY EngineInductive
<1>2. ASSUME NEW p \in Procs, Provision(p) \/ FreezeSaga(p) PROVE Tidy'
    <2>1. Shape(p)
        BY <1>2, GoShape, SagaGoes, StartShape, WriteShape DEF Provision, FreezeSaga
    <2> QED
        BY <1>1, <1>2, <2>1, ShapeTidy, SagaLayers
<1>3. ASSUME NEW p \in Procs, Teardown(p) \/ ReconcileStep(p), ~GCCheck(p), ~GCVol(p), ~GCRow(p)
      PROVE  Tidy'
    <2>1. Shape(p)
        BY <1>3, GoShape, TeardownGoes, ReconcileGoes, StartShape, WriteShape, CheckOrphanShape
           DEF Teardown, ReconcileStep
    <2> QED
        BY <1>1, <1>3, <2>1, ShapeTidy, OtherLayers
<1>4. ASSUME NEW p \in Procs, PlanStep(p) \/ Request(p) PROVE Tidy'
    <2>1. ~GCRow(p)
        BY <1>4, Zenon
           DEF PlanStep, PlanReap, PlanRetry, PlanLost, PlanOrphan, PlanGCLayer, PlanGCVolume, Plan,
               FailStuck, Request, StartCreate, StartFrom, ReadForRestart, Begin, GCRow, At
    <2> QED
        BY <1>1, <1>4, <2>1, RequestShape, PlanShape, ShapeTidy, OtherLayers
<1>5. ASSUME NEW p \in Procs, StepFails(p) \/ Crash(p) PROVE Tidy'
    <2>1. UNCHANGED layers
        BY <1>5 DEF StepFails, Crash, OnlyLocal, regVars
    <2> QED
        BY <1>1, <1>5, <2>1, GoShape, ReconcileGoes, ShapeTidy
<1>6. CASE UNCHANGED <<proc, layers>>
    <2>1. /\ LayersStay
          /\ \A i \in LiveRows' :
                    \/ i \in LiveRows /\ branches'[i].base = branches[i].base
                    \/ branches'[i].base = None
                    \/ LET l == branches'[i].base
                       IN l \in LayerIds /\ layers[l].st = "absent" /\ l \in LiveLayers'
        BY <1>1, BasesStep DEF EngineInv, LayersInv, Fine
    <2>2. \A i \in LiveRows' : \/ i \in LiveRows /\ branches'[i].base = branches[i].base
                               \/ branches'[i].base = None
        BY <1>6, <2>1 DEF LiveLayers
    <2>3. \A p \in Procs : proc[p].pc \in Deleting => Head(proc[p].chain) # None
        <3> SUFFICES ASSUME NEW p \in Procs, proc[p].pc \in Deleting
                     PROVE  Head(proc[p].chain) # None
            OBVIOUS
        <3>1. PICK q \in Process : q = proc[p] /\ Sane(q)
            BY Current
        <3>2. q.chain # << >>
            BY <3>1, Zenon DEF Sane, Located, Deleting
        <3>3. Head(q.chain) \in LayerIds
            BY <3>2 DEF Process
        <3> QED
            BY <3>1, <3>3, RegistryAssumption
    <2> QED
        BY <1>6, <2>2, <2>3, ZenonT(30) DEF Tidy, LiveLayers
<1>7. (\E k \in ctrs : LoseContainer(k)) => UNCHANGED <<proc, layers>>
    BY DEF LoseContainer, regVars
<1>8. (\E id \in RowIds : AgeRow(id) \/ ExpireRow(id)) => UNCHANGED <<proc, layers>>
    BY DEF AgeRow, ExpireRow, Age, Expire
<1>9. ASSUME NEW p \in Procs, GCCheck(p) \/ GCVol(p) \/ GCRow(p) PROVE Tidy'
    BY <1>1, <1>9, CollectTidy
<1> QED
    BY <1>2, <1>3, <1>4, <1>5, <1>6, <1>7, <1>8, <1>9 DEF EngineNext, Step, engineVars

\* At first there is no row, and no process at work.
LEMMA TidyStarts == EngineInit => Tidy
<1> SUFFICES ASSUME EngineInit PROVE Tidy
    OBVIOUS
<1>1. \A id \in RowIds : branches[id] = NoRow
    BY DEF EngineInit, RegistryInit
<1>2. LiveRows = {}
    BY <1>1 DEF LiveRows, Live, NoRow
<1>3. \A p \in Procs : proc[p] = Idle
    BY DEF EngineInit, Idles
<1>4. Idle.op # "orphan" /\ Idle.pc = "idle" /\ Idle.chain = << >>
    BY DEF Idle
<1>5. DOMAIN << >> = {}
    OBVIOUS
<1> QED
    BY <1>2, <1>3, <1>4, <1>5, ZenonT(30) DEF Tidy, Deleting, Orphaning

\* In every reachable state the frozen layers of a live branch are all there:
\* gcLayers never deletes one (CountBranchesReferencingLayer and the foreign key
\* suffice although the count and the delete are separate calls).
THEOREM EngineChainsLive == EngineSpec => []ChainsLive
<1>1. EngineInv /\ Tidy => ChainsLive
    BY BaseLive DEF ChainsLive, Tidy, EngineInv, LiveRows
<1> QED
    BY <1>1, EngineSound, TidyStarts, TidyInductive, PTL DEF EngineSpec

\* What a process takes away: containers it recorded, which are its own.
Spares(p) == \A k \in ctrs : k \notin ctrs' => Theirs(proc[p], k)

\* A container that one of a process's rows owns.
LEMMA MineTheirs ==
    ASSUME EngineInv, NEW q \in Process, q.op # "orphan", NEW k \in ctrs, NEW c, k.cid = c,
           \/ Mine(c, q.id) /\ Is(q.id, q.name, q.rw)
           \/ Mine(c, q.pid) /\ Is(q.pid, q.pname, q.prw)
    PROVE  Theirs(q, k)
<1>1. k \in Container /\ Is(k.row, k.name, k.rw) /\ (~Docker => k.cid = k.name)
    BY Zenon DEF EngineInv, Contained
<1>2. c # None
    BY <1>1, RegistryAssumption DEF Container
<1> QED
    BY <1>1, <1>2 DEF Mine, Is, Theirs

\* StopRemove, in the sagas and in the reconcile pass.
LEMMA RemoversSpare ==
    ASSUME EngineInv, Tidy, NEW p \in Procs,
           \/ UndoStep(p) \/ StopParent(p) \/ Restop(p) \/ Halt(p) \/ Stray(p) \/ LostDrop(p)
           \/ RmOrphan(p)
    PROVE  Spares(p)
<1>1. PICK q \in Process : q = proc[p] /\ Sane(q)
    BY Current
<1>2. SUFFICES ASSUME NEW k \in ctrs, k \notin ctrs' PROVE Theirs(q, k)
    BY <1>1 DEF Spares
<1>3. CASE RmOrphan(p)
    <2>1. q.op = "orphan"
        BY <1>1, <1>3, Zenon DEF RmOrphan, At, Tidy, Orphaning
    <2>2. k.cid = q.cid /\ k.row \notin q.seen
        BY <1>1, <1>2, <1>3, Zenon DEF RmOrphan
    <2> QED
        BY <2>1, <2>2 DEF Theirs
<1>4. ASSUME q.pc \in {"undo", "stopparent", "restop", "halt", "stray", "lostdrop", "lostfail"}
      PROVE  q.op # "orphan" /\ Is(q.id, q.name, q.rw)
    <2>1. q.pc \notin Orphaning \cup Fresh \cup Collecting
        BY <1>4 DEF Orphaning, Fresh, Collecting
    <2> QED
        BY <1>1, <2>1, Zenon DEF Tidy, Sane, Located
<1>5. CASE UndoStep(p)
    <2>1. q.pc = "undo" /\ q.undo # << >>
        BY <1>1, <1>5 DEF UndoStep, At
    <2>2. Len(q.undo) \in 1..Len(q.undo)
        <3>1. q.undo \in Seq(Entry)
            BY DEF Process
        <3> QED
            BY <2>1, <3>1
    <2>3. PICK i \in 1..Len(q.undo) : i = Len(q.undo)
        BY <2>2
    <2>4. q.undo[i].kind = "ctr" /\ k.cid = q.undo[i].what
        BY <1>1, <1>2, <1>5, <2>3, ZenonT(30) DEF UndoStep, Stopped, world
    <2>5. \/ Mine(q.undo[i].what, q.id) \/ (q.op = "from" /\ Mine(q.undo[i].what, q.pid))
        BY <1>1, <2>4, Zenon DEF Sane, Owning
    <2>6. q.op = "from" => Is(q.pid, q.pname, q.prw)
        BY <1>1, Zenon DEF Sane, Located
    <2> QED
        BY <1>4, <2>1, <2>4, <2>5, <2>6, MineTheirs, ZenonT(30)
<1>6. CASE StopParent(p)
    <2>1. q.pc = "stopparent" /\ k.cid = q.pcid
        BY <1>1, <1>2, <1>6, Zenon DEF StopParent, At, Stopped
    <2>2. Mine(q.pcid, q.pid) /\ Is(q.pid, q.pname, q.prw)
        BY <1>1, <2>1, Zenon DEF Sane, Owning, Located, Freezing
    <2> QED
        BY <1>4, <2>1, <2>2, MineTheirs, Zenon
<1>7. CASE Restop(p)
    <2>1. q.pc = "restop" /\ k.cid = q.pnew
        BY <1>1, <1>2, <1>7 DEF Restop, At, Stopped
    <2>2. Mine(q.pnew, TargetId(q)) /\ (q.op = "from" => Is(q.pid, q.pname, q.prw))
        BY <1>1, Zenon DEF Sane, Owning, Located
    <2> QED
        BY <1>4, <2>1, <2>2, MineTheirs, ZenonT(30) DEF TargetId
<1>8. CASE Halt(p)
    <2>1. q.pc = "halt" /\ k.cid = q.cid
        BY <1>1, <1>2, <1>8 DEF Halt, At, Stopped
    <2>2. Mine(q.cid, q.id)
        BY <1>1, <1>4, <2>1, ZenonT(30) DEF Sane, Owning
    <2> QED
        BY <1>4, <2>1, <2>2, MineTheirs, Zenon
<1>9. CASE Stray(p)
    <2>1. q.pc = "stray" /\ k.name = q.name /\ k.row = q.id
        BY <1>1, <1>2, <1>9, Zenon DEF Stray, At
    <2> QED
        BY <1>4, <2>1 DEF Theirs
<1>10. CASE LostDrop(p)
    <2>1. q.pc \in {"lostdrop", "lostfail"} /\ k.cid = q.new
        BY <1>1, <1>2, <1>10, Zenon DEF LostDrop, At, Stopped
    <2>2. Mine(q.new, q.id)
        BY <1>1, Zenon DEF Sane, Owning
    <2> QED
        BY <1>4, <2>1, <2>2, MineTheirs, Zenon
<1> QED
    BY <1>3, <1>5, <1>6, <1>7, <1>8, <1>9, <1>10

\* No other step takes a container away.
LEMMA SagaKeeps ==
    ASSUME NEW p \in Procs, Provision(p) \/ FreezeSaga(p), ~UndoStep(p), ~StopParent(p), ~Restop(p)
    PROVE  ctrs \subseteq ctrs'
<1> USE DEF OnlyLocal, OnlyRegistry, world
<1>1. ASSUME NEW n, NEW id, NEW rw, NEW L, NEW install, NEW next, NEW failed,
             StartOn(p, n, id, rw, L, install, next, failed)
      PROVE  ctrs \subseteq ctrs'
    BY <1>1, Zenon DEF StartOn, Started
<1>2. CASE Start(p) \/ StartParent(p) \/ StartChild(p) \/ Restart(p)
    BY <1>1, <1>2, Zenon DEF Start, StartParent, StartChild, Restart
<1>3. CASE InsertRow(p) \/ MkVol(p) \/ Own(p) \/ Mark(p) \/ Undone(p) \/ MarkFailed(p)
    BY <1>3, Zenon DEF InsertRow, MkVol, Own, Mark, Undone, MarkFailed
<1>4. CASE FreezePlan(p) \/ Freeze(p) \/ Unfreeze(p) \/ Claim(p) \/ MkFreezeVol(p) \/ OwnParent(p)
    BY <1>4, Zenon DEF FreezePlan, Freeze, Unfreeze, Claim, MkFreezeVol, OwnParent
<1>5. CASE TouchParent(p) \/ TouchChild(p) \/ OwnChild(p) \/ Commit(p) \/ MarkChild(p)
    BY <1>5, Zenon DEF TouchParent, TouchChild, OwnChild, Commit, MarkChild
<1>6. CASE Reown(p) \/ Remark(p) \/ FailTarget(p)
    BY <1>6, Zenon DEF Reown, Remark, FailTarget
<1> QED
    BY <1>2, <1>3, <1>4, <1>5, <1>6 DEF Provision, FreezeSaga

\* The same outside the sagas.
LEMMA OtherKeeps ==
    ASSUME NEW p \in Procs,
           \/ Teardown(p) \/ ReconcileStep(p) \/ PlanStep(p) \/ Request(p) \/ StepFails(p) \/ Crash(p),
           ~Halt(p), ~Stray(p), ~LostDrop(p), ~RmOrphan(p)
    PROVE  ctrs \subseteq ctrs'
<1> USE DEF OnlyLocal, OnlyRegistry, world
<1>1. CASE ToResetting(p) \/ ReadDestroy(p) \/ ToDestroying(p) \/ Guard(p) \/ RmVol(p)
    BY <1>1, Zenon DEF ToResetting, ReadDestroy, ToDestroying, Guard, RmVol
<1>2. CASE FailNote(p) \/ ToDestroyed(p) \/ GCCheck(p) \/ GCVol(p) \/ GCRow(p)
    BY <1>2, Zenon DEF FailNote, ToDestroyed, GCCheck, GCVol, GCRow
<1>3. CASE ApplyReap(p) \/ ApplyRetry(p) \/ Reread(p) \/ ApplyLost(p)
    BY <1>3, Zenon DEF ApplyReap, ApplyRetry, Reread, ApplyLost
<1>4. CASE LostStart(p)
    BY <1>4, Zenon DEF LostStart, StartOn, Started
<1>5. CASE LostOwn(p) \/ LostMark(p) \/ FailReady(p) \/ CheckOrphan(p)
    BY <1>5, Zenon DEF LostOwn, LostMark, FailReady, CheckOrphan
<1>6. CASE CheckLiveRows(p) \/ CheckLiveLayers(p) \/ RmOrphanVolume(p)
    BY <1>6, Zenon DEF CheckLiveRows, CheckLiveLayers, RmOrphanVolume
<1>7. CASE PlanStep(p)
    BY <1>7, Zenon DEF PlanStep, PlanReap, PlanRetry, PlanLost, PlanOrphan, PlanGCLayer, PlanGCVolume,
                       Plan, FailStuck
<1>8. CASE Request(p)
    BY <1>8, Zenon DEF Request, StartCreate, StartFrom, ReadForRestart, Begin
<1>9. CASE StepFails(p) \/ Crash(p)
    BY <1>9, Zenon DEF StepFails, Crash
<1> QED
    BY <1>1, <1>2, <1>3, <1>4, <1>5, <1>6, <1>7, <1>8, <1>9 DEF Teardown, ReconcileStep

\* A step is of one process, and spares what is not its own.
LEMMA StepSpares ==
    ASSUME EngineInv, Tidy, NEW p \in Procs,
           Request(p) \/ Step(p) \/ PlanStep(p) \/ StepFails(p) \/ Crash(p)
    PROVE  Spares(p) /\ \A o \in Procs \ {p} : proc'[o] = proc[o]
<1>1. Spares(p)
    <2>1. ctrs \subseteq ctrs' => Spares(p)
        BY DEF Spares
    <2> QED
        BY <2>1, RemoversSpare, SagaKeeps, OtherKeeps DEF Step
<1>2. \A o \in Procs \ {p} : proc'[o] = proc[o]
    <2>1. CASE GCCheck(p) \/ GCVol(p) \/ GCRow(p)
        <3>1. End(p) \/ (\E x : Go(p, x)) \/ (\E e : GoWith(p, e))
            BY <2>1 DEF GCCheck, GCVol, GCRow
        <3> QED
            BY <3>1 DEF End, Go, GoWith, EngineInv
    <2>2. CASE Shape(p)
        BY <2>2 DEF Shape
    <2>3. Provision(p) \/ FreezeSaga(p) => Shape(p)
        BY GoShape, SagaGoes, StartShape, WriteShape DEF Provision, FreezeSaga
    <2>4. Teardown(p) \/ ReconcileStep(p) => Shape(p) \/ GCCheck(p) \/ GCVol(p) \/ GCRow(p)
        BY GoShape, TeardownGoes, ReconcileGoes, StartShape, WriteShape, CheckOrphanShape
           DEF Teardown, ReconcileStep
    <2>5. Request(p) \/ PlanStep(p) \/ StepFails(p) \/ Crash(p) => Shape(p)
        BY RequestShape, PlanShape, ReconcileGoes, GoShape
    <2> QED
        BY <2>1, <2>2, <2>3, <2>4, <2>5, ZenonT(30) DEF Step
<1> QED
    BY <1>1, <1>2

\* A process only ever takes away containers of the branch it works for, or of the
\* parent it freezes; an orphan's removal only the container it was planned for,
\* and only if no row that it read as possibly in flight owns it.
THEOREM EngineSparesOthers == EngineSpec => SparesOthers
<1> DEFINE A == \A p \in Procs, k \in ctrs :
                  proc'[p] # proc[p] /\ k \notin ctrs' =>
                     IF proc[p].op = "orphan" THEN k.cid = proc[p].cid /\ k.row \notin proc[p].seen
                     ELSE /\ k.name \in {proc[p].name, proc[p].pname}
                          /\ Docker => k.row \in {proc[p].id, proc[p].pid}
<1>2. EngineInv /\ Tidy /\ [EngineNext]_engineVars => [A]_engineVars
    <2> SUFFICES ASSUME EngineInv, Tidy, EngineNext PROVE A
        OBVIOUS
    <2>1. ASSUME NEW o \in Procs,
                 Request(o) \/ Step(o) \/ PlanStep(o) \/ StepFails(o) \/ Crash(o)
          PROVE  A
        <3>1. Spares(o) /\ \A p \in Procs \ {o} : proc'[p] = proc[p]
            BY <2>1, StepSpares
        <3> QED
            BY <3>1, Zenon DEF Spares, Theirs
    <2>2. CASE UNCHANGED proc
        BY <2>2
    <2>3. (\E k \in ctrs : LoseContainer(k)) => UNCHANGED proc
        BY DEF LoseContainer
    <2>4. (\E id \in RowIds : AgeRow(id) \/ ExpireRow(id)) => UNCHANGED proc
        BY DEF AgeRow, ExpireRow
    <2> HIDE DEF A
    <2> QED
        BY <2>1, <2>2, <2>3, <2>4 DEF EngineNext
<1>3. EngineSpec => []EngineInv
    BY EngineSound
<1> QED
    BY <1>2, <1>3, TidyStarts, TidyInductive, PTL DEF EngineSpec, SparesOthers
=============================================================================
