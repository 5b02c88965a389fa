--------------------------- MODULE EngineTheorems ---------------------------
(***************************************************************************)
(* The rest of the engine's steps (restarts, teardown, reconcile, the      *)
(* environment), and what holds of the whole engine for any number of      *)
(* processes, rows, layers and names, any budget of operations and faults, *)
(* and either driver.                                                      *)
(***************************************************************************)
EXTENDS EngineProofs

\* The provers a leaf is tried with, unless it names its own.
USE SMTT(10), Zenon, SMTT(30)

-----------------------------------------------------------------------------
(* Steps that move the program counter, or end the operation. *)

\* A process goes to a place that promises no more, or is done.
Advances(p) == End(p) \/ \E x : MayGo(proc[p].pc, x) /\ Go(p, x)

\* Such a step, with at most one call of a method that keeps the rows.
LEMMA QuietStep ==
    ASSUME EngineInv, NEW p \in Procs, Advances(p), UNCHANGED world,
           \/ UNCHANGED regVars
           \/ \E id \in RowIds : \E c : KeepsRows(id, c) /\ RegistryNext /\ Mine(c, id)
    PROVE  Fine
<1>1. /\ UNCHANGED world => ctrs' \subseteq ctrs
      /\ UNCHANGED world => vols' \in [Vols -> RowIds \cup {None, "bare", "blank"}]
    BY DEF world, EngineInv
<1>2. CASE UNCHANGED regVars /\ End(p)
    BY <1>1, <1>2, EndStep
<1>3. ASSUME UNCHANGED regVars, NEW x, MayGo(proc[p].pc, x), Go(p, x) PROVE Fine
    BY <1>1, <1>3, GoStep
<1>4. ASSUME NEW id \in RowIds, NEW c, KeepsRows(id, c), RegistryNext, Mine(c, id), End(p)
      PROVE  Fine
    BY <1>4, EndKeeping
<1>5. ASSUME NEW id \in RowIds, NEW c, KeepsRows(id, c), RegistryNext, Mine(c, id),
             NEW x, MayGo(proc[p].pc, x), Go(p, x)
      PROVE  Fine
    BY <1>5, GoKeeping
<1> QED
    BY <1>2, <1>3, <1>4, <1>5 DEF Advances

\* Such a step that removes containers or a volume.
LEMMA RuntimeStep ==
    ASSUME EngineInv, NEW p \in Procs, Advances(p), UNCHANGED regVars, ctrs' \subseteq ctrs,
           vols' = vols \/ \E v : vols' = Removed(v)
    PROVE  Fine
<1>1. vols' \in [Vols -> RowIds \cup {None, "bare", "blank"}]
    BY DEF EngineInv, Removed
<1>2. CASE End(p)
    BY <1>1, <1>2, EndStep
<1>3. ASSUME NEW x, MayGo(proc[p].pc, x), Go(p, x) PROVE Fine
    BY <1>1, <1>3, GoStep
<1> QED
    BY <1>2, <1>3 DEF Advances

\* The methods of the registry that a process may call on a row that exists.
LEMMA TransitionKeeps ==
    ASSUME EngineInv, NEW id \in RowIds, NEW to \in States,
           TransitionBranch(id, to) \/ NoteBranch(id)
    PROVE  \E c : KeepsRows(id, c) /\ RegistryNext /\ Mine(c, id)
<1>1. KeepsRows(id, None) /\ RegistryNext
    BY MethodsKeep DEF EngineInv, LayersInv
<1> QED
    BY <1>1, NobodysMine

\* Where a process that works for a row may go.
LEMMA WorkMoves ==
    ASSUME EngineInv, NEW p \in Procs, proc[p].pc \in Labels \ (Fresh \cup Collecting),
           End(p) \/ \E x \in (Working \ {"lostown", "lostmark"}) \cup {"gc"} : Go(p, x)
    PROVE  Advances(p)
<1>1. ASSUME NEW x \in Working \ {"lostown", "lostmark"} PROVE MayGo(proc[p].pc, x)
    BY MayWork
<1>2. MayGo(proc[p].pc, "gc")
    BY DEF MayGo, Labels, Fresh, Collecting, Freezing, ParentUp
<1> QED
    BY <1>1, <1>2 DEF Advances

-----------------------------------------------------------------------------
(* restartAndMarkReady. *)

\* The row it restarts.
LEMMA TargetRead ==
    ASSUME EngineInv, NEW q \in Process, Sane(q), q.pc \in Working
    PROVE  /\ Is(TargetId(q), TargetName(q), TargetRW(q))
           /\ TargetId(q) \in RowIds /\ TargetName(q) \in Names
           /\ Mine(q.pnew, TargetId(q)) /\ q.pnew \in Cids \cup {None}
<1>1. Mine(q.pnew, TargetId(q)) /\ q.pnew \in Cids \cup {None}
    BY DEF Sane, Owning, Process
<1>2. CASE q.op = "from"
    BY <1>1, <1>2, ParentRead DEF TargetId, TargetName, TargetRW
<1>3. CASE q.op # "from"
    BY <1>1, <1>3, WorkRead DEF TargetId, TargetName, TargetRW
<1> QED
    BY <1>2, <1>3

\* Its container starts.
LEMMA RestartFine == ASSUME EngineInv, NEW p \in Procs, Restart(p) PROVE Fine
<1>1. PICK q \in Process : q = proc[p] /\ Sane(q) /\ CidsOf(q) \subseteq KnownCids
    BY Current, Zenon
<1>2. UNCHANGED regVars /\ q.pc = "restart" /\ q.pc \in Working
    BY <1>1 DEF Restart, At, Working
<1>3. q.pc \in Labels \ (Fresh \cup Collecting)
    BY <1>1, <1>2, WorkRead
<1>4. PICK id \in RowIds, n \in Names, rw \in Vols :
          /\ id = TargetId(q) /\ n = TargetName(q) /\ rw = TargetRW(q) /\ Is(id, n, rw)
    BY <1>1, <1>2, TargetRead DEF Is
<1>5. PICK L \in SUBSET (Vols \cup {None}) : L = VolsOf(q.chain)
    BY VolsOfTyped DEF Process
<1>6. PICK c : c = NewCid(n)
    BY Zenon
<1>7. PICK failed : failed = [q EXCEPT !.pc = "failtarget"]
    BY Zenon
<1>8. PICK next : next = [q EXCEPT !.pc = "reown", !.pnew = c]
    BY Zenon
<1>9. PICK install \in BOOLEAN : install = (q.op = "recover")
    BY Zenon
<1>10. StartOn(p, n, id, rw, L, install, next, failed)
    BY <1>1, <1>4, <1>5, <1>6, <1>7, <1>8, <1>9 DEF Restart
<1>11. failed \in Process /\ Sane(failed) /\ CidsOf(failed) = CidsOf(q)
    BY <1>1, <1>3, <1>7, FailedSane DEF Working
<1>12. ASSUME c \in Cids, OwnersStay(KnownCids \cup {None}), Mine(c, id)'
       PROVE  next \in Process /\ Sane(next)'
    <2>1. next \in Process
        <3>1. "reown" \in Labels /\ c \in Cids \cup {None}
            BY <1>12 DEF Labels, Working
        <3> QED
            BY <1>8, <3>1, ZenonT(60) DEF Process
    <2>2. /\ next.pc = "reown" /\ next.op = q.op /\ next.id = q.id /\ next.name = q.name
          /\ next.rw = q.rw /\ next.cid = q.cid /\ next.pid = q.pid /\ next.pname = q.pname
          /\ next.prw = q.prw /\ next.pcid = q.pcid /\ next.newrw = q.newrw /\ next.new = q.new
          /\ next.pnew = c /\ next.undo = q.undo
        BY <1>8 DEF Process
    <2>3. Sane(q)'
        <3>1. RowsStay
            BY <1>2 DEF RowsStay, Exists, regVars
        <3> QED
            BY <1>1, <1>12, <3>1, SaneStays
    <2>4. Carries(next, q) /\ Takes(next, q, c)'
        BY <1>4, <1>12, <2>2 DEF Carries, Takes, TargetId
    <2>5. Reaches(next, q)
        BY <1>3, <2>2 DEF Reaches, Fresh, Collecting, Freezing, ParentUp
    <2> QED
        BY <1>12, <2>1, <2>2, <2>3, <2>4, <2>5, StartedSane
<1> QED
    BY <1>1, <1>2, <1>4, <1>6, <1>10, <1>11, <1>12, StartingStep DEF Fine

\* It is recorded and waited for; the row becomes ready, or failed.
LEMMA RestartedFine ==
    ASSUME EngineInv, NEW p \in Procs, Reown(p) \/ Remark(p) \/ Restop(p) \/ FailTarget(p)
    PROVE  Fine
<1>1. PICK q \in Process : q = proc[p] /\ Sane(q)
    BY Current, Zenon
<1>2. q.pc \in {"reown", "remark", "restop", "failtarget"} /\ q.pc \in Working
    BY <1>1 DEF Reown, Remark, Restop, FailTarget, At, Working
<1>3. q.pc \in Labels \ (Fresh \cup Collecting)
    BY <1>1, <1>2, WorkRead
<1>4. PICK id \in RowIds : id = TargetId(q) /\ Mine(q.pnew, id) /\ q.pnew \in Cids \cup {None}
    BY <1>1, <1>2, TargetRead
<1>5. {"remark", "restop", "failtarget", "markfailed"} \subseteq Working \ {"lostown", "lostmark"}
    BY DEF Working
<1>6. Advances(p)
    <2>1. End(p) \/ \E x \in {"remark", "restop", "failtarget", "markfailed"} : Go(p, x)
        BY DEF Reown, Remark, Restop, FailTarget
    <2> QED
        BY <1>1, <1>3, <1>5, <2>1, WorkMoves
<1>7. CASE SetBranchContainer(id, q.pnew) /\ UNCHANGED world
    <2>1. KeepsRows(id, q.pnew) /\ RegistryNext
        BY <1>4, <1>7, MethodsRecord DEF EngineInv, LayersInv
    <2> QED
        BY <1>4, <1>6, <1>7, <2>1, QuietStep
<1>8. CASE MarkBranchReady(id, q.pnew) /\ UNCHANGED world
    <2>1. KeepsRows(id, q.pnew) /\ RegistryNext
        BY <1>4, <1>8, MethodsRecord DEF EngineInv, LayersInv
    <2> QED
        BY <1>4, <1>6, <1>8, <2>1, QuietStep
<1>9. CASE TransitionBranch(id, "failed") /\ UNCHANGED world
    BY <1>6, <1>9, QuietStep, TransitionKeeps DEF States
<1>10. CASE UNCHANGED regVars /\ UNCHANGED vols /\ ctrs' \subseteq ctrs
    BY <1>6, <1>10, RuntimeStep
<1>11. CASE Reown(p)
    BY <1>1, <1>4, <1>7, <1>11 DEF Reown, OnlyRegistry
<1>12. CASE Remark(p)
    BY <1>1, <1>4, <1>8, <1>10, <1>12 DEF Remark, OnlyRegistry, world
<1>13. CASE Restop(p)
    BY <1>10, <1>13 DEF Restop, Stopped
<1>14. CASE FailTarget(p)
    BY <1>1, <1>4, <1>9, <1>10, <1>14 DEF FailTarget, OnlyRegistry, BestEffort, world
<1> QED
    BY <1>11, <1>12, <1>13, <1>14

\* A call or a wait fails, and a process dies.
LEMMA FaultFine == ASSUME EngineInv, NEW p \in Procs, StepFails(p) \/ Crash(p) PROVE Fine
<1>1. PICK q \in Process : q = proc[p] /\ Sane(q)
    BY Current
<1>2. UNCHANGED regVars /\ UNCHANGED world
    BY DEF StepFails, Crash, OnlyLocal
<1>3. ASSUME StepFails(p) PROVE Advances(p)
    <2>1. q.pc \in Labels \ (Fresh \cup Collecting)
        <3>1. q.pc \in {"mkvol", "start", "own", "mark", "claim", "mknew", "startparent",
                        "touchparent", "mkchild", "startchild", "commit", "plan", "freeze",
                        "markchild", "restart", "remark"}
            BY <1>1, <1>3 DEF StepFails
        <3> QED
            BY <3>1 DEF Labels, Working, Freezing, Fresh, Collecting
    <2>2. \E x \in {"undo", "markfailed", "failtarget", "restop"} : Go(p, x)
        BY <1>3 DEF StepFails
    <2>3. {"undo", "markfailed", "failtarget", "restop"} \subseteq Working \ {"lostown", "lostmark"}
        BY DEF Working
    <2> QED
        BY <1>1, <2>1, <2>2, <2>3, WorkMoves
<1>4. Crash(p) => Advances(p)
    BY DEF Crash, Advances
<1> QED
    BY <1>2, <1>3, <1>4, QuietStep

-----------------------------------------------------------------------------
(* Reset, recovery and teardown. *)

\* The steps of a reset, a recovery or a destroy that call the registry.
LEMMA TeardownCallFine ==
    ASSUME EngineInv, NEW p \in Procs,
           ToResetting(p) \/ ToDestroying(p) \/ FailNote(p) \/ ToDestroyed(p)
    PROVE  Fine
<1>1. PICK q \in Process : q = proc[p] /\ Sane(q)
    BY Current
<1>2. q.pc \in {"reset", "force", "todestroying", "note", "failnote", "todestroyed"}
    BY <1>1 DEF ToResetting, ToDestroying, FailNote, ToDestroyed, At
<1>3. q.pc \in Labels \ (Fresh \cup Collecting) /\ q.id \in RowIds
    BY <1>1, <1>2, WorkRead DEF Working, Is
<1>4. Advances(p)
    <2>1. End(p) \/ \E x \in {"halt", "todestroying", "gc"} : Go(p, x)
        BY DEF ToResetting, ToDestroying, FailNote, ToDestroyed
    <2>2. {"halt", "todestroying"} \subseteq Working \ {"lostown", "lostmark"}
        BY DEF Working
    <2> QED
        BY <1>1, <1>3, <2>1, <2>2, WorkMoves
<1>5. /\ UNCHANGED world
      /\ \/ UNCHANGED regVars \/ NoteBranch(q.id)
         \/ \E to \in {"resetting", "failed", "destroying", "destroyed"} : TransitionBranch(q.id, to)
    BY <1>1 DEF ToResetting, ToDestroying, FailNote, ToDestroyed, OnlyRegistry
<1>6. "ready" \in States /\ {"resetting", "failed", "destroying", "destroyed"} \subseteq States
    BY DEF States
<1> QED
    BY <1>3, <1>4, <1>5, <1>6, TransitionKeeps, QuietStep

\* The steps that remove a container or a volume of the row.
LEMMA RemoveFine ==
    ASSUME EngineInv, NEW p \in Procs, Halt(p) \/ Guard(p) \/ RmVol(p) PROVE Fine
<1>1. PICK q \in Process : q = proc[p] /\ Sane(q)
    BY Current
<1>2. q.pc \in Labels \ (Fresh \cup Collecting)
    BY <1>1, WorkRead DEF Working, Is, Halt, Guard, RmVol, At
<1>3. Advances(p)
    <2> DEFINE X == {"rmvol", "restart", "stray", "guard", "markfailed", "failnote",
                     "todestroyed", "mkvol"}
    <2>1. End(p) \/ \E x \in X : Go(p, x)
        BY DEF Halt, Guard, RmVol
    <2>2. X \subseteq Working \ {"lostown", "lostmark"}
        BY DEF Working
    <2> QED
        BY <1>1, <1>2, <2>1, <2>2, WorkMoves
<1>4. UNCHANGED regVars /\ ctrs' \subseteq ctrs /\ (vols' = vols \/ \E v : vols' = Removed(v))
    BY DEF Halt, Guard, RmVol, OnlyLocal, world, Stopped
<1> QED
    BY <1>3, <1>4, RuntimeStep

\* The columns of a row that exists.
LEMMA RowRead ==
    ASSUME EngineInv, NEW id \in RowIds, Exists(id)
    PROVE  \E n \in Names, v \in Vols, c \in Cids \cup {None} :
              /\ n = branches[id].name /\ v = branches[id].rw /\ c = branches[id].cid
              /\ Is(id, n, v) /\ Mine(c, id)
<1>1. branches[id].cid \in Cids \cup {None}
    BY DEF EngineInv, LayersInv, RegistryTypeOK, Row
<1>2. PICK n, v, c : n = branches[id].name /\ v = branches[id].rw /\ c = branches[id].cid
    BY Zenon
<1>3. n \in Names /\ Is(id, n, v) /\ Mine(c, id)
    BY <1>2 DEF EngineInv, Rows
<1> QED
    BY <1>1, <1>2, <1>3 DEF Is

\* A process that holds a row, and no container or compensation of its own.
LEMMA HoldsRow ==
    ASSUME EngineInv, NEW e \in Process, e.pc \in Working \ {"lostown", "lostmark"},
           Is(e.id, e.name, e.rw), Mine(e.cid, e.id), e.new = None, e.pnew = None,
           e.undo = << >>, Mine(e.pcid, e.pid), e.op = "from" => Is(e.pid, e.pname, e.prw)
    PROVE  Sane(e)
<1>1. e.pc \notin Fresh \cup Collecting /\ e.pc \notin Freezing /\ e.pc \notin ParentUp
    BY DEF Working, Fresh, Collecting, Freezing, ParentUp
<1>2. Located(e)
    BY <1>1 DEF Located, Fresh, Collecting
<1>3. Owning(e)
    BY NobodysMine DEF Owning
<1> QED
    BY <1>2, <1>3 DEF Sane

\* A process that holds no row yet.
LEMMA HoldsNothing ==
    ASSUME EngineInv, NEW e \in Process, e.pc \in (Fresh \ {"insert"}) \cup {"gc"},
           e.new = None, e.pnew = None, e.undo = << >>, Mine(e.pcid, e.pid),
           e.op = "from" => Is(e.pid, e.pname, e.prw),
           e.op = "orphan" \/ e.cid = None
    PROVE  Sane(e)
<1>1. e.pc \in Fresh \cup Collecting /\ e.pc \notin Freezing /\ e.pc \notin ParentUp
    BY DEF Fresh, Collecting, Freezing, ParentUp
<1>2. Located(e)
    BY <1>1 DEF Located, Fresh
<1>3. Owning(e)
    BY NobodysMine DEF Owning
<1> QED
    BY <1>2, <1>3 DEF Sane

\* What such a process records.
LEMMA RowTaken ==
    ASSUME NEW q \in Process, NEW id \in RowIds, NEW v \in Vols, NEW c \in Cids \cup {None},
           NEW ch \in Seq(LayerIds), NEW g \in BOOLEAN, NEW x \in Labels
    PROVE  [q EXCEPT !.id = id, !.rw = v, !.cid = c, !.chain = ch, !.guarded = g, !.pc = x]
               \in Process
<1>1. id \in RowIds \cup {None} /\ v \in Vols \cup {None}
    OBVIOUS
<1> QED
    BY <1>1, ZenonT(60) DEF Process

\* DestroyBranch reads the row; the restart of a lost branch does.
LEMMA TakeRowFine ==
    ASSUME EngineInv, NEW p \in Procs, NEW q \in Process, q = proc[p], Sane(q), q.pc \in Fresh,
           UNCHANGED <<regVars, world>>, NEW id \in ByName(q.name),
           NEW ch \in Seq(LayerIds), NEW g \in BOOLEAN, NEW x \in Working \ {"lostown", "lostmark"},
           GoWith(p, [q EXCEPT !.id = id, !.rw = branches[id].rw, !.cid = branches[id].cid,
                               !.chain = ch, !.guarded = g, !.pc = x])
    PROVE  Fine
<1>1. id \in RowIds /\ Exists(id) /\ branches[id].name = q.name
    BY DEF ByName, Live, Exists
<1>2. PICK n \in Names, v \in Vols, c \in Cids \cup {None} :
          /\ n = branches[id].name /\ v = branches[id].rw /\ c = branches[id].cid
          /\ Is(id, n, v) /\ Mine(c, id)
    BY <1>1, RowRead
<1>3. PICK e : e = [q EXCEPT !.id = id, !.rw = v, !.cid = c, !.chain = ch, !.guarded = g, !.pc = x]
    BY Zenon
<1>4. proc' = [proc EXCEPT ![p] = e]
    BY <1>2, <1>3 DEF GoWith
<1>5. e \in Process
    <2>1. x \in Labels
        BY DEF Labels
    <2> QED
        BY <1>1, <1>3, <2>1, RowTaken, Zenon
<1>6. /\ e.pc = x /\ e.op = q.op /\ e.id = id /\ e.name = q.name /\ e.rw = v /\ e.cid = c
      /\ e.pid = q.pid /\ e.pname = q.pname /\ e.prw = q.prw /\ e.pcid = q.pcid
      /\ e.new = q.new /\ e.pnew = q.pnew /\ e.undo = q.undo
    BY <1>3 DEF Process
<1>7. /\ q.new = None /\ q.pnew = None /\ q.undo = << >> /\ Mine(q.pcid, q.pid)
      /\ q.op = "from" => Is(q.pid, q.pname, q.prw)
    BY DEF Sane, Located, Owning
<1>8. Sane(e)
    BY <1>1, <1>2, <1>5, <1>6, <1>7, HoldsRow
<1> QED
    BY <1>4, <1>5, <1>8, RemovingStep, Zenon DEF Fine, world, EngineInv

\* DestroyBranch.
LEMMA ReadDestroyFine == ASSUME EngineInv, NEW p \in Procs, ReadDestroy(p) PROVE Fine
<1>1. PICK q \in Process : q = proc[p] /\ Sane(q)
    BY Current
<1>2. q.pc = "destroy" /\ q.pc \in Fresh /\ UNCHANGED regVars /\ UNCHANGED world
    BY <1>1, Zenon DEF ReadDestroy, At, OnlyLocal, Fresh
<1>3. CASE End(p)
    BY <1>2, <1>3, QuietStep DEF Advances
<1>4. CASE ~End(p)
    <2>1. PICK id \in ByName(q.name), g \in BOOLEAN, x \in {"force", "todestroying", "note"} :
              GoWith(p, [q EXCEPT !.id = id, !.rw = branches[id].rw, !.cid = branches[id].cid,
                                  !.chain = LayerChain(id), !.guarded = g, !.pc = x])
        BY <1>1, <1>4, Zenon DEF ReadDestroy
    <2>2. x \in Working \ {"lostown", "lostmark"}
        BY DEF Working
    <2>3. LayerChain(id) \in Seq(LayerIds)
        BY ChainTyped DEF ByName, LiveRows
    <2> QED
        BY <1>1, <1>2, <2>1, <2>2, <2>3, TakeRowFine, Zenon
<1> QED
    BY <1>3, <1>4

\* gcLayers.
LEMMA CollectFine ==
    ASSUME EngineInv, NEW p \in Procs, GCCheck(p) \/ GCVol(p) \/ GCRow(p) PROVE Fine
<1>1. PICK q \in Process : q = proc[p] /\ Sane(q)
    BY Current
<1>2. CASE GCCheck(p) /\ Go(p, "gcvol") /\ q.chain # << >>
    <2>1. q.pc = "gc" /\ q.chain # << >> /\ UNCHANGED regVars /\ UNCHANGED world
        BY <1>1, <1>2 DEF GCCheck, At, OnlyLocal
    <2>2. PICK e : e = [q EXCEPT !.pc = "gcvol"]
        BY Zenon
    <2>3. proc' = [proc EXCEPT ![p] = e]
        BY <1>1, <1>2, <2>2 DEF Go, EngineInv
    <2>4. e \in Process
        BY <2>2 DEF Process, Labels, Collecting
    <2>5. /\ e.pc = "gcvol" /\ e.op = q.op /\ e.id = q.id /\ e.name = q.name /\ e.rw = q.rw
          /\ e.cid = q.cid /\ e.pid = q.pid /\ e.pname = q.pname /\ e.prw = q.prw
          /\ e.pcid = q.pcid /\ e.new = q.new /\ e.pnew = q.pnew /\ e.undo = q.undo
          /\ e.chain = q.chain
        BY <2>2 DEF Process
    <2>6. Located(e)
        BY <1>1, <2>1, <2>5 DEF Sane, Located, Fresh, Collecting, Freezing, ParentUp
    <2>7. Owning(e)
        BY <1>1, <2>5 DEF Sane, Owning, TargetId
    <2> QED
        BY <2>1, <2>3, <2>4, <2>6, <2>7, RemovingStep, ZenonT(30) DEF Fine, Sane, world, EngineInv
<1>3. CASE GCCheck(p) /\ End(p)
    BY <1>3, QuietStep DEF GCCheck, OnlyLocal, Advances
<1>4. CASE GCVol(p)
    <2>1. Advances(p)
        <3>1. MayGo("gcvol", "gcrow")
            BY DEF MayGo, Labels, Fresh, Collecting, Freezing, ParentUp
        <3> QED
            BY <1>4, <3>1 DEF GCVol, Advances, At
    <2>2. UNCHANGED regVars /\ ctrs' = ctrs /\ (vols' = vols \/ \E v : vols' = Removed(v))
        BY <1>4 DEF GCVol
    <2> QED
        BY <2>1, <2>2, RuntimeStep
<1>5. CASE GCRow(p) /\ End(p) /\ UNCHANGED regVars
    BY <1>5, QuietStep DEF GCRow, OnlyRegistry, Advances
<1>6. CASE GCRow(p) /\ ~(End(p) /\ UNCHANGED regVars)
    <2>1. q.pc = "gcrow" /\ UNCHANGED world /\ DeleteLayer(Head(q.chain))
        BY <1>1, <1>6 DEF GCRow, At, OnlyRegistry
    <2>2. q.chain \in Seq(LayerIds) /\ q.chain # << >>
        BY <1>1, <2>1 DEF Sane, Located, Process
    <2>3. PICK l \in LayerIds, ch \in Seq(LayerIds) : l = Head(q.chain) /\ ch = Tail(q.chain)
        <3>1. Head(q.chain) \in LayerIds
            BY <2>2
        <3>2. Tail(q.chain) \in Seq(LayerIds)
            BY <2>2
        <3> QED
            BY <3>1, <3>2, Zenon
    <2>4. RegistryNext /\ branches' = branches
        BY <2>1, <2>3, Zenon DEF RegistryNext, DeleteLayer
    <2>5. PICK e : e = [q EXCEPT !.pc = "gc", !.chain = ch]
        BY Zenon
    <2>6. proc' = [proc EXCEPT ![p] = e]
        BY <1>1, <1>6, <2>3, <2>5 DEF GCRow, GoWith
    <2>7. e \in Process
        <3>1. "gc" \in Labels
            BY DEF Labels, Collecting
        <3> QED
            BY <2>5, <3>1, ZenonT(60) DEF Process
    <2>8. /\ e.pc = "gc" /\ e.op = q.op /\ e.id = q.id /\ e.name = q.name /\ e.rw = q.rw
          /\ e.cid = q.cid /\ e.pid = q.pid /\ e.pname = q.pname /\ e.prw = q.prw
          /\ e.pcid = q.pcid /\ e.new = q.new /\ e.pnew = q.pnew /\ e.undo = q.undo
        BY <2>5 DEF Process
    <2>9. Sane(e)
        <3>1. Located(e)
            BY <1>1, <2>8 DEF Sane, Located, Fresh, Collecting, Freezing, ParentUp
        <3>2. Owning(e)
            BY <1>1, <2>8 DEF Sane, Owning, TargetId
        <3> QED
            BY <3>1, <3>2 DEF Sane
    <2>10. RowsStay /\ \A r : Exists(r)' <=> Exists(r)
        BY <2>4 DEF RowsStay, Exists
    <2>11. \A C : OwnersStay(C)
        BY <2>1, <2>10, OwnersStayRemoving DEF world
    <2>12. Sane(e)'
        BY <2>7, <2>9, <2>10, <2>11, SaneStays
    <2>13. Rows'
        <3>1. \A r, n, v : Is(r, n, v)' <=> Is(r, n, v)
            BY <2>4 DEF Is, Exists
        <3>2. \A c, r : Mine(c, r)' <=> Mine(c, r)
            BY <2>1, <2>4 DEF Mine, Exists, world
        <3> QED
            BY <2>4, <2>10, <3>1, <3>2 DEF EngineInv, Rows
    <2> QED
        BY <2>1, <2>4, <2>6, <2>7, <2>10, <2>12, <2>13, CallingStep, Zenon DEF Fine
<1> QED
    BY <1>1, <1>2, <1>3, <1>4, <1>5, <1>6 DEF GCCheck

-----------------------------------------------------------------------------
(* What a process takes up. *)

\* Such a step.
LEMMA BeginStep ==
    ASSUME EngineInv, NEW p \in Procs, NEW e \in Process, Sane(e), UNCHANGED regVars,
           UNCHANGED world, proc' = [proc EXCEPT ![p] = e]
    PROVE  Fine
BY RemovingStep, Zenon DEF Fine, world, EngineInv

\* The record of an operation that was given a name only.
LEMMA NamedSane ==
    ASSUME EngineInv, NEW op \in Operations, NEW x \in Fresh \ {"insert"}, NEW n \in Names,
           NEW e, e = [Idle EXCEPT !.op = op, !.pc = x, !.name = n], op # "from"
    PROVE  e \in Process /\ Sane(e)
<1>1. PICK q \in Process : q = Idle
    BY IdleSane, Zenon
<1>2. x \in Labels /\ n \in Names \cup {None}
    BY DEF Labels
<1>3. e \in Process
    BY <1>1, <1>2, ZenonT(60) DEF Process
<1>4. /\ e.pc = x /\ e.op = op /\ e.new = None /\ e.pnew = None /\ e.undo = << >>
      /\ e.cid = None /\ e.pcid = None /\ e.pid = None
    BY DEF Idle
<1> QED
    BY <1>3, <1>4, HoldsNothing, NobodysMine, Zenon

\* reap, retry_destroy, restart_branch.
LEMMA PlanByNameFine ==
    ASSUME EngineInv, NEW p \in Procs, PlanReap(p) \/ PlanRetry(p) \/ PlanLost(p) PROVE Fine
<1>1. PICK op \in {"reap", "retry", "lost"}, id \in RowIds :
          /\ Plan(p, op) /\ Planned(p, op, branches[id].name) /\ Exists(id)
    BY DEF PlanReap, PlanRetry, PlanLost, Expired, StuckDestroying, readyDrift, Exists
<1>2. PICK n \in Names : n = branches[id].name
    BY <1>1, RowRead
<1>3. PICK e : e = [Idle EXCEPT !.op = op, !.pc = op, !.name = n]
    BY Zenon
<1>4. proc' = [proc EXCEPT ![p] = e] /\ UNCHANGED regVars /\ UNCHANGED world
    BY <1>1, <1>2, <1>3 DEF Planned, GoWith, Plan
<1>5. op \in Operations /\ op \in Fresh \ {"insert"} /\ op # "from"
    BY DEF Operations, Fresh
<1> QED
    BY <1>3, <1>4, <1>5, NamedSane, BeginStep, Zenon

\* remove_orphan_container, gc_layer, gc_volume.
LEMMA PlanByIdFine ==
    ASSUME EngineInv, NEW p \in Procs, PlanOrphan(p) \/ PlanGCLayer(p) \/ PlanGCVolume(p)
    PROVE  Fine
<1>1. UNCHANGED regVars /\ UNCHANGED world
    BY Zenon DEF PlanOrphan, PlanGCLayer, PlanGCVolume, Plan
<1>2. PICK q \in Process : q = Idle
    BY IdleSane, Zenon
<1>3. {"orphan", "gc", "livevols"} \subseteq Labels /\ {"orphan", "gclayer", "gcvolume"} \subseteq Operations
    BY DEF Labels, Fresh, Collecting, Operations
<1>4. CASE PlanOrphan(p)
    <2>1. PICK k \in ctrs : GoWith(p, [Idle EXCEPT !.op = "orphan", !.pc = "orphan", !.cid = k.cid])
        BY <1>4, Zenon DEF PlanOrphan
    <2>2. PICK c \in Cids \cup {None} : c = k.cid
        BY DEF EngineInv, Contained, Container
    <2>3. PICK e : e = [Idle EXCEPT !.op = "orphan", !.pc = "orphan", !.cid = c]
        BY Zenon
    <2>4. e \in Process
        BY <1>2, <1>3, <2>3, ZenonT(60) DEF Process
    <2>5. /\ e.pc = "orphan" /\ e.op = "orphan" /\ e.new = None /\ e.pnew = None
          /\ e.undo = << >> /\ e.pcid = None /\ e.pid = None
        BY <2>3 DEF Idle
    <2>6. Sane(e)
        BY <2>4, <2>5, HoldsNothing, NobodysMine DEF Fresh
    <2> QED
        BY <1>1, <2>1, <2>2, <2>3, <2>4, <2>6, BeginStep, ZenonT(30) DEF GoWith
<1>5. CASE PlanGCLayer(p)
    <2>1. PICK l \in LayerIds : GoWith(p, [Idle EXCEPT !.op = "gclayer", !.pc = "gc", !.chain = <<l>>])
        BY <1>5, Zenon DEF PlanGCLayer, LiveLayers
    <2>2. PICK e : e = [Idle EXCEPT !.op = "gclayer", !.pc = "gc", !.chain = <<l>>]
        BY Zenon
    <2>3. e \in Process
        <3>1. <<l>> \in Seq(LayerIds)
            OBVIOUS
        <3> QED
            BY <1>2, <1>3, <2>2, <3>1, ZenonT(60) DEF Process
    <2>4. /\ e.pc = "gc" /\ e.op = "gclayer" /\ e.new = None /\ e.pnew = None
          /\ e.undo = << >> /\ e.pcid = None /\ e.pid = None /\ e.cid = None
        BY <2>2 DEF Idle
    <2>5. Sane(e)
        BY <2>3, <2>4, HoldsNothing, NobodysMine
    <2> QED
        BY <1>1, <2>1, <2>2, <2>3, <2>5, BeginStep, Zenon DEF GoWith
<1>6. CASE PlanGCVolume(p)
    <2>1. PICK v \in Vols : GoWith(p, [Idle EXCEPT !.op = "gcvolume", !.pc = "livevols", !.rw = v])
        BY <1>6, Zenon DEF PlanGCVolume
    <2>2. PICK e : e = [Idle EXCEPT !.op = "gcvolume", !.pc = "livevols", !.rw = v]
        BY Zenon
    <2>3. e \in Process
        <3>1. v \in Vols \cup {None}
            OBVIOUS
        <3> QED
            BY <1>2, <1>3, <2>2, <3>1, ZenonT(60) DEF Process
    <2>4. /\ e.pc = "livevols" /\ e.op = "gcvolume" /\ e.new = None /\ e.pnew = None
          /\ e.undo = << >> /\ e.pcid = None /\ e.pid = None /\ e.cid = None
        BY <2>2 DEF Idle
    <2>5. Sane(e)
        BY <2>3, <2>4, HoldsNothing, NobodysMine DEF Fresh
    <2> QED
        BY <1>1, <2>1, <2>2, <2>3, <2>5, BeginStep, Zenon DEF GoWith
<1> QED
    BY <1>4, <1>5, <1>6

\* fail_stuck.
LEMMA FailStuckFine == ASSUME EngineInv, NEW p \in Procs, FailStuck(p) PROVE Fine
<1>1. PICK id \in RowIds :
          /\ FailStuckBranch(id)
          /\ GoWith(p, [Idle EXCEPT !.op = "failstuck", !.pc = "reread", !.id = id,
                !.name = branches[id].name, !.rw = branches[id].rw,
                !.cid = branches[id].cid, !.guarded = TRUE])
    BY Zenon DEF FailStuck
<1>2. UNCHANGED world /\ Exists(id)
    BY <1>1 DEF FailStuck, OnlyRegistry, FailStuckBranch, Stuck, Exists
<1>3. PICK n \in Names, v \in Vols, c \in Cids \cup {None} :
          /\ n = branches[id].name /\ v = branches[id].rw /\ c = branches[id].cid
          /\ Is(id, n, v) /\ Mine(c, id)
    BY <1>2, RowRead
<1>4. PICK a : a = [Idle EXCEPT !.op = "failstuck", !.pc = "reread", !.id = id, !.name = n,
                                !.rw = v, !.cid = c]
    BY Zenon
<1>5. PICK e : e = [a EXCEPT !.guarded = TRUE]
    BY Zenon
<1>6. proc' = [proc EXCEPT ![p] = e]
    <2>1. e = [Idle EXCEPT !.op = "failstuck", !.pc = "reread", !.id = id, !.name = n,
                           !.rw = v, !.cid = c, !.guarded = TRUE]
        BY <1>4, <1>5 DEF Idle
    <2> QED
        BY <1>1, <1>3, <2>1 DEF GoWith
<1>7. e \in Process /\ Sane(e)
    <2>1. "failstuck" \in Operations /\ "reread" \in Working \ {"lostown", "lostmark"}
          /\ "reread" \in Labels
        BY DEF Operations, Working, Labels
    <2>2. /\ a \in Process /\ a.pc = "reread" /\ a.op = "failstuck" /\ a.id = id /\ a.name = n
          /\ a.rw = v /\ a.cid = c /\ a.new = None /\ a.pnew = None /\ a.undo = << >>
          /\ a.pcid = None /\ a.pid = None
        <3>1. PICK q \in Process : q = Idle
            BY IdleSane, Zenon
        <3>2. id \in RowIds \cup {None} /\ v \in Vols \cup {None} /\ n \in Names \cup {None}
            BY <1>1
        <3>3. a \in Process
            BY <1>4, <2>1, <3>1, <3>2, ZenonT(60) DEF Process
        <3> QED
            BY <1>3, <1>4, <3>3 DEF Idle
    <2>3. e \in Process
        BY <1>5, <2>2, ZenonT(60) DEF Process
    <2>4. /\ e.pc = "reread" /\ e.op = "failstuck" /\ e.id = id /\ e.name = n
          /\ e.rw = v /\ e.cid = c /\ e.new = None /\ e.pnew = None /\ e.undo = << >>
          /\ e.pcid = None /\ e.pid = None
        BY <1>5, <2>2 DEF Process
    <2> QED
        BY <1>3, <2>1, <2>3, <2>4, HoldsRow, NobodysMine, Zenon
<1>8. KeepsRows(id, None) /\ RegistryNext
    BY <1>1, MethodsKeep DEF EngineInv, LayersInv
<1> QED
    BY <1>2, <1>6, <1>7, <1>8, NobodysMine, KeepingStep, ZenonT(30) DEF Fine

\* ResetBranch and RecoverBranch.
LEMMA ReadForRestartFine ==
    ASSUME EngineInv, NEW p \in Procs, NEW m \in Names, NEW op \in {"reset", "recover"},
           ReadForRestart(p, m, op)
    PROVE  Fine
<1>1. PICK id \in ByName(m) :
          GoWith(p, [Idle EXCEPT !.op = op, !.pc = "reset", !.id = id, !.name = m,
              !.rw = branches[id].rw, !.cid = branches[id].cid,
              !.chain = IF op = "recover" THEN LayerChain(id) ELSE << >>])
    BY Zenon DEF ReadForRestart
<1>2. id \in RowIds /\ Exists(id) /\ branches[id].name = m
    BY DEF ByName, Live, Exists
<1>3. PICK n \in Names, v \in Vols, c \in Cids \cup {None} :
          /\ n = branches[id].name /\ v = branches[id].rw /\ c = branches[id].cid
          /\ Is(id, n, v) /\ Mine(c, id)
    BY <1>2, RowRead
<1>4. PICK ch : ch = IF op = "recover" THEN LayerChain(id) ELSE << >>
    BY Zenon
<1>5. PICK a : a = [Idle EXCEPT !.op = op, !.pc = "reset", !.id = id, !.name = m,
                                !.rw = v, !.cid = c]
    BY Zenon
<1>6. PICK e : e = [a EXCEPT !.chain = ch]
    BY Zenon
<1>7. proc' = [proc EXCEPT ![p] = e]
    <2>1. e = [Idle EXCEPT !.op = op, !.pc = "reset", !.id = id, !.name = m,
                           !.rw = v, !.cid = c, !.chain = ch]
        BY <1>5, <1>6 DEF Idle
    <2> QED
        BY <1>1, <1>3, <1>4, <2>1 DEF GoWith
<1>8. e \in Process /\ Sane(e)
    <2>1. op \in Operations /\ op # "from" /\ "reset" \in Working \ {"lostown", "lostmark"}
          /\ "reset" \in Labels
        BY DEF Operations, Working, Labels
    <2>2. /\ a \in Process /\ a.pc = "reset" /\ a.op = op /\ a.id = id /\ a.name = m
          /\ a.rw = v /\ a.cid = c /\ a.new = None /\ a.pnew = None /\ a.undo = << >>
          /\ a.pcid = None /\ a.pid = None
        <3>1. PICK q \in Process : q = Idle
            BY IdleSane, Zenon
        <3>2. id \in RowIds \cup {None} /\ v \in Vols \cup {None} /\ m \in Names \cup {None}
            BY <1>2
        <3>3. a \in Process
            BY <1>5, <2>1, <3>1, <3>2, ZenonT(60) DEF Process
        <3> QED
            BY <1>5, <3>3 DEF Idle
    <2>3. ch \in Seq(LayerIds)
        <3>1. LayerChain(id) \in Seq(LayerIds) /\ << >> \in Seq(LayerIds)
            BY <1>2, ChainTyped
        <3> QED
            BY <1>4, <3>1, Zenon
    <2>4. e \in Process
        BY <1>6, <2>2, <2>3, ZenonT(60) DEF Process
    <2>5. /\ e.pc = "reset" /\ e.op = op /\ e.id = id /\ e.name = m
          /\ e.rw = v /\ e.cid = c /\ e.new = None /\ e.pnew = None /\ e.undo = << >>
          /\ e.pcid = None /\ e.pid = None
        BY <1>6, <2>2 DEF Process
    <2> QED
        BY <1>2, <1>3, <2>1, <2>4, <2>5, HoldsRow, NobodysMine, ZenonT(30)
<1>9. UNCHANGED regVars /\ UNCHANGED world
    BY DEF ReadForRestart, Begin
<1> QED
    BY <1>7, <1>8, <1>9, BeginStep, Zenon

\* CreateBranch, and CreateBranchFromBranch: the layer name is fixed before the row.
LEMMA CreatingFine ==
    ASSUME EngineInv, NEW p \in Procs, NEW n \in Names, UNCHANGED regVars, UNCHANGED world,
           NEW v \in Vols, v[1] = n, NEW op \in {"create", "from"}, NEW ttl \in {"never", "later"},
           NEW e \in Process, proc' = [proc EXCEPT ![p] = e],
           e.op = op, e.pc = "insert", e.name = n, e.rw = v, e.cid = None, e.new = None,
           e.pnew = None, e.undo = << >>,
           op = "from" => Is(e.pid, e.pname, e.prw), Mine(e.pcid, e.pid)
    PROVE  Fine
<1>1. Located(e)
    BY DEF Located, Fresh, Collecting, Freezing, ParentUp
<1>2. Owning(e)
    BY NobodysMine DEF Owning
<1> QED
    BY <1>1, <1>2, BeginStep, ZenonT(30) DEF Sane

\* A create or an import is called ...
LEMMA StartCreateFine ==
    ASSUME EngineInv, NEW p \in Procs, NEW n \in Names, NEW ttl \in {"never", "later"},
           StartCreate(p, n, ttl)
    PROVE  Fine
<1>1. UNCHANGED regVars /\ UNCHANGED world
    BY DEF StartCreate, Begin
<1>2. PICK v \in Vols : v = FreshLayer(n, 1) /\ v[1] = n
    BY FreshLayerNamed DEF StartCreate
<1>3. PICK e : e = [Idle EXCEPT !.op = "create", !.pc = "insert", !.name = n, !.rw = v, !.ttl = ttl]
    BY Zenon
<1>4. proc' = [proc EXCEPT ![p] = e]
    BY <1>2, <1>3 DEF StartCreate, GoWith
<1>5. e \in Process
    <2>1. PICK q \in Process : q = Idle
        BY IdleSane, Zenon
    <2>2. "create" \in Operations /\ "insert" \in Labels
        BY DEF Operations, Labels, Fresh
    <2>3. n \in Names \cup {None} /\ v \in Vols \cup {None}
        OBVIOUS
    <2> QED
        BY <1>3, <2>1, <2>2, <2>3, ZenonT(60) DEF Process
<1>6. /\ e.op = "create" /\ e.pc = "insert" /\ e.name = n /\ e.rw = v /\ e.cid = None
      /\ e.new = None /\ e.pnew = None /\ e.undo = << >> /\ e.pcid = None
    BY <1>3, SMTT(30) DEF Idle
<1> QED
    BY <1>1, <1>2, <1>4, <1>5, <1>6, CreatingFine, NobodysMine, Zenon

\* ... or a create from a branch.
LEMMA StartFromFine ==
    ASSUME EngineInv, NEW p \in Procs, NEW n \in Names, NEW pn \in Names, StartFrom(p, n, pn)
    PROVE  Fine
<1>1. UNCHANGED regVars /\ UNCHANGED world
    BY DEF StartFrom, Begin
<1>2. PICK v \in Vols : v = FreshLayer(n, 1) /\ v[1] = n
    BY FreshLayerNamed DEF StartFrom
<1>3. PICK pid \in ByName(pn) :
          GoWith(p, [Idle EXCEPT !.op = "from", !.pc = "insert", !.name = n,
              !.rw = FreshLayer(n, 1), !.pid = pid, !.pname = pn,
              !.prw = branches[pid].rw, !.pcid = branches[pid].cid])
    BY Zenon DEF StartFrom
<1>4. pid \in RowIds /\ Exists(pid) /\ branches[pid].name = pn
    BY DEF ByName, Live, Exists
<1>5. PICK pv \in Vols, c \in Cids \cup {None} :
          pv = branches[pid].rw /\ c = branches[pid].cid /\ Is(pid, pn, pv) /\ Mine(c, pid)
    BY <1>4, RowRead
<1>6. PICK a : a = [Idle EXCEPT !.op = "from", !.pc = "insert", !.name = n, !.rw = v]
    BY Zenon
<1>7. a \in Process
    <2>1. PICK q \in Process : q = Idle
        BY IdleSane, Zenon
    <2>2. "from" \in Operations /\ "insert" \in Labels
        BY DEF Operations, Labels, Fresh
    <2>3. n \in Names \cup {None} /\ v \in Vols \cup {None}
        OBVIOUS
    <2> QED
        BY <1>6, <2>1, <2>2, <2>3, ZenonT(60) DEF Process
<1>8. PICK e : e = [a EXCEPT !.pid = pid, !.pname = pn, !.prw = pv, !.pcid = c]
    BY Zenon
<1>9. e \in Process
    <2>1. pid \in RowIds \cup {None} /\ pn \in Names \cup {None} /\ pv \in Vols \cup {None}
        BY <1>4
    <2> QED
        BY <1>7, <1>8, <2>1, ZenonT(60) DEF Process
<1>10. proc' = [proc EXCEPT ![p] = e]
    <2>1. e = [Idle EXCEPT !.op = "from", !.pc = "insert", !.name = n, !.rw = v, !.pid = pid,
                           !.pname = pn, !.prw = pv, !.pcid = c]
        BY <1>6, <1>8 DEF Idle
    <2> QED
        BY <1>2, <1>3, <1>5, <2>1 DEF GoWith
<1>11. /\ e.op = "from" /\ e.pc = "insert" /\ e.name = n /\ e.rw = v /\ e.cid = None
       /\ e.new = None /\ e.pnew = None /\ e.undo = << >> /\ e.pcid = c /\ e.pid = pid
       /\ e.pname = pn /\ e.prw = pv
    BY <1>6, <1>8 DEF Idle
<1> QED
    BY <1>1, <1>2, <1>5, <1>9, <1>10, <1>11, CreatingFine, ZenonT(30)

\* Every API call.
LEMMA RequestFine == ASSUME EngineInv, NEW p \in Procs, Request(p) PROVE Fine
<1>1. PICK n \in Names :
        \/ \E ttl \in {"never", "later"} : StartCreate(p, n, ttl)
        \/ \E pn \in Names : StartFrom(p, n, pn)
        \/ ReadForRestart(p, n, "reset") \/ ReadForRestart(p, n, "recover")
        \/ /\ Begin(p, "destroy")
           /\ GoWith(p, [Idle EXCEPT !.op = "destroy", !.pc = "destroy", !.name = n])
    BY Zenon DEF Request
<1>2. CASE /\ Begin(p, "destroy")
           /\ GoWith(p, [Idle EXCEPT !.op = "destroy", !.pc = "destroy", !.name = n])
    <2>1. PICK e : e = [Idle EXCEPT !.op = "destroy", !.pc = "destroy", !.name = n]
        BY Zenon
    <2>2. "destroy" \in Operations /\ "destroy" \in Fresh \ {"insert"} /\ "destroy" # "from"
        BY DEF Operations, Fresh
    <2>3. e \in Process /\ Sane(e)
        BY <2>1, <2>2, NamedSane, Zenon
    <2> QED
        BY <1>2, <2>1, <2>3, BeginStep, Zenon DEF Begin, GoWith
<1> QED
    BY <1>1, <1>2, StartCreateFine, StartFromFine, ReadForRestartFine

-----------------------------------------------------------------------------
(* Reconcile applies what it planned. *)

\* Re-checks that pass or give up, and the removal of an unowned container or volume.
LEMMA RecheckFine ==
    ASSUME EngineInv, NEW p \in Procs,
           \/ ApplyReap(p) \/ ApplyRetry(p) \/ RmOrphan(p) \/ CheckLiveRows(p)
           \/ CheckLiveLayers(p) \/ RmOrphanVolume(p)
    PROVE  Fine
<1>1. Advances(p)
    <2>1. \/ End(p)
          \/ proc[p].pc \in Fresh /\ \E x \in {"destroy", "livelayers", "rmorphan"} : Go(p, x)
        BY DEF ApplyReap, ApplyRetry, RmOrphan, CheckLiveRows, CheckLiveLayers, RmOrphanVolume,
               At, Fresh
    <2>2. ASSUME NEW y \in Fresh, NEW x \in {"destroy", "livelayers", "rmorphan"} PROVE MayGo(y, x)
        BY DEF MayGo, Labels, Fresh, Collecting, Freezing, ParentUp
    <2> QED
        BY <2>1, <2>2 DEF Advances
<1>2. UNCHANGED regVars /\ ctrs' \subseteq ctrs /\ (vols' = vols \/ \E v : vols' = Removed(v))
    BY DEF ApplyReap, ApplyRetry, RmOrphan, CheckLiveRows, CheckLiveLayers, RmOrphanVolume,
           OnlyLocal, world
<1> QED
    BY <1>1, <1>2, RuntimeStep

\* The rows are read before the container is inspected.
LEMMA CheckOrphanFine == ASSUME EngineInv, NEW p \in Procs, CheckOrphan(p) PROVE Fine
<1>1. PICK q \in Process : q = proc[p] /\ Sane(q)
    BY Current
<1>2. UNCHANGED regVars /\ UNCHANGED world /\ q.pc = "orphan"
    BY <1>1 DEF CheckOrphan, OnlyLocal, At
<1>3. CASE End(p)
    BY <1>2, <1>3, QuietStep DEF Advances
<1>4. CASE ~End(p)
    <2>1. PICK m \in SUBSET RowIds : m = MayOwn
        BY Zenon DEF MayOwn
    <2>2. PICK e : e = [q EXCEPT !.pc = "inspect", !.seen = m]
        BY Zenon
    <2>3. proc' = [proc EXCEPT ![p] = e]
        BY <1>1, <1>4, <2>1, <2>2 DEF CheckOrphan, GoWith
    <2>4. e \in Process
        <3>1. "inspect" \in Labels
            BY DEF Labels, Fresh
        <3> QED
            BY <2>2, <3>1, ZenonT(60) DEF Process
    <2>5. /\ e.pc = "inspect" /\ e.op = q.op /\ e.new = q.new /\ e.pnew = q.pnew /\ e.undo = q.undo
          /\ e.pcid = q.pcid /\ e.pid = q.pid /\ e.pname = q.pname /\ e.prw = q.prw /\ e.cid = q.cid
        BY <2>2 DEF Process
    <2>6. /\ q.new = None /\ q.pnew = None /\ q.undo = << >> /\ Mine(q.pcid, q.pid)
          /\ (q.op = "from" => Is(q.pid, q.pname, q.prw)) /\ (q.op = "orphan" \/ q.cid = None)
        BY <1>1, <1>2 DEF Sane, Located, Owning, Fresh
    <2>7. Sane(e)
        <3>1. e.pc \in (Fresh \ {"insert"}) \cup {"gc"}
            BY <2>5 DEF Fresh
        <3> QED
            BY <2>4, <2>5, <2>6, <3>1, HoldsNothing
    <2> QED
        BY <1>2, <2>3, <2>4, <2>7, BeginStep, ZenonT(30)
<1> QED
    BY <1>3, <1>4

\* fail_stuck re-reads the container column.
LEMMA RereadFine == ASSUME EngineInv, NEW p \in Procs, Reread(p) PROVE Fine
<1>1. PICK q \in Process : q = proc[p] /\ Sane(q)
    BY Current
<1>2. UNCHANGED regVars /\ UNCHANGED world /\ q.pc = "reread" /\ q.pc \in Working
    BY <1>1, Zenon DEF Reread, OnlyLocal, At, Working
<1>3. q.id \in RowIds /\ Exists(q.id)
    BY <1>1, <1>2, WorkRead DEF Is
<1>4. PICK c \in Cids \cup {None} :
          /\ c = IF q.id \in ByName(q.name) THEN branches[q.id].cid ELSE q.cid
          /\ q.op # "orphan" => Mine(c, q.id)
    <2>1. PICK d \in Cids \cup {None} : d = branches[q.id].cid /\ Mine(d, q.id)
        BY <1>3, RowRead
    <2>2. q.cid \in Cids \cup {None} /\ (q.op # "orphan" => Mine(q.cid, q.id))
        BY <1>1 DEF Process, Sane, Owning
    <2> QED
        BY <2>1, <2>2
<1>5. PICK e : e = [q EXCEPT !.pc = "halt", !.cid = c]
    BY Zenon
<1>6. proc' = [proc EXCEPT ![p] = e]
    BY <1>1, <1>4, <1>5 DEF Reread, GoWith
<1>7. e \in Process
    <2>1. "halt" \in Labels
        BY DEF Labels, Working
    <2> QED
        BY <1>5, <2>1, ZenonT(60) DEF Process
<1>8. /\ e.pc = "halt" /\ e.op = q.op /\ e.id = q.id /\ e.name = q.name /\ e.rw = q.rw
      /\ e.cid = c /\ e.pid = q.pid /\ e.pname = q.pname /\ e.prw = q.prw
      /\ e.pcid = q.pcid /\ e.new = q.new /\ e.pnew = q.pnew /\ e.undo = q.undo
    BY <1>5 DEF Process
<1>9. Located(e)
    BY <1>1, <1>2, <1>8 DEF Sane, Located, Fresh, Collecting, Freezing, ParentUp
<1>10. Owning(e)
    BY <1>1, <1>4, <1>8, ZenonT(30) DEF Sane, Owning, TargetId
<1> QED
    BY <1>2, <1>6, <1>7, <1>9, <1>10, BeginStep, ZenonT(30) DEF Sane

\* restart_branch reads the row again.
LEMMA ApplyLostFine == ASSUME EngineInv, NEW p \in Procs, ApplyLost(p) PROVE Fine
<1>1. PICK q \in Process : q = proc[p] /\ Sane(q)
    BY Current
<1>2. UNCHANGED regVars /\ UNCHANGED world /\ q.pc = "lost" /\ q.pc \in Fresh
    BY <1>1, Zenon DEF ApplyLost, OnlyLocal, At, Fresh
<1>3. CASE End(p)
    BY <1>2, <1>3, QuietStep DEF Advances
<1>4. CASE ~End(p)
    <2>1. PICK id \in ByName(q.name) :
              GoWith(p, [q EXCEPT !.pc = "halt", !.id = id, !.rw = branches[id].rw,
                                  !.cid = branches[id].cid])
        BY <1>1, <1>4, Zenon DEF ApplyLost
    <2>2. id \in RowIds /\ Exists(id) /\ branches[id].name = q.name
        BY DEF ByName, Live, Exists
    <2>3. PICK v \in Vols, c \in Cids \cup {None} :
              /\ v = branches[id].rw /\ c = branches[id].cid
              /\ Is(id, q.name, v) /\ Mine(c, id)
        BY <2>2, RowRead
    <2>4. PICK e : e = [q EXCEPT !.pc = "halt", !.id = id, !.rw = v, !.cid = c]
        BY Zenon
    <2>5. proc' = [proc EXCEPT ![p] = e]
        BY <2>1, <2>3, <2>4 DEF GoWith
    <2>6. "halt" \in Labels /\ "halt" \in Working \ {"lostown", "lostmark"}
        BY DEF Labels, Working
    <2>7. e \in Process
        <3>1. id \in RowIds \cup {None} /\ v \in Vols \cup {None}
            BY <2>2
        <3> QED
            BY <2>4, <2>6, <3>1, ZenonT(30) DEF Process
    <2>8. /\ e.pc = "halt" /\ e.op = q.op /\ e.id = id /\ e.name = q.name /\ e.rw = v
          /\ e.cid = c /\ e.pid = q.pid /\ e.pname = q.pname /\ e.prw = q.prw
          /\ e.pcid = q.pcid /\ e.new = q.new /\ e.pnew = q.pnew /\ e.undo = q.undo
        BY <2>4 DEF Process
    <2>9. /\ q.new = None /\ q.pnew = None /\ q.undo = << >> /\ Mine(q.pcid, q.pid)
          /\ q.op = "from" => Is(q.pid, q.pname, q.prw)
        BY <1>1, <1>2, ZenonT(30) DEF Sane, Located, Owning
    <2>10. Sane(e)
        BY <2>3, <2>6, <2>7, <2>8, <2>9, HoldsRow
    <2> QED
        BY <1>2, <2>5, <2>7, <2>10, BeginStep, ZenonT(30)
<1> QED
    BY <1>3, <1>4

\* Its container starts on the row's own volumes.
LEMMA LostStartFine == ASSUME EngineInv, NEW p \in Procs, LostStart(p) PROVE Fine
<1>1. PICK q \in Process : q = proc[p] /\ Sane(q) /\ CidsOf(q) \subseteq KnownCids
    BY Current, Zenon
<1>2. UNCHANGED regVars /\ q.pc = "lostart" /\ q.pc \in Working
    BY <1>1 DEF LostStart, At, Working
<1>3. /\ q.pc \in Labels \ (Fresh \cup Collecting) /\ Is(q.id, q.name, q.rw)
      /\ q.id \in RowIds /\ q.name \in Names
    BY <1>1, <1>2, WorkRead
<1>4. CASE ~ChainOK(q.id)
    BY <1>1, <1>2, <1>4, QuietStep DEF LostStart, Advances
<1>5. CASE ChainOK(q.id)
    <2>1. PICK L \in SUBSET (Vols \cup {None}) : L = VolsOf(LayerChain(q.id))
        BY <1>3, ChainTyped, VolsOfTyped
    <2>2. PICK id, n, rw : id = q.id /\ n = q.name /\ rw = q.rw
        BY Zenon
    <2>3. PICK c : c = NewCid(n)
        BY Zenon
    <2>4. PICK next : next = [q EXCEPT !.pc = "lostown", !.new = c]
        BY Zenon
    <2>5. PICK failed : failed = Idle
        BY Zenon
    <2>6. StartOn(p, n, id, rw, L, FALSE, next, failed)
        BY <1>1, <1>5, <2>1, <2>2, <2>3, <2>4, <2>5, ZenonT(30) DEF LostStart
    <2>7. failed \in Process /\ Sane(failed) /\ CidsOf(failed) \subseteq KnownCids \cup {None}
        <3>1. CidsOf(Idle) \subseteq {None}
            BY DEF CidsOf, Idle
        <3> QED
            BY <2>5, <3>1, IdleSane
    <2>8. ASSUME c \in Cids, OwnersStay(KnownCids \cup {None}), Mine(c, id)'
          PROVE  next \in Process /\ Sane(next)'
        <3>1. next \in Process
            <4>1. "lostown" \in Labels /\ c \in Cids \cup {None}
                BY <2>8 DEF Labels, Working
            <4> QED
                BY <2>4, <4>1, ZenonT(60) DEF Process
        <3>2. /\ next.pc = "lostown" /\ next.op = q.op /\ next.id = q.id /\ next.name = q.name
              /\ next.rw = q.rw /\ next.cid = q.cid /\ next.pid = q.pid /\ next.pname = q.pname
              /\ next.prw = q.prw /\ next.pcid = q.pcid /\ next.newrw = q.newrw /\ next.new = c
              /\ next.pnew = q.pnew /\ next.undo = q.undo
            BY <2>4 DEF Process
        <3>3. Sane(q)'
            <4>1. RowsStay
                BY <1>2 DEF RowsStay, Exists, regVars
            <4> QED
                BY <1>1, <2>8, <4>1, SaneStays
        <3>4. Located(next)'
            BY <1>3, <2>8, <3>2, <3>3, ZenonT(30) DEF Sane, Located, Fresh, Collecting, Freezing, ParentUp
        <3>5. Owning(next)'
            BY <2>2, <2>8, <3>2, <3>3, Zenon DEF Sane, Owning, TargetId
        <3> QED
            BY <3>1, <3>4, <3>5 DEF Sane
    <2> QED
        BY <1>1, <1>2, <1>3, <2>1, <2>2, <2>3, <2>6, <2>7, <2>8, StartingStep, ZenonT(30) DEF Fine
<1> QED
    BY <1>4, <1>5

\* It is recorded if the row is still ready on the old one; otherwise it goes, or the
\* row fails.
LEMMA LostFine ==
    ASSUME EngineInv, NEW p \in Procs,
           Stray(p) \/ LostOwn(p) \/ LostMark(p) \/ LostDrop(p) \/ FailReady(p)
    PROVE  Fine
<1>1. PICK q \in Process : q = proc[p] /\ Sane(q)
    BY Current
<1>2. q.pc \in {"stray", "lostown", "lostmark", "lostdrop", "lostfail", "failready"}
    BY <1>1, Zenon DEF Stray, LostOwn, LostMark, LostDrop, FailReady, At
<1>3. q.pc \in Labels \ (Fresh \cup Collecting) /\ q.id \in RowIds
    BY <1>1, <1>2, WorkRead DEF Working, Is
<1>4. Advances(p)
    <2>1. \/ End(p) \/ \E x \in {"lostart", "lostdrop", "lostfail", "failready"} : Go(p, x)
          \/ q.pc = "lostown" /\ Go(p, "lostmark")
        BY <1>1, Zenon DEF Stray, LostOwn, LostMark, LostDrop, FailReady, At
    <2>2. {"lostart", "lostdrop", "lostfail", "failready"} \subseteq Working \ {"lostown", "lostmark"}
        BY DEF Working
    <2>3. MayGo("lostown", "lostmark")
        BY DEF MayGo, Labels, Fresh, Collecting, Freezing, ParentUp, Working
    <2>4. CASE q.pc = "lostown" /\ Go(p, "lostmark")
        BY <1>1, <2>3, <2>4 DEF Advances
    <2> QED
        BY <1>1, <1>3, <2>1, <2>2, <2>4, WorkMoves
<1>5. CASE UNCHANGED regVars /\ UNCHANGED vols /\ ctrs' \subseteq ctrs
    BY <1>4, <1>5, RuntimeStep
<1>6. CASE /\ UpdateBranchEndpoint(q.id, q.cid, q.new) \/ UpdateBranchEndpointCtx(q.id, q.new, q.new)
           /\ q.pc \in {"lostown", "lostmark"} /\ UNCHANGED world
    <2>1. q.new \in Cids /\ q.cid \in Cids \cup {None} /\ Mine(q.new, q.id)
        BY <1>1, <1>6, Zenon DEF Sane, Located, Owning, Process
    <2>2. KeepsRows(q.id, q.new) /\ RegistryNext
        BY <1>3, <1>6, <2>1, MethodsRecord DEF EngineInv, LayersInv
    <2> QED
        BY <1>3, <1>4, <1>6, <2>1, <2>2, QuietStep
<1>7. CASE FailReadyBranch(q.id, q.new) /\ UNCHANGED world
    <2>1. q.new \in Cids \cup {None}
        BY DEF Process
    <2>2. KeepsRows(q.id, None) /\ RegistryNext
        BY <1>3, <1>7, <2>1, MethodsKeep DEF EngineInv, LayersInv
    <2> QED
        BY <1>3, <1>4, <1>7, <2>2, NobodysMine, QuietStep
<1>8. CASE Stray(p)
    BY <1>5, <1>8 DEF Stray
<1>9. CASE LostOwn(p)
    BY <1>1, <1>5, <1>6, <1>9, Zenon DEF LostOwn, OnlyRegistry, At, world
<1>10. CASE LostMark(p)
    BY <1>1, <1>5, <1>6, <1>10, Zenon DEF LostMark, BestEffort, At, world
<1>11. CASE LostDrop(p)
    BY <1>5, <1>11, Zenon DEF LostDrop, Stopped
<1>12. CASE FailReady(p)
    BY <1>1, <1>5, <1>7, <1>12, Zenon DEF FailReady, OnlyRegistry, BestEffort, world
<1> QED
    BY <1>8, <1>9, <1>10, <1>11, <1>12

-----------------------------------------------------------------------------
(* The environment. *)

\* A container is lost or stops: nobody's record of it becomes false.
LEMMA LoseContainerFine == ASSUME EngineInv, NEW k \in ctrs, LoseContainer(k) PROVE Fine
<1>1. UNCHANGED regVars /\ vols' = vols /\ proc' = proc
    BY DEF LoseContainer
<1>2. PICK d : d = [k EXCEPT !.up = FALSE]
    BY Zenon
<1>3. k \in Container
    BY DEF EngineInv, Contained
<1>4. /\ d \in Container /\ d.cid = k.cid /\ d.name = k.name /\ d.row = k.row /\ d.rw = k.rw
    BY <1>2, <1>3, Zenon DEF Container
<1>5. ctrs' \subseteq (ctrs \ {k}) \cup {d}
    BY <1>2 DEF LoseContainer
<1>6. \A j \in ctrs' : j \in ctrs \ {k} \/ j = d
    BY <1>5
<1>7. \A r, n, v : Is(r, n, v)' <=> Is(r, n, v)
    BY <1>1 DEF Is, Exists, regVars
<1>8. \A c, r : Mine(c, r) => Mine(c, r)'
    BY <1>1, <1>4, <1>6 DEF Mine, Exists, regVars
<1>9. RowsStay
    BY <1>1 DEF RowsStay, Exists, regVars
<1>10. LayersInv'
    BY <1>1, RankedInductive, TypeInductive, ForeignKeyInductive DEF LayersInv, EngineInv
<1>11. Contained'
    <2>1. ctrs' \subseteq Container
        BY <1>4, <1>6 DEF EngineInv, Contained
    <2>2. \A j \in ctrs' : Is(j.row, j.name, j.rw)' /\ (~Docker => j.cid = j.name)
        BY <1>4, <1>6, <1>7 DEF EngineInv, Contained
    <2>3. \A i, j \in ctrs' : i.name = j.name \/ i.cid = j.cid => i = j
        BY <1>4, <1>6 DEF EngineInv, Contained
    <2> QED
        BY <2>1, <2>2, <2>3 DEF Contained
<1>12. Rows'
    <2> SUFFICES ASSUME NEW id \in RowIds, NEW n, NEW v, NEW c,
                        branches'[id].name = n, branches'[id].rw = v, branches'[id].cid = c
                 PROVE  (Exists(id)' => n \in Names /\ Is(id, n, v)') /\ Mine(c, id)'
        BY DEF Rows
    <2>1. (Exists(id)' => n \in Names /\ Is(id, n, v)) /\ Mine(c, id)
        BY <1>1 DEF EngineInv, Rows, regVars, Exists
    <2> QED
        BY <1>7, <1>8, <2>1
<1>13. ASSUME NEW o \in Procs, NEW q \in Process, proc'[o] = q PROVE Sane(q)'
    <2>1. Sane(q)
        BY <1>1, <1>13 DEF EngineInv
    <2>2. OwnersStay(CidsOf(q))
        BY <1>8 DEF OwnersStay
    <2> QED
        BY <1>9, <2>1, <2>2, SaneStays
<1> QED
    BY <1>1, <1>10, <1>11, <1>12, <1>13 DEF Fine, EngineInv

\* Time passes for a row; nothing at all happens.
LEMMA TimeFine ==
    ASSUME EngineInv, UNCHANGED engineVars \/ \E id \in RowIds : AgeRow(id) \/ ExpireRow(id)
    PROVE  Fine
<1>1. UNCHANGED world /\ proc' = proc
    BY DEF AgeRow, ExpireRow, engineVars, world
<1>2. /\ [RegistryNext]_regVars
      /\ \A r \in RowIds : /\ Exists(r)' <=> Exists(r)
                           /\ branches'[r].name = branches[r].name
                           /\ branches'[r].rw = branches[r].rw /\ branches'[r].cid = branches[r].cid
    <2>1. CASE UNCHANGED engineVars
        BY <2>1 DEF engineVars, regVars, Exists
    <2>2. ASSUME NEW id \in RowIds, AgeRow(id) \/ ExpireRow(id)
          PROVE  /\ RegistryNext
                 /\ KeepsRows(id, None)
        BY <2>2, MethodsKeep DEF AgeRow, ExpireRow, EngineInv, LayersInv
    <2>3. ASSUME NEW id \in RowIds, AgeRow(id) \/ ExpireRow(id)
          PROVE  \A r \in RowIds : branches'[r].cid = branches[r].cid
        <3>1. RegistryTypeOK
            BY DEF EngineInv, LayersInv
        <3>2. Age(id) \/ Expire(id)
            BY <2>3 DEF AgeRow, ExpireRow
        <3>3. branches'[id].cid = branches[id].cid
            BY <3>1, <3>2 DEF Age, Expire, RegistryTypeOK, Row
        <3>4. \A r \in RowIds \ {id} : branches'[r] = branches[r]
            BY <3>1, <3>2 DEF Age, Expire, RegistryTypeOK
        <3> QED
            BY <3>3, <3>4
    <2> QED
        BY <2>1, <2>2, <2>3 DEF KeepsRows
<1>3. LayersInv'
    BY <1>2, RankedInductive, TypeInductive, ForeignKeyInductive DEF LayersInv, EngineInv
<1>4. \A r, n, v : Is(r, n, v)' <=> Is(r, n, v)
    BY <1>2 DEF Is
<1>5. \A c, r : Mine(c, r)' <=> Mine(c, r)
    BY <1>1, <1>2 DEF Mine, world
<1>6. Contained'
    BY <1>1, <1>4 DEF Contained, EngineInv, world
<1>7. Rows'
    <2> SUFFICES ASSUME NEW id \in RowIds, NEW n, NEW v, NEW c,
                        branches'[id].name = n, branches'[id].rw = v, branches'[id].cid = c
                 PROVE  (Exists(id)' => n \in Names /\ Is(id, n, v)') /\ Mine(c, id)'
        BY DEF Rows
    <2>1. (Exists(id)' => n \in Names /\ Is(id, n, v)) /\ Mine(c, id)
        BY <1>2 DEF EngineInv, Rows
    <2> QED
        BY <1>4, <1>5, <2>1
<1>8. ASSUME NEW o \in Procs, NEW q \in Process, proc'[o] = q PROVE Sane(q)'
    <2>1. Sane(q)
        BY <1>1, <1>8 DEF EngineInv
    <2>2. OwnersStay(CidsOf(q)) /\ RowsStay
        BY <1>2, <1>5 DEF OwnersStay, RowsStay
    <2> QED
        BY <2>1, <2>2, SaneStays
<1> QED
    BY <1>1, <1>2, <1>3, <1>6, <1>7, <1>8 DEF Fine, EngineInv, world

-----------------------------------------------------------------------------
(* The engine. *)

\* Every step of a process.
LEMMA StepFine == ASSUME EngineInv, NEW p \in Procs, Step(p) PROVE Fine
<1>1. Provision(p) => Fine
    BY InsertRowFine, MkVolFine, StartFine, OwnFine, UndoStepFine, MarkFailedFine DEF Provision
<1>2. FreezeSaga(p) => Fine
    BY FreezePlanFine, FreezeFine, StopParentFine, ClaimFine, MkFreezeVolFine, StartParentFine,
       FreezeOwnFine, StartChildFine, CommitFine, RestartFine, RestartedFine DEF FreezeSaga
<1>3. Teardown(p) => Fine
    BY TeardownCallFine, ReadDestroyFine, RemoveFine, CollectFine DEF Teardown
<1>4. ReconcileStep(p) => Fine
    BY RecheckFine, CheckOrphanFine, RereadFine, ApplyLostFine, LostStartFine, LostFine
       DEF ReconcileStep
<1> QED
    BY <1>1, <1>2, <1>3, <1>4 DEF Step

\* Every step of the engine.
LEMMA EngineInductive == EngineInv /\ [EngineNext]_engineVars => Fine
<1> SUFFICES ASSUME EngineInv, [EngineNext]_engineVars PROVE Fine
    OBVIOUS
<1>1. ASSUME NEW p \in Procs, PlanStep(p) PROVE Fine
    BY <1>1, PlanByNameFine, PlanByIdFine, FailStuckFine DEF PlanStep
<1>2. ASSUME NEW p \in Procs,
             Request(p) \/ Step(p) \/ PlanStep(p) \/ StepFails(p) \/ Crash(p)
      PROVE  Fine
    BY <1>1, <1>2, RequestFine, StepFine, FaultFine
<1>3. ASSUME NEW k \in ctrs, LoseContainer(k) PROVE Fine
    BY <1>3, LoseContainerFine
<1>4. ASSUME NEW id \in RowIds, AgeRow(id) \/ ExpireRow(id) PROVE Fine
    BY <1>4, TimeFine
<1>5. CASE UNCHANGED engineVars
    BY <1>5, TimeFine
<1> QED
    BY <1>2, <1>3, <1>4, <1>5 DEF EngineNext

\* An empty registry, an empty runtime and idle processes.
LEMMA EngineStarts == EngineInit => EngineInv
<1> SUFFICES ASSUME EngineInit PROVE EngineInv
    OBVIOUS
<1>1. RegistryInit /\ ctrs = {} /\ proc = [p \in Procs |-> Idle] /\ vols = [v \in Vols |-> None]
    BY DEF EngineInit, Idles
<1>2. LayersInv
    BY <1>1, LayersStart
<1>3. Contained
    BY <1>1 DEF Contained
<1>4. \A r : Mine(None, r)
    BY <1>1 DEF Mine
<1>5. Rows
    <2>1. \A id \in RowIds : ~Exists(id) /\ branches[id].cid = None
        BY <1>1 DEF RegistryInit, NoRow, Exists
    <2> QED
        BY <1>4, <2>1 DEF Rows
<1>6. Idle \in Process /\ Sane(Idle)
    <2>1. Idle \in Process
        <3>1. << >> \in Seq(LayerIds) /\ << >> \in Seq(Entry) /\ {} \in SUBSET RowIds
            OBVIOUS
        <3>2. "none" \in Operations /\ "idle" \in Labels
            BY DEF Operations, Labels, Fresh
        <3> QED
            BY <3>1, <3>2, ZenonT(60) DEF Idle, Process
    <2>2. Located(Idle)
        BY Zenon DEF Located, Idle, Fresh, Collecting, Freezing, ParentUp
    <2>3. Owning(Idle)
        <3>1. /\ Idle.cid = None /\ Idle.pcid = None /\ Idle.undo = << >>
              /\ Idle.new = None /\ Idle.pnew = None
            BY DEF Idle
        <3>2. 1..Len(<< >>) = {}
            OBVIOUS
        <3> QED
            BY <1>4, <3>1, <3>2, ZenonT(30) DEF Owning
    <2> QED
        BY <2>1, <2>2, <2>3 DEF Sane
<1>7. proc \in [Procs -> Process] /\ \A p \in Procs : proc[p] = Idle
    BY <1>1, <1>6
<1>8. ASSUME NEW p \in Procs, NEW q \in Process, proc[p] = q PROVE Sane(q)
    BY <1>6, <1>7, <1>8
<1>9. vols \in [Vols -> RowIds \cup {None, "bare", "blank"}]
    BY <1>1
<1> QED
    BY <1>2, <1>3, <1>5, <1>7, <1>8, <1>9 DEF EngineInv

\* In every state, each process's record is true of the rows and the containers,
\* whichever sagas, passes, crashes and lost containers came between its steps.
THEOREM EngineSound == EngineSpec => []EngineInv
<1>1. EngineInv /\ [EngineNext]_engineVars => EngineInv'
    BY EngineInductive DEF Fine
<1> QED
    BY <1>1, EngineStarts, PTL DEF EngineSpec

\* The engine implements the registry's specification: between two reads it changes
\* the tables by one method of the registry, or not at all.
THEOREM EngineImplementsRegistry == EngineSpec => RegistrySpec
<1>1. EngineInit => RegistryInit
    BY DEF EngineInit
<1>2. EngineInv /\ [EngineNext]_engineVars => [RegistryNext]_regVars
    BY EngineInductive DEF Fine
<1> QED
    BY <1>1, <1>2, EngineSound, PTL DEF EngineSpec, RegistrySpec

\* So what holds of the registry holds of it under the engine: live names are unique,
\* the journal is the row's history, the parent of a live layer is live, and a
\* destroyed row stays destroyed.
THEOREM EngineKeepsRegistry ==
    EngineSpec => /\ []UniqueLiveNames /\ []JournalIsHistory /\ []LayerForeignKey
                  /\ TombstoneFinal
BY EngineImplementsRegistry, LiveNamesUnique, JournalTrue, LayersChained, TombstonesFinal, PTL

-----------------------------------------------------------------------------
(* What follows for the containers. *)

\* No two containers ever write to one volume: a container's volume has the name of
\* its row, and names of containers are unique.
THEOREM EngineOneWriter == EngineSpec => []OneWriter
<1>1. EngineInv => OneWriter
    BY DEF EngineInv, Contained, Is, OneWriter
<1> QED
    BY <1>1, EngineSound, PTL

\* A row never routes to another branch's container.
THEOREM EngineRoutes == EngineSpec => []RoutesToOwn
<1>1. EngineInv => RoutesToOwn
    <2> SUFFICES ASSUME EngineInv, NEW id \in RowIds, NEW k \in ctrs, k.cid = branches[id].cid
                 PROVE  k.name = branches[id].name /\ (Docker => k.row = id)
        BY DEF RoutesToOwn
    <2>1. PICK c : c = branches[id].cid
        BY Zenon
    <2>2. Mine(c, id)
        BY <2>1 DEF EngineInv, Rows
    <2>3. k \in Container /\ Is(k.row, k.name, k.rw) /\ (~Docker => k.cid = k.name)
        BY DEF EngineInv, Contained
    <2>4. c # None
        BY <2>1, <2>3, RegistryAssumption DEF Container
    <2> QED
        BY <2>1, <2>2, <2>3, <2>4 DEF Mine, Is
<1> QED
    BY <1>1, EngineSound, PTL
=============================================================================
