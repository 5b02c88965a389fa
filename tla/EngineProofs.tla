---------------------------- MODULE EngineProofs ----------------------------
(***************************************************************************)
(* Theorems about Engine, for any number of processes, rows, layers and    *)
(* names, any budget of operations and faults, and either driver.          *)
(*                                                                         *)
(* Every step of the engine is a method of the registry or leaves it       *)
(* alone, so what RegistryProofs proves of the registry holds of the       *)
(* engine.  Each process knows whom it works for: the row it recorded      *)
(* exists and has the name it recorded, and so have the volumes and the    *)
(* containers.                                                             *)
(***************************************************************************)
EXTENDS Engine, RegistryProofs

\* The provers a leaf is tried with, unless it names its own.
USE SMTT(10), Zenon, SMTT(30)

\* A compensation: what it undoes.
Entry == [kind: {"vol"}, what: Vols] \cup [kind: {"ctr"}, what: Cids]
         \cup [kind: {"claim"}, what: RowIds]

\* Where a process has no row yet, and where it has none any more.
Fresh == {"idle", "insert", "destroy", "reap", "retry", "lost", "orphan", "inspect",
          "livevols", "livelayers", "rmorphan"}
Collecting == {"gc", "gcvol", "gcrow"}

\* The freeze saga: all of it, and while the parent's new container is up.
Freezing == {"plan", "freeze", "stopparent", "unfreeze", "claim", "mknew", "startparent",
             "ownparent", "touchparent", "touchchild", "mkchild", "startchild", "ownchild",
             "commit", "markchild"}
ParentUp == {"ownparent", "touchparent", "touchchild", "mkchild", "startchild", "ownchild",
             "commit"}

\* Everywhere else a process may be, and what it may be doing.
Working == {"mkvol", "start", "own", "mark", "undo", "markfailed", "restart", "reown",
            "remark", "restop", "failtarget", "reset", "halt", "rmvol", "force",
            "todestroying", "note", "guard", "failnote", "todestroyed", "reread", "stray",
            "lostart", "lostown", "lostmark", "lostdrop", "lostfail", "failready"}
Labels == Fresh \cup Collecting \cup Freezing \cup Working

Operations == {"none", "create", "from", "reset", "recover", "destroy", "reap", "retry",
               "failstuck", "lost", "orphan", "gclayer", "gcvolume"}

Process == [op: Operations, pc: Labels, id: RowIds \cup {None}, name: Names \cup {None},
            rw: Vols \cup {None}, cid: Cids \cup {None}, ttl: {"never", "later"},
            guarded: BOOLEAN, pid: RowIds \cup {None}, pname: Names \cup {None},
            prw: Vols \cup {None}, pcid: Cids \cup {None}, chain: Seq(LayerIds),
            newrw: Vols \cup {None}, new: Cids \cup {None}, pnew: Cids \cup {None},
            seen: SUBSET RowIds, undo: Seq(Entry)]

\* Row r is one of name n, and v is a generation of its volume.
Is(r, n, v) == r \in RowIds /\ Exists(r) /\ branches[r].name = n /\ v \in Vols /\ v[1] = n

\* If there is a container c it is row r's (docker), or has r's name (kube).
Mine(c, r) ==
    IF Docker THEN \A k \in ctrs : k.cid = c => k.row = r
    ELSE c = None \/ (r \in RowIds /\ Exists(r) /\ c = branches[r].name)

\* What a process recorded is true of the rows ...
Located(q) ==
    /\ q.pc \notin Fresh \cup Collecting => Is(q.id, q.name, q.rw)
    /\ q.op = "from" => Is(q.pid, q.pname, q.prw)
    /\ q.pc \in Freezing => q.op = "from"
    /\ q.pc \in Freezing \ {"plan"} => q.newrw \in Vols /\ q.newrw[1] = q.pname
    /\ q.pc = "insert" => /\ q.op \in {"create", "from"} /\ q.name \in Names
                          /\ q.rw \in Vols /\ q.rw[1] = q.name
    /\ q.pc \in ParentUp => q.pnew \in Cids
    /\ q.pc \in {"lostown", "lostmark"} => q.new \in Cids
    /\ q.pc \in Fresh => q.new = None /\ q.pnew = None /\ q.undo = << >>
    /\ q.pc \in Fresh /\ q.op # "orphan" => q.cid = None
    /\ q.pc \in {"gcvol", "gcrow"} => q.chain # << >>

\* ... and of the containers.
Owning(q) ==
    /\ Mine(q.new, q.id)
    /\ Mine(q.pnew, TargetId(q))
    /\ q.op # "orphan" => Mine(q.cid, q.id)
    /\ Mine(q.pcid, q.pid)
    /\ \A i \in 1..Len(q.undo) :
          q.undo[i].kind = "ctr" => \/ Mine(q.undo[i].what, q.id)
                                    \/ q.op = "from" /\ Mine(q.undo[i].what, q.pid)

Sane(q) == Located(q) /\ Owning(q)

Container == [cid: Cids, name: Names, row: RowIds, rw: Vols, lowers: SUBSET (Vols \cup {None}),
              up: BOOLEAN]

\* Containers carry the name of their row and mount a volume of that name; names
\* and ids are unique.
Contained ==
    /\ ctrs \subseteq Container
    /\ \A k \in ctrs : Is(k.row, k.name, k.rw) /\ (~Docker => k.cid = k.name)
    /\ \A j, k \in ctrs : j.name = k.name \/ j.cid = k.cid => j = k

Rows ==
    \A id \in RowIds : \A n, v, c :
        branches[id].name = n /\ branches[id].rw = v /\ branches[id].cid = c =>
            (Exists(id) => n \in Names /\ Is(id, n, v)) /\ Mine(c, id)

EngineInv ==
    /\ LayersInv
    /\ vols \in [Vols -> RowIds \cup {None, "bare", "blank"}]
    /\ proc \in [Procs -> Process]
    /\ \A p \in Procs, q \in Process : proc[p] = q => Sane(q)
    /\ Contained
    /\ Rows

-----------------------------------------------------------------------------
(* Processes. *)

\* An idle process claims nothing.
LEMMA IdleSane == ASSUME EngineInv PROVE Idle \in Process /\ Sane(Idle)
<1>1. Idle \in Process
    <2>1. << >> \in Seq(LayerIds) /\ << >> \in Seq(Entry)
        OBVIOUS
    <2>2. {} \in SUBSET RowIds
        OBVIOUS
    <2>3. "none" \in Operations /\ "idle" \in Labels
        BY DEF Operations, Labels, Fresh
    <2> QED
        BY <2>1, <2>2, <2>3, ZenonT(60) DEF Idle, Process
<1>2. \A r : Mine(None, r)
    BY RegistryAssumption DEF Mine, EngineInv, Contained, Container
<1>3. Located(Idle)
    BY DEF Located, Idle, Fresh, Collecting, Freezing, ParentUp
<1>4. Owning(Idle)
    BY <1>2 DEF Owning, Idle
<1> QED
    BY <1>1, <1>3, <1>4 DEF Sane

\* The new place promises no more than the old one.
MayGo(from, to) ==
    /\ to \in Labels \ {"insert"}
    /\ to \notin Fresh \cup Collecting => from \notin Fresh \cup Collecting
    /\ to \in Fresh => from \in Fresh
    /\ to \in Freezing => from \in Freezing /\ (to # "plan" => from # "plan")
    /\ to \in ParentUp => from \in ParentUp
    /\ to \in {"lostown", "lostmark"} => from \in {"lostown", "lostmark"}
    /\ to \in {"gcvol", "gcrow"} => from \in {"gcvol", "gcrow"}

\* A step that only moves the program counter.
LEMMA GoSane ==
    ASSUME NEW q \in Process, Sane(q), NEW x, MayGo(q.pc, x)
    PROVE  [q EXCEPT !.pc = x] \in Process /\ Sane([q EXCEPT !.pc = x])
<1> DEFINE e == [q EXCEPT !.pc = x]
<1>1. e \in Process
    BY DEF Process, MayGo
<1>2. /\ e.pc = x /\ e.op = q.op /\ e.id = q.id /\ e.name = q.name /\ e.rw = q.rw
      /\ e.cid = q.cid /\ e.pid = q.pid /\ e.pname = q.pname /\ e.prw = q.prw
      /\ e.pcid = q.pcid /\ e.newrw = q.newrw /\ e.new = q.new /\ e.pnew = q.pnew
      /\ e.undo = q.undo /\ e.chain = q.chain
    BY DEF Process
<1> HIDE DEF e
<1>3. Located(e)
    BY <1>2 DEF Sane, Located, MayGo
<1>4. Owning(e)
    BY <1>2 DEF Sane, Owning, TargetId
<1> QED
    BY <1>1, <1>3, <1>4 DEF Sane, e

-----------------------------------------------------------------------------
(* What a step may do to the rows and the containers. *)

RowsStay ==
    \A r \in RowIds : Exists(r) => Exists(r)' /\ branches'[r].name = branches[r].name

\* Ids in C keep their owners.
OwnersStay(C) == \A c \in C : \A r : Mine(c, r) => Mine(c, r)'

CidsOf(q) == {q.new, q.pnew, q.cid, q.pcid} \cup {q.undo[i].what : i \in 1..Len(q.undo)}

\* A process that does not move stays sane while rows keep their names and
\* containers their owners.
LEMMA SaneStays ==
    ASSUME NEW q \in Process, Sane(q), RowsStay, NEW C, CidsOf(q) \subseteq C, OwnersStay(C)
    PROVE  Sane(q)'
<1>1. \A r, n, v : Is(r, n, v) => Is(r, n, v)'
    BY DEF Is, RowsStay
<1>2. Located(q)'
    BY <1>1 DEF Sane, Located
<1>3. \A c \in CidsOf(q) : \A r : Mine(c, r) => Mine(c, r)'
    BY DEF OwnersStay
<1>4. Owning(q)'
    BY <1>3 DEF Sane, Owning, CidsOf, TargetId
<1> QED
    BY <1>2, <1>4 DEF Sane

\* Containers only go.
LEMMA OwnersStayRemoving ==
    ASSUME ctrs' \subseteq ctrs, RowsStay, NEW C PROVE OwnersStay(C)
BY DEF OwnersStay, Mine, RowsStay

\* The engine's invariant after a step that leaves the registry alone and starts no
\* container.
LEMMA RemovingStep ==
    ASSUME EngineInv, UNCHANGED regVars, ctrs' \subseteq ctrs,
           vols' \in [Vols -> RowIds \cup {None, "bare", "blank"}],
           NEW p \in Procs, NEW e \in Process, Sane(e), proc' = [proc EXCEPT ![p] = e]
    PROVE  EngineInv'
<1>1. RowsStay
    BY DEF RowsStay, Exists, regVars
<1>2. \A r, n, v : Is(r, n, v)' <=> Is(r, n, v)
    BY DEF Is, Exists, regVars
<1>3. \A C : OwnersStay(C)
    BY <1>1, OwnersStayRemoving
<1>4. proc' \in [Procs -> Process]
    BY DEF EngineInv
<1>5. ASSUME NEW o \in Procs, NEW q \in Process, proc'[o] = q PROVE Sane(q)'
    <2>1. Sane(q)
        BY <1>5 DEF EngineInv
    <2> QED
        BY <2>1, <1>1, <1>3, SaneStays
<1>6. LayersInv'
    BY RankedInductive, TypeInductive, ForeignKeyInductive DEF LayersInv, EngineInv
<1>7. Contained'
    BY <1>2 DEF Contained, EngineInv
<1>8. Rows'
    <2> SUFFICES ASSUME NEW id \in RowIds, NEW n, NEW v, NEW c,
                        branches'[id].name = n, branches'[id].rw = v, branches'[id].cid = c
                 PROVE  (Exists(id)' => n \in Names /\ Is(id, n, v)') /\ Mine(c, id)'
        BY DEF Rows
    <2>1. (Exists(id) => n \in Names /\ Is(id, n, v)) /\ Mine(c, id)
        BY DEF EngineInv, Rows, regVars
    <2>2. OwnersStay({c})
        BY <1>3
    <2> QED
        BY <1>2, <2>1, <2>2 DEF OwnersStay, Exists, regVars
<1> QED
    BY <1>4, <1>5, <1>6, <1>7, <1>8 DEF EngineInv

\* The engine's invariant after a step that calls the registry only.
LEMMA CallingStep ==
    ASSUME EngineInv, UNCHANGED world, RegistryNext, RowsStay, Rows',
           NEW p \in Procs, NEW e \in Process, Sane(e)', proc' = [proc EXCEPT ![p] = e]
    PROVE  EngineInv'
<1>1. \A r, n, v : Is(r, n, v) => Is(r, n, v)'
    BY DEF Is, RowsStay
<1>2. \A C : OwnersStay(C)
    BY OwnersStayRemoving DEF world
<1>3. proc' \in [Procs -> Process]
    BY DEF EngineInv
<1>4. ASSUME NEW o \in Procs, NEW q \in Process, proc'[o] = q PROVE Sane(q)'
    <2>1. CASE o = p
        BY <1>4, <2>1 DEF EngineInv
    <2>2. CASE o # p
        <3>1. Sane(q)
            BY <1>4, <2>2 DEF EngineInv
        <3> QED
            BY <1>2, <3>1, SaneStays
    <2> QED
        BY <2>1, <2>2
<1>5. LayersInv'
    BY RankedInductive, TypeInductive, ForeignKeyInductive DEF LayersInv, EngineInv
<1>6. Contained'
    BY <1>1 DEF Contained, EngineInv, world
<1>7. vols' = vols
    BY DEF world
<1> QED
    BY <1>3, <1>4, <1>5, <1>6, <1>7 DEF EngineInv

\* Rows keep their columns, except that row id may come to record container c.
KeepsRows(id, c) ==
    \A r \in RowIds :
        /\ Exists(r)' <=> Exists(r)
        /\ branches'[r].name = branches[r].name /\ branches'[r].rw = branches[r].rw
        /\ branches'[r].cid = branches[r].cid \/ (r = id /\ branches'[r].cid = c)

\* A step that writes one row, and moves one process, keeps the invariant.
LEMMA KeepingStep ==
    ASSUME EngineInv, UNCHANGED world, RegistryNext,
           NEW id \in RowIds, NEW c, KeepsRows(id, c), Mine(c, id),
           NEW p \in Procs, NEW e \in Process, Sane(e), proc' = [proc EXCEPT ![p] = e]
    PROVE  EngineInv'
<1>1. RowsStay
    BY DEF RowsStay, KeepsRows
<1>2. \A C : OwnersStay(C)
    BY <1>1, OwnersStayRemoving DEF world
<1>3. Sane(e)'
    BY <1>1, <1>2, SaneStays
<1>4. Rows'
    <2> SUFFICES ASSUME NEW r \in RowIds, NEW n, NEW v, NEW d,
                        branches'[r].name = n, branches'[r].rw = v, branches'[r].cid = d
                 PROVE  (Exists(r)' => n \in Names /\ Is(r, n, v)') /\ Mine(d, r)'
        BY DEF Rows
    <2>1. (Exists(r)' => n \in Names /\ Is(r, n, v)) /\ Mine(d, r)
        BY DEF EngineInv, Rows, KeepsRows
    <2>2. OwnersStay({d})
        BY <1>2
    <2>3. Is(r, n, v) => Is(r, n, v)'
        BY <1>1 DEF Is, RowsStay
    <2> QED
        BY <2>1, <2>2, <2>3 DEF OwnersStay
<1> QED
    BY <1>1, <1>3, <1>4, CallingStep, Zenon

\* The methods that write no name, no volume and no container column.
LEMMA MethodsKeep ==
    ASSUME RegistryTypeOK, NEW id \in RowIds,
           \/ \E to \in States : TransitionBranch(id, to)
           \/ TouchBranch(id) \/ NoteBranch(id) \/ FailStuckBranch(id) \/ Age(id) \/ Expire(id)
           \/ \E v \in Vols \cup {None} : SetBranchPendingVolume(id, v)
           \/ \E c \in Cids \cup {None} : FailReadyBranch(id, c)
    PROVE  KeepsRows(id, None) /\ RegistryNext
<1>1. RegistryNext
    BY DEF RegistryNext, BranchMethod
<1> DEFINE K == /\ branches'[id].state # "absent" <=> branches[id].state # "absent"
                /\ \A r \in RowIds \ {id} : branches'[r] = branches[r]
                /\ branches'[id].name = branches[id].name /\ branches'[id].rw = branches[id].rw
                /\ branches'[id].cid = branches[id].cid
<1> USE DEF RegistryTypeOK, Row
<1>2. ASSUME NEW to \in States, TransitionBranch(id, to) PROVE K
    BY <1>2, ZenonT(30) DEF TransitionBranch, legalBranch
<1>3. ASSUME TouchBranch(id) \/ NoteBranch(id) PROVE K
    BY <1>3 DEF TouchBranch, NoteBranch, Exists
<1>4. ASSUME FailStuckBranch(id) PROVE K
    BY <1>4 DEF FailStuckBranch, Stuck
<1>5. ASSUME Age(id) \/ Expire(id) PROVE K
    BY <1>5 DEF Age, Expire
<1>6. ASSUME NEW v \in Vols \cup {None}, SetBranchPendingVolume(id, v) PROVE K
    BY <1>6 DEF SetBranchPendingVolume, Exists
<1>7. ASSUME NEW c \in Cids \cup {None}, FailReadyBranch(id, c) PROVE K
    BY <1>7 DEF FailReadyBranch
<1>8. K
    BY <1>2, <1>3, <1>4, <1>5, <1>6, <1>7
<1> QED
    BY <1>1, <1>8 DEF KeepsRows, Exists

\* The methods that record a container.
LEMMA MethodsRecord ==
    ASSUME RegistryTypeOK, NEW id \in RowIds, NEW c \in Cids \cup {None},
           \/ MarkBranchReady(id, c) \/ SetBranchContainer(id, c)
           \/ c \in Cids /\ \E d \in Cids \cup {None} :
                 UpdateBranchEndpoint(id, d, c) \/ UpdateBranchEndpointCtx(id, d, c)
    PROVE  KeepsRows(id, c) /\ RegistryNext
<1>1. RegistryNext
    BY DEF RegistryNext, BranchMethod
<1>2. branches'[id].state # "absent" /\ branches[id].state # "absent"
    BY DEF RegistryTypeOK, Row, MarkBranchReady, SetBranchContainer, UpdateBranchEndpoint,
           UpdateBranchEndpointCtx, Exists, legalBranch
<1>3. \A r \in RowIds \ {id} : branches'[r] = branches[r]
    BY DEF RegistryTypeOK, Row, MarkBranchReady, SetBranchContainer, UpdateBranchEndpoint,
           UpdateBranchEndpointCtx
<1>4. /\ branches'[id].name = branches[id].name /\ branches'[id].rw = branches[id].rw
      /\ branches'[id].cid = c
    BY DEF RegistryTypeOK, Row, MarkBranchReady, SetBranchContainer, UpdateBranchEndpoint,
           UpdateBranchEndpointCtx
<1> QED
    BY <1>1, <1>2, <1>3, <1>4 DEF KeepsRows, Exists

\* The ids a process holds are known.
LEMMA CidsKnown ==
    ASSUME EngineInv, NEW p \in Procs PROVE CidsOf(proc[p]) \subseteq KnownCids
<1>1. proc[p] \in Process
    BY DEF EngineInv
<1>2. proc[p].undo \in Seq(Entry)
    BY <1>1 DEF Process
<1>3. DOMAIN proc[p].undo = 1..Len(proc[p].undo)
    BY <1>2
<1>4. {proc[p].new, proc[p].pnew, proc[p].cid, proc[p].pcid} \subseteq KnownCids
    BY DEF KnownCids
<1>5. ASSUME NEW i \in 1..Len(proc[p].undo) PROVE proc[p].undo[i].what \in KnownCids
    <2> DEFINE W(o) == {proc[o].undo[j].what : j \in DOMAIN proc[o].undo}
               V(o) == {proc[o].cid, proc[o].pcid, proc[o].new, proc[o].pnew}
    <2>1. proc[p].undo[i].what \in W(p)
        BY <1>3
    <2>2. KnownCids = ((({k.cid : k \in ctrs} \cup {branches[id].cid : id \in RowIds})
                        \cup UNION {V(o) : o \in Procs}) \cup UNION {W(o) : o \in Procs})
        BY DEF KnownCids
    <2> HIDE DEF W, V
    <2>3. W(p) \in {W(o) : o \in Procs}
        OBVIOUS
    <2>4. proc[p].undo[i].what \in UNION {W(o) : o \in Procs}
        BY <2>1, <2>3
    <2> QED
        BY <2>2, <2>4
<1> QED
    BY <1>4, <1>5 DEF CidsOf

\* The id of a new container, and what becomes of the others.
LEMMA NewCidFresh ==
    ASSUME EngineInv, CidsLast, NEW n \in Names
    PROVE  NewCid(n) \in Cids /\ (Docker => NewCid(n) \notin KnownCids) /\ (~Docker => NewCid(n) = n)
<1>1. CASE Docker
    BY <1>1 DEF NewCid, CidsLast
<1>2. CASE ~Docker
    BY <1>2, RuntimeAssumption DEF NewCid
<1> QED
    BY <1>1, <1>2

\* A container that was just started is its row's, and takes over no other's id.
LEMMA StartedOwners ==
    ASSUME EngineInv, UNCHANGED regVars, CidsLast, NEW n \in Names, NameFree(n), NEW id, NEW rw, NEW L, NEW up, NEW c, c = NewCid(n),
           Is(id, n, rw), ctrs' = Started(c, n, id, rw, L, up)
    PROVE  OwnersStay(KnownCids \cup {None}) /\ Mine(c, id)'
<1>1. c \in Cids /\ (Docker => c \notin KnownCids) /\ (~Docker => c = n) /\ c # None
    BY NewCidFresh, RegistryAssumption
<1>2. \A k \in ctrs : k.cid \in KnownCids
    BY DEF KnownCids
<1>3. \A k \in ctrs' : k \in ctrs \/ (k.cid = c /\ k.row = id)
    BY DEF Started
<1>4. branches' = branches
    BY DEF regVars
<1>5. Mine(c, id)'
    <2>1. CASE Docker
        BY <1>1, <1>2, <1>3, <2>1 DEF Mine
    <2>2. CASE ~Docker
        BY <1>1, <1>4, <2>2 DEF Mine, Is, Exists
    <2> QED
        BY <2>1, <2>2
<1>6. ASSUME NEW d \in KnownCids \cup {None}, NEW r, Mine(d, r) PROVE Mine(d, r)'
    <2>1. CASE Docker
        BY <1>1, <1>3, <1>6, <2>1 DEF Mine
    <2>2. CASE ~Docker
        BY <1>4, <1>6, <2>2 DEF Mine, Exists
    <2> QED
        BY <2>1, <2>2
<1> QED
    BY <1>5, <1>6 DEF OwnersStay

\* A step that starts a container keeps the invariant.
LEMMA StartedStep ==
    ASSUME EngineInv, UNCHANGED regVars, CidsLast, NEW n \in Names, NameFree(n), NEW id, NEW rw, NEW L \in SUBSET (Vols \cup {None}), NEW up \in BOOLEAN,
           NEW install \in BOOLEAN, NEW c, c = NewCid(n),
           Is(id, n, rw), ctrs' = Started(c, n, id, rw, L, up), vols' = Mounted(rw, L, install),
           NEW p \in Procs, NEW e \in Process, Sane(e)', proc' = [proc EXCEPT ![p] = e]
    PROVE  EngineInv'
<1>1. OwnersStay(KnownCids \cup {None})
    BY StartedOwners
<1>2. c \in Cids /\ (Docker => c \notin KnownCids) /\ (~Docker => c = n) /\ c # None
    BY NewCidFresh, RegistryAssumption
<1>3. RowsStay
    BY DEF RowsStay, Exists, regVars
<1>4. \A r, m, v : Is(r, m, v)' <=> Is(r, m, v)
    BY DEF Is, Exists, regVars
<1>5. proc' \in [Procs -> Process]
    BY DEF EngineInv
<1>6. ASSUME NEW o \in Procs, NEW q \in Process, proc'[o] = q PROVE Sane(q)'
    <2>1. CASE o = p
        BY <1>6, <2>1 DEF EngineInv
    <2>2. CASE o # p
        <3>1. Sane(q) /\ q = proc[o]
            BY <1>6, <2>2 DEF EngineInv
        <3>2. CidsOf(q) \subseteq KnownCids \cup {None}
            BY <3>1, CidsKnown
        <3> QED
            BY <1>1, <1>3, <3>1, <3>2, SaneStays
    <2> QED
        BY <2>1, <2>2
<1>7. LayersInv'
    BY RankedInductive, TypeInductive, ForeignKeyInductive DEF LayersInv, EngineInv
<1>8. Contained'
    <2> DEFINE k0 == [cid |-> c, name |-> n, row |-> id, rw |-> rw, lowers |-> L, up |-> up]
    <2>1. ctrs' = ctrs \cup {k0}
        BY DEF Started
    <2>2. k0 \in Container
        BY <1>2 DEF Container, Is
    <2>3. k0.cid = c /\ k0.name = n /\ k0.row = id /\ k0.rw = rw
        OBVIOUS
    <2> HIDE DEF k0
    <2>4. \A k \in ctrs : k.name # n /\ k.cid # c
        <3>1. \A k \in ctrs : k.cid \in KnownCids
            BY DEF KnownCids
        <3> QED
            BY <1>2, <3>1 DEF NameFree, EngineInv, Contained
    <2>5. ctrs' \subseteq Container
        BY <2>1, <2>2 DEF EngineInv, Contained
    <2>6. \A k \in ctrs' : Is(k.row, k.name, k.rw)' /\ (~Docker => k.cid = k.name)
        BY <1>2, <1>4, <2>1, <2>3 DEF EngineInv, Contained
    <2>7. \A j, k \in ctrs' : j.name = k.name \/ j.cid = k.cid => j = k
        BY <2>1, <2>3, <2>4 DEF EngineInv, Contained
    <2> QED
        BY <2>5, <2>6, <2>7 DEF Contained
<1>9. Rows'
    <2> SUFFICES ASSUME NEW r \in RowIds, NEW m, NEW v, NEW d,
                        branches'[r].name = m, branches'[r].rw = v, branches'[r].cid = d
                 PROVE  (Exists(r)' => m \in Names /\ Is(r, m, v)') /\ Mine(d, r)'
        BY DEF Rows
    <2>1. (Exists(r)' => m \in Names /\ Is(r, m, v)) /\ Mine(d, r)
        BY DEF EngineInv, Rows, regVars, Exists
    <2>2. d \in KnownCids
        BY DEF KnownCids, regVars
    <2> QED
        BY <1>1, <1>4, <2>1, <2>2 DEF OwnersStay
<1>10. vols' \in [Vols -> RowIds \cup {None, "bare", "blank"}]
    BY DEF Mounted, EngineInv
<1> QED
    BY <1>5, <1>6, <1>7, <1>8, <1>9, <1>10 DEF EngineInv

\* StartOn, of a container for row id.  The caller shows that what it holds after it
\* is sane, knowing that the new container is its own.
LEMMA StartingStep ==
    ASSUME EngineInv, UNCHANGED regVars, NEW p \in Procs,
           NEW n \in Names, NEW id, NEW rw, NEW L \in SUBSET (Vols \cup {None}),
           NEW install \in BOOLEAN, NEW next, NEW failed,
           StartOn(p, n, id, rw, L, install, next, failed), Is(id, n, rw),
           failed \in Process, Sane(failed), CidsOf(failed) \subseteq KnownCids \cup {None},
           NEW c, c = NewCid(n),
           c \in Cids /\ OwnersStay(KnownCids \cup {None}) /\ Mine(c, id)' =>
               next \in Process /\ Sane(next)'
    PROVE  EngineInv'
<1>1. CASE ~NameFree(n)
    <2>1. proc' = [proc EXCEPT ![p] = failed] /\ UNCHANGED world
        BY <1>1 DEF StartOn, GoWith
    <2> QED
        BY <2>1, RemovingStep, Zenon DEF world, EngineInv
<1>2. CASE NameFree(n)
    <2>1. CidsLast /\ vols' = Mounted(rw, L, install)
        BY <1>2 DEF StartOn
    <2>2. PICK up \in BOOLEAN : ctrs' = Started(c, n, id, rw, L, up)
        <3>1. Boots(rw, install) \in BOOLEAN /\ (Boots(rw, install) /\ ~Docker) \in BOOLEAN
            BY DEF Boots
        <3> QED
            BY <1>2, <3>1, ZenonT(30) DEF StartOn
    <2>3. OwnersStay(KnownCids \cup {None}) /\ Mine(c, id)' /\ c \in Cids
        BY <1>2, <2>1, <2>2, StartedOwners, NewCidFresh
    <2>4. Sane(failed)'
        <3>1. RowsStay
            BY DEF RowsStay, Exists, regVars
        <3> QED
            BY <2>3, <3>1, SaneStays
    <2>5. PICK e \in {next, failed} : proc' = [proc EXCEPT ![p] = e]
        BY <1>2 DEF StartOn, GoWith
    <2>6. e \in Process /\ Sane(e)'
        BY <2>3, <2>4, <2>5
    <2> QED
        BY <1>2, <2>1, <2>2, <2>5, <2>6, StartedStep, ZenonT(30)
<1> QED
    BY <1>1, <1>2

-----------------------------------------------------------------------------
(* The steps of a process. *)

\* What every step does: nothing to the registry that a method does not.
Fine == [RegistryNext]_regVars /\ EngineInv'

\* A process's record, as a constant.
LEMMA Current ==
    ASSUME EngineInv, NEW p \in Procs
    PROVE  \E q \in Process : q = proc[p] /\ Sane(q) /\ CidsOf(q) \subseteq KnownCids
BY CidsKnown DEF EngineInv

\* A step that only moves on, and may have taken containers away ...
LEMMA GoStep ==
    ASSUME EngineInv, UNCHANGED regVars, ctrs' \subseteq ctrs,
           vols' \in [Vols -> RowIds \cup {None, "bare", "blank"}],
           NEW p \in Procs, NEW x, MayGo(proc[p].pc, x), Go(p, x)
    PROVE  Fine
<1>1. PICK q \in Process : q = proc[p] /\ Sane(q)
    BY Current
<1>2. PICK e : e = [q EXCEPT !.pc = x]
    BY Zenon
<1>3. e \in Process /\ Sane(e)
    BY <1>1, <1>2, GoSane
<1>4. proc' = [proc EXCEPT ![p] = e]
    BY <1>1, <1>2 DEF Go, EngineInv
<1> QED
    BY <1>3, <1>4, RemovingStep, Zenon DEF Fine

\* ... or that ends the operation ...
LEMMA EndStep ==
    ASSUME EngineInv, UNCHANGED regVars, ctrs' \subseteq ctrs,
           vols' \in [Vols -> RowIds \cup {None, "bare", "blank"}],
           NEW p \in Procs, End(p)
    PROVE  Fine
BY IdleSane, RemovingStep, Zenon DEF Fine, End, Idle

\* ... and the same after one write to a row.
LEMMA GoKeeping ==
    ASSUME EngineInv, UNCHANGED world, RegistryNext,
           NEW id \in RowIds, NEW c, KeepsRows(id, c), Mine(c, id),
           NEW p \in Procs, NEW x, MayGo(proc[p].pc, x), Go(p, x)
    PROVE  Fine
<1>1. PICK q \in Process : q = proc[p] /\ Sane(q)
    BY Current
<1>2. PICK e : e = [q EXCEPT !.pc = x]
    BY Zenon
<1>3. e \in Process /\ Sane(e)
    BY <1>1, <1>2, GoSane
<1>4. proc' = [proc EXCEPT ![p] = e]
    BY <1>1, <1>2 DEF Go, EngineInv
<1> QED
    BY <1>3, <1>4, KeepingStep, Zenon DEF Fine

\* The operation ends after its last write to a row.
LEMMA EndKeeping ==
    ASSUME EngineInv, UNCHANGED world, RegistryNext,
           NEW id \in RowIds, NEW c, KeepsRows(id, c), Mine(c, id),
           NEW p \in Procs, End(p)
    PROVE  Fine
BY IdleSane, KeepingStep, Zenon DEF Fine, End, Idle

\* No container has the empty id.
LEMMA NobodysMine == ASSUME EngineInv PROVE \A r : Mine(None, r)
BY RegistryAssumption DEF Mine, EngineInv, Contained, Container

\* CreateBranchCtx.
LEMMA InsertRowFine == ASSUME EngineInv, NEW p \in Procs, InsertRow(p) PROVE Fine
<1>1. PICK q \in Process : q = proc[p] /\ Sane(q)
    BY Current
<1>2. UNCHANGED world /\ q.pc = "insert"
    BY <1>1 DEF InsertRow, OnlyRegistry, At
<1>3. CASE ByName(q.name) # {}
    <2>1. End(p) /\ UNCHANGED regVars
        BY <1>1, <1>3 DEF InsertRow
    <2> QED
        BY <1>2, <2>1, EndStep DEF world, EngineInv
<1>4. CASE ByName(q.name) = {}
    <2>1. PICK i \in RowIds : i = NewRow /\ ~Exists(i)
        BY <1>1, <1>4 DEF InsertRow, NewRow, Unused
    <2>2a. PICK x \in {"mkvol", "plan"} : x = IF q.op = "create" THEN "mkvol" ELSE "plan"
        OBVIOUS
    <2>2. PICK e : e = [q EXCEPT !.id = i, !.pc = x]
        OBVIOUS
    <2>3. CreateBranch(i, q.name, q.rw, q.pname, q.ttl) /\ proc' = [proc EXCEPT ![p] = e]
        BY <1>1, <1>4, <2>1, <2>2a, <2>2 DEF InsertRow, GoWith
    <2>4. /\ q.op \in {"create", "from"} /\ q.name \in Names /\ q.rw \in Vols /\ q.rw[1] = q.name
          /\ q.new = None /\ q.pnew = None /\ q.undo = << >> /\ q.cid = None
        BY <1>1, <1>2 DEF Sane, Located, Fresh
    <2>5. RegistryNext
        <3>1. q.pname \in Names \cup {None} /\ q.ttl \in {"never", "later"}
            BY DEF Process
        <3> QED
            BY <2>3, <2>4, <3>1, Zenon DEF RegistryNext, BranchMethod
    <2>6. /\ branches'[i].name = q.name /\ branches'[i].rw = q.rw /\ branches'[i].cid = None
          /\ Exists(i)'
          /\ \A r \in RowIds \ {i} : branches'[r] = branches[r]
        BY <2>3 DEF CreateBranch, NoRow, Exists, EngineInv, LayersInv, RegistryTypeOK
    <2>7. RowsStay
        BY <2>1, <2>6 DEF RowsStay, Exists
    <2>8. \A C : OwnersStay(C)
        BY <1>2, <2>7, OwnersStayRemoving DEF world
    <2>9. \A r : Mine(None, r)'
        BY <1>2, RegistryAssumption, Zenon DEF Mine, EngineInv, Contained, Container, world
    <2>10. Rows'
        <3> SUFFICES ASSUME NEW r \in RowIds, NEW m, NEW v, NEW d,
                            branches'[r].name = m, branches'[r].rw = v, branches'[r].cid = d
                     PROVE  (Exists(r)' => m \in Names /\ Is(r, m, v)') /\ Mine(d, r)'
            BY DEF Rows
        <3>1. CASE r = i
            BY <2>4, <2>6, <2>9, <3>1 DEF Is
        <3>2. CASE r # i
            <4>1. (Exists(r)' => m \in Names /\ Is(r, m, v)) /\ Mine(d, r)
                BY <2>6, <3>2 DEF EngineInv, Rows, Exists
            <4>2. Is(r, m, v) => Is(r, m, v)'
                BY <2>7 DEF Is, RowsStay
            <4>3. OwnersStay({d})
                BY <2>8
            <4> QED
                BY <4>1, <4>2, <4>3 DEF OwnersStay
        <3> QED
            BY <3>1, <3>2
    <2>11. e \in Process
        <3>1. {"mkvol", "plan"} \subseteq Labels
            BY DEF Labels, Working, Freezing
        <3>2. x \in Labels /\ i \in RowIds \cup {None}
            BY <2>1, <2>2a, <3>1
        <3> QED
            BY <2>2, <3>2, ZenonT(60) DEF Process
    <2>12. /\ e.pc \in {"mkvol", "plan"} /\ (e.pc = "plan" => e.op = "from")
           /\ e.id = i /\ e.op = q.op /\ e.name = q.name /\ e.rw = q.rw /\ e.cid = None
           /\ e.pid = q.pid /\ e.pname = q.pname /\ e.prw = q.prw /\ e.pcid = q.pcid
           /\ e.new = None /\ e.pnew = None /\ e.undo = << >>
        BY <2>2a, <2>2, <2>4 DEF Process
    <2>13. Sane(q)'
        BY <1>1, <2>7, <2>8, SaneStays
    <2>14. Located(e)'
        <3>1. Is(i, q.name, q.rw)'
            BY <2>4, <2>6 DEF Is
        <3>2. q.op = "from" => Is(q.pid, q.pname, q.prw)'
            BY <2>13 DEF Sane, Located
        <3> QED
            BY <2>12, <3>1, <3>2 DEF Located, Fresh, Collecting, Freezing, ParentUp
    <2>15. Owning(e)'
        BY <2>9, <2>12, <2>13 DEF Sane, Owning
    <2> QED
        BY <1>2, <2>3, <2>5, <2>7, <2>10, <2>11, <2>14, <2>15, CallingStep, ZenonT(30) DEF Fine, Sane
<1> QED
    BY <1>3, <1>4

\* From any place of an operation it may move on to its plain steps ...
LEMMA MayWork ==
    ASSUME NEW x \in Labels \ (Fresh \cup Collecting), NEW y \in Working \ {"lostown", "lostmark"}
    PROVE  MayGo(x, y)
<1>1. y \notin Fresh \cup Collecting \cup Freezing
    BY DEF Working, Fresh, Collecting, Freezing
<1>2. y \notin ParentUp
    BY DEF Working, ParentUp
<1>3. y \in Labels
    BY DEF Labels
<1> QED
    BY <1>1, <1>2, <1>3 DEF MayGo, Fresh, Collecting

\* ... and within the freeze saga.
LEMMA MayFreeze ==
    ASSUME NEW x \in Freezing, NEW y \in Freezing \ {"plan"}, x # "plan",
           y \in ParentUp => x \in ParentUp
    PROVE  MayGo(x, y)
<1>1. x \notin Fresh \cup Collecting /\ y \notin Fresh
    BY DEF Fresh, Collecting, Freezing
<1>2. y \in Labels \ {"insert"}
    BY DEF Labels, Freezing
<1>3. y \notin {"lostown", "lostmark"} \cup Collecting
    BY DEF Freezing, Collecting
<1> QED
    BY <1>1, <1>2, <1>3 DEF MayGo, Collecting

\* LayerChain returns layers, and their volumes are volumes.
LEMMA ChainTyped == ASSUME EngineInv, NEW id \in RowIds PROVE LayerChain(id) \in Seq(LayerIds)
<1>1. branches[id].base \in Heads
    BY DEF EngineInv, LayersInv, RegistryTypeOK, Row, Heads
<1> QED
    BY <1>1, ChainFromUnfolds DEF EngineInv, LayersInv, LayerChain

\* The volumes of a chain are volumes.
LEMMA VolsOfTyped ==
    ASSUME EngineInv, NEW chain \in Seq(LayerIds) PROVE VolsOf(chain) \in SUBSET (Vols \cup {None})
BY DEF EngineInv, LayersInv, RegistryTypeOK, Layer, VolsOf

\* What CreateVolume and RemoveVolume leave is well formed.
LEMMA VolsTyped ==
    ASSUME EngineInv, NEW v, NEW id \in RowIds
    PROVE  /\ Created(v, id) \in [Vols -> RowIds \cup {None, "bare", "blank"}]
           /\ Removed(v) \in [Vols -> RowIds \cup {None, "bare", "blank"}]
BY Zenon DEF EngineInv, Created, Removed

\* A compensation is pushed.
LEMMA UndoPushed ==
    ASSUME NEW q \in Process, NEW u \in Entry, NEW s, s = Append(q.undo, u)
    PROVE  /\ s \in Seq(Entry) /\ Len(s) = Len(q.undo) + 1
           /\ \A i \in 1..Len(s) : (i \in 1..Len(q.undo) /\ s[i] = q.undo[i]) \/ s[i] = u
<1>1. q.undo \in Seq(Entry)
    BY DEF Process
<1> QED
    BY <1>1

\* provision: CreateVolume.
LEMMA MkVolFine == ASSUME EngineInv, NEW p \in Procs, MkVol(p) PROVE Fine
<1>1. PICK q \in Process : q = proc[p] /\ Sane(q)
    BY Current
<1>2. UNCHANGED <<regVars, ctrs>> /\ q.pc = "mkvol"
    BY <1>1 DEF MkVol, At
<1>3. "mkvol" \notin Fresh \cup Collecting /\ "mkvol" \in Labels
    BY DEF Fresh, Collecting, Labels, Working
<1>4. Is(q.id, q.name, q.rw)
    BY <1>1, <1>2, <1>3 DEF Sane, Located
<1>5. vols' \in [Vols -> RowIds \cup {None, "bare", "blank"}]
    BY <1>1, <1>4, VolsTyped DEF MkVol, EngineInv, Is
<1>6. CASE Go(p, "undo")
    <2>1. MayGo(q.pc, "undo")
        BY <1>2, <1>3, MayWork DEF Working
    <2> QED
        BY <1>1, <1>2, <1>5, <1>6, <2>1, GoStep
<1>7. CASE GoWith(p, [q EXCEPT !.pc = "start", !.chain = LayerChain(q.id),
                               !.undo = Undo(p, "vol", q.rw)])
    <2>1. PICK u \in Entry : u = [kind |-> "vol", what |-> q.rw]
        BY <1>4, Zenon DEF Entry, Is
    <2>2. PICK s : s = Append(q.undo, u)
        BY Zenon
    <2>3. PICK ch \in Seq(LayerIds) : ch = LayerChain(q.id)
        BY <1>4, ChainTyped DEF Is
    <2>4. PICK e : e = [q EXCEPT !.pc = "start", !.chain = ch, !.undo = s]
        OBVIOUS
    <2>5. proc' = [proc EXCEPT ![p] = e]
        BY <1>1, <1>7, <2>1, <2>2, <2>3, <2>4 DEF GoWith, Undo
    <2>6. e \in Process
        <3>1. "start" \in Labels /\ s \in Seq(Entry)
            BY <2>2, UndoPushed, Zenon DEF Labels, Working
        <3> QED
            BY <2>4, <3>1, ZenonT(60) DEF Process
    <2>7. /\ e.pc = "start" /\ e.id = q.id /\ e.op = q.op /\ e.name = q.name /\ e.rw = q.rw
          /\ e.cid = q.cid /\ e.pid = q.pid /\ e.pname = q.pname /\ e.prw = q.prw /\ e.pcid = q.pcid
          /\ e.new = q.new /\ e.pnew = q.pnew /\ e.undo = s
        BY <2>4 DEF Process
    <2>8. Located(e)
        BY <1>1, <1>4, <2>7, Zenon DEF Sane, Located, Fresh, Collecting, Freezing, ParentUp
    <2>9. Owning(e)
        <3>1. \A i \in 1..Len(s) : (i \in 1..Len(q.undo) /\ s[i] = q.undo[i]) \/ s[i] = u
            BY <2>2, UndoPushed
        <3>2. ASSUME NEW i \in 1..Len(s), s[i].kind = "ctr"
              PROVE  Mine(s[i].what, q.id) \/ (q.op = "from" /\ Mine(s[i].what, q.pid))
            <4>1. i \in 1..Len(q.undo) /\ s[i] = q.undo[i]
                BY <2>1, <3>1, <3>2
            <4> QED
                BY <1>1, <3>2, <4>1, Zenon DEF Sane, Owning
        <3> QED
            BY <1>1, <2>7, <3>2, Zenon DEF Sane, Owning, TargetId
    <2> QED
        BY <1>2, <1>5, <2>5, <2>6, <2>8, <2>9, RemovingStep, ZenonT(30) DEF Fine, Sane
<1> QED
    BY <1>1, <1>6, <1>7 DEF MkVol

\* Two records name the same rows, volumes and containers.
Carries(e, q) ==
    /\ e.op = q.op /\ e.id = q.id /\ e.name = q.name /\ e.rw = q.rw /\ e.cid = q.cid
    /\ e.pid = q.pid /\ e.pname = q.pname /\ e.prw = q.prw /\ e.pcid = q.pcid

\* A saga that unwinds still knows what it knew.
LEMMA FailedSane ==
    ASSUME NEW q \in Process, Sane(q), q.pc \notin Fresh \cup Collecting,
           NEW x \in Working \ {"lostown", "lostmark"}, NEW e, e = [q EXCEPT !.pc = x]
    PROVE  e \in Process /\ Sane(e) /\ CidsOf(e) = CidsOf(q)
<1>1. MayGo(q.pc, x)
    BY MayWork DEF Process
<1>2. e \in Process /\ Sane(e)
    BY <1>1, GoSane
<1>3. e.new = q.new /\ e.pnew = q.pnew /\ e.cid = q.cid /\ e.pcid = q.pcid /\ e.undo = q.undo
    BY DEF Process
<1> QED
    BY <1>2, <1>3 DEF CidsOf

\* The new container is one of the process's own.
Takes(next, q, c) ==
    /\ next.new = q.new \/ (next.new = c /\ Mine(c, q.id))
    /\ next.pnew = q.pnew \/ (next.pnew = c /\ Mine(c, TargetId(q)))
    /\ \/ next.undo = q.undo
       \/ /\ next.undo = Append(q.undo, [kind |-> "ctr", what |-> c])
          /\ Mine(c, q.id) \/ (q.op = "from" /\ Mine(c, q.pid))

Reaches(next, q) ==
    /\ q.pc \notin Fresh \cup Collecting /\ next.pc \notin Fresh \cup Collecting
    /\ next.pc \in Freezing => q.pc \in Freezing \ {"plan"}
    /\ next.pc \in ParentUp => next.pnew \in Cids
    /\ next.pc \in {"lostown", "lostmark"} => next.new \in Cids

\* A process that has started container c for one of its rows.
LEMMA StartedSane ==
    ASSUME NEW q \in Process, Sane(q)', NEW c, c \in Cids, NEW next,
           Carries(next, q), next.newrw = q.newrw, Takes(next, q, c)', Reaches(next, q)
    PROVE  Sane(next)'
<1> USE DEF Carries, Takes, Reaches
<1>1. Located(next)'
    BY ZenonT(30) DEF Sane, Located, Fresh, Collecting
<1>2. ASSUME NEW i \in 1..Len(next.undo), next.undo[i].kind = "ctr"
      PROVE  \/ Mine(next.undo[i].what, q.id)'
             \/ q.op = "from" /\ Mine(next.undo[i].what, q.pid)'
    <2>1. CASE next.undo = q.undo
        BY <1>2, <2>1 DEF Sane, Owning
    <2>2. CASE next.undo # q.undo
        <3>1. PICK u \in Entry : u = [kind |-> "ctr", what |-> c]
            BY DEF Entry
        <3>2. (i \in 1..Len(q.undo) /\ next.undo[i] = q.undo[i]) \/ next.undo[i] = u
            BY <2>2, <3>1, UndoPushed
        <3> QED
            BY <1>2, <2>2, <3>1, <3>2 DEF Sane, Owning
    <2> QED
        BY <2>1, <2>2
<1>3. Owning(next)'
    BY <1>2, Zenon DEF Sane, Owning, TargetId
<1> QED
    BY <1>1, <1>3 DEF Sane

\* provision: StartBranch.
LEMMA StartFine == ASSUME EngineInv, NEW p \in Procs, Start(p) PROVE Fine
<1>1. PICK q \in Process : q = proc[p] /\ Sane(q) /\ CidsOf(q) \subseteq KnownCids
    BY Current
<1>2. UNCHANGED regVars /\ q.pc = "start"
    BY <1>1 DEF Start, At
<1>3. "start" \in Labels \ (Fresh \cup Collecting) /\ {"own", "undo"} \subseteq Working \ {"lostown", "lostmark"}
    BY DEF Fresh, Collecting, Labels, Working
<1>4. Is(q.id, q.name, q.rw) /\ q.name \in Names
    <2>1. Is(q.id, q.name, q.rw)
        BY <1>1, <1>2, <1>3 DEF Sane, Located
    <2> QED
        BY <2>1 DEF Is, EngineInv, Rows
<1>5. PICK L \in SUBSET (Vols \cup {None}) : L = VolsOf(q.chain)
    BY VolsOfTyped DEF Process
<1>6. PICK c : c = NewCid(q.name)
    OBVIOUS
<1>7. PICK failed : failed = [q EXCEPT !.pc = "undo"]
    BY Zenon
<1>8. PICK s : s = Append(q.undo, [kind |-> "ctr", what |-> c])
    BY Zenon
<1>9. PICK next : next = [q EXCEPT !.pc = "own", !.new = c, !.undo = s]
    OBVIOUS
<1>10. StartOn(p, q.name, q.id, q.rw, L, TRUE, next, failed)
    BY <1>1, <1>5, <1>6, <1>7, <1>8, <1>9, ZenonT(30) DEF Start, Undo
<1>11. failed \in Process /\ Sane(failed) /\ CidsOf(failed) = CidsOf(q)
    BY <1>1, <1>2, <1>3, <1>7, FailedSane
<1>12. ASSUME c \in Cids, OwnersStay(KnownCids \cup {None}), Mine(c, q.id)'
       PROVE  next \in Process /\ Sane(next)'
    <2>1. s \in Seq(Entry)
        <3>1. [kind |-> "ctr", what |-> c] \in Entry
            BY <1>12 DEF Entry
        <3> QED
            BY <1>8, <3>1, UndoPushed, ZenonT(30)
    <2>2. next \in Process
        <3>1. "own" \in Labels /\ c \in Cids \cup {None}
            BY <1>12 DEF Labels, Working
        <3> QED
            BY <1>9, <2>1, <3>1, ZenonT(60) DEF Process
    <2>3. /\ next.pc = "own" /\ next.op = q.op /\ next.id = q.id /\ next.name = q.name
          /\ next.rw = q.rw /\ next.cid = q.cid /\ next.pid = q.pid /\ next.pname = q.pname
          /\ next.prw = q.prw /\ next.pcid = q.pcid /\ next.newrw = q.newrw /\ next.new = c
          /\ next.pnew = q.pnew /\ next.undo = s
        BY <1>9 DEF Process
    <2>4. Sane(q)'
        <3>1. RowsStay
            BY <1>2 DEF RowsStay, Exists, regVars
        <3> QED
            BY <1>1, <1>12, <3>1, SaneStays
    <2>5. Carries(next, q) /\ Takes(next, q, c)'
        <3>1. Carries(next, q)
            BY <2>3 DEF Carries
        <3>2. next.undo = Append(q.undo, [kind |-> "ctr", what |-> c])
            BY <1>8, <2>3
        <3>3. Takes(next, q, c)'
            BY <1>12, <2>3, <3>2, ZenonT(30) DEF Takes
        <3> QED
            BY <3>1, <3>3
    <2>6. Reaches(next, q)
        BY <1>2, <1>3, <2>3 DEF Reaches, Fresh, Collecting, Freezing, ParentUp
    <2> QED
        BY <1>12, <2>2, <2>3, <2>4, <2>5, <2>6, StartedSane
<1> QED
    BY <1>1, <1>2, <1>4, <1>6, <1>10, <1>11, <1>12, StartingStep, ZenonT(30) DEF Fine

\* A saga records its container before the wait, and marks its row after it.
LEMMA OwnFine == ASSUME EngineInv, NEW p \in Procs, Own(p) \/ Mark(p) PROVE Fine
<1>1. PICK q \in Process : q = proc[p] /\ Sane(q)
    BY Current
<1>2. UNCHANGED world /\ q.pc \in {"own", "mark"}
    BY <1>1 DEF Own, Mark, At, OnlyRegistry
<1>3. {"own", "mark"} \subseteq Labels \ (Fresh \cup Collecting) /\ {"mark", "undo"} \subseteq Working \ {"lostown", "lostmark"}
    BY DEF Fresh, Collecting, Labels, Working
<1>4. q.id \in RowIds /\ Mine(q.new, q.id) /\ q.new \in Cids \cup {None}
    BY <1>1, <1>2, <1>3, Zenon DEF Sane, Located, Owning, Is, Process
<1>5. RegistryTypeOK
    BY DEF EngineInv, LayersInv
<1>6. MayGo(q.pc, "mark") /\ MayGo(q.pc, "undo")
    BY <1>2, <1>3, MayWork
<1>7. CASE Own(p)
    <2>1. KeepsRows(q.id, q.new) /\ RegistryNext
        BY <1>1, <1>4, <1>5, <1>7, MethodsRecord DEF Own
    <2> QED
        BY <1>1, <1>2, <1>4, <1>6, <1>7, <2>1, GoKeeping, ZenonT(30) DEF Own
<1>8. CASE Mark(p) /\ MarkBranchReady(q.id, q.new) /\ End(p)
    <2>1. KeepsRows(q.id, q.new) /\ RegistryNext
        BY <1>4, <1>5, <1>8, MethodsRecord
    <2> QED
        BY <1>2, <1>4, <1>8, <2>1, EndKeeping
<1>9. CASE Go(p, "undo") /\ UNCHANGED regVars
    BY <1>1, <1>2, <1>6, <1>9, GoStep DEF world, EngineInv
<1> QED
    BY <1>1, <1>7, <1>8, <1>9 DEF Mark

\* One compensation.
LEMMA UndoStepFine == ASSUME EngineInv, NEW p \in Procs, UndoStep(p) PROVE Fine
<1>1. PICK q \in Process : q = proc[p] /\ Sane(q)
    BY Current
<1>2. q.pc = "undo" /\ q.undo # << >> /\ q.undo \in Seq(Entry)
    BY <1>1 DEF UndoStep, At, Process
<1>3. PICK u \in Entry : u = q.undo[Len(q.undo)]
    BY <1>2
<1>4. PICK s \in Seq(Entry) :
          /\ s = SubSeq(q.undo, 1, Len(q.undo) - 1)
          /\ \A i \in 1..Len(s) : i \in 1..Len(q.undo) /\ s[i] = q.undo[i]
    <2>1. PICK n \in Nat : n + 1 = Len(q.undo)
        <3>1. Len(q.undo) \in Nat /\ Len(q.undo) # 0
            BY <1>2
        <3> QED
            BY <3>1
    <2>2. PICK s : s = SubSeq(q.undo, 1, n)
        BY Zenon
    <2>3. s \in Seq(Entry) /\ Len(s) = n /\ \A i \in 1..n : s[i] = q.undo[i]
        BY <1>2, <2>1, <2>2
    <2>4. n = Len(q.undo) - 1 /\ \A i \in 1..n : i \in 1..Len(q.undo)
        BY <1>2, <2>1
    <2> QED
        BY <2>2, <2>3, <2>4, Zenon
<1>5. PICK e : e = [q EXCEPT !.undo = s]
    BY ZenonT(30)
<1>6. proc' = [proc EXCEPT ![p] = e]
    BY <1>1, <1>4, <1>5 DEF UndoStep, GoWith
<1>7. e \in Process
    BY <1>5 DEF Process
<1>8. /\ e.pc = q.pc /\ e.op = q.op /\ e.id = q.id /\ e.name = q.name /\ e.rw = q.rw
      /\ e.cid = q.cid /\ e.pid = q.pid /\ e.pname = q.pname /\ e.prw = q.prw
      /\ e.pcid = q.pcid /\ e.newrw = q.newrw /\ e.new = q.new /\ e.pnew = q.pnew
      /\ e.undo = s
    BY <1>5 DEF Process
<1>9. Located(e)
    BY <1>1, <1>2, <1>8, Zenon DEF Sane, Located, Fresh
<1>10. Owning(e)
    <2>1. ASSUME NEW i \in 1..Len(e.undo), e.undo[i].kind = "ctr"
          PROVE  \/ Mine(e.undo[i].what, e.id)
                 \/ e.op = "from" /\ Mine(e.undo[i].what, e.pid)
        <3>1. i \in 1..Len(q.undo) /\ e.undo[i] = q.undo[i]
            BY <1>4, <1>8, Zenon
        <3> QED
            BY <1>1, <1>8, <2>1, <3>1, Zenon DEF Sane, Owning
    <2> QED
        BY <1>1, <1>8, <2>1, Zenon DEF Sane, Owning, TargetId
<1>11. CASE UNCHANGED regVars
    <2>1. vols' \in [Vols -> RowIds \cup {None, "bare", "blank"}]
        BY DEF UndoStep, EngineInv, Removed, world
    <2>2. ctrs' \subseteq ctrs
        BY DEF UndoStep, Stopped, world
    <2> QED
        BY <1>6, <1>7, <1>9, <1>10, <1>11, <2>1, <2>2, RemovingStep, ZenonT(30) DEF Fine, Sane
<1>12. CASE u.kind = "claim" /\ SetBranchPendingVolume(u.what, None) /\ UNCHANGED world
    <2>1. u.what \in RowIds
        BY <1>3, <1>12, Zenon DEF Entry
    <2>2. KeepsRows(u.what, None) /\ RegistryNext
        BY <1>12, <2>1, MethodsKeep DEF EngineInv, LayersInv
    <2> QED
        BY <1>6, <1>7, <1>9, <1>10, <1>12, <2>1, <2>2, KeepingStep, NobodysMine, ZenonT(30) DEF Fine, Sane
<1> QED
    BY <1>1, <1>3, <1>11, <1>12 DEF UndoStep, world

\* The stack is empty, and the saga fails its row.
LEMMA MarkFailedFine == ASSUME EngineInv, NEW p \in Procs, Undone(p) \/ MarkFailed(p) PROVE Fine
<1>1. PICK q \in Process : q = proc[p] /\ Sane(q)
    BY Current
<1>2. {"undo", "markfailed"} \subseteq Labels \ (Fresh \cup Collecting)
    BY DEF Fresh, Collecting, Labels, Working
<1>3. CASE Undone(p)
    <2>1. PICK x \in {"restart", "markfailed"} : Go(p, x)
        BY <1>3, Zenon DEF Undone
    <2>2. MayGo(q.pc, x)
        BY <1>1, <1>2, <1>3, MayWork DEF Undone, At, Working
    <2> QED
        BY <1>1, <1>3, <2>1, <2>2, GoStep, ZenonT(30) DEF Undone, OnlyLocal, world, EngineInv
<1>4. CASE MarkFailed(p)
    <2>1. q.id \in RowIds /\ UNCHANGED world /\ End(p)
        BY <1>1, <1>2, <1>4, Zenon DEF MarkFailed, At, OnlyRegistry, Sane, Located, Is
    <2>2. CASE TransitionBranch(q.id, "failed")
        <3>1. KeepsRows(q.id, None) /\ RegistryNext
            BY <2>1, <2>2, MethodsKeep DEF EngineInv, LayersInv, States
        <3> QED
            BY <2>1, <3>1, EndKeeping, NobodysMine
    <2>3. CASE UNCHANGED regVars
        BY <2>1, <2>3, EndStep DEF world, EngineInv
    <2> QED
        BY <1>1, <1>4, <2>2, <2>3 DEF MarkFailed, BestEffort
<1> QED
    BY <1>3, <1>4

\* What a process knows while it works for a row ...
LEMMA WorkRead ==
    ASSUME EngineInv, NEW q \in Process, Sane(q), q.pc \in Working
    PROVE  /\ q.pc \in Labels \ (Fresh \cup Collecting)
           /\ Is(q.id, q.name, q.rw) /\ q.name \in Names /\ q.id \in RowIds
<1>1. q.pc \notin Fresh \cup Collecting /\ q.pc \in Labels
    BY DEF Working, Fresh, Collecting, Labels
<1>2. Is(q.id, q.name, q.rw)
    BY <1>1 DEF Sane, Located
<1> QED
    BY <1>1, <1>2 DEF Is, EngineInv, Rows

\* ... and while it freezes a parent for it.
LEMMA ParentRead ==
    ASSUME EngineInv, NEW q \in Process, Sane(q), q.op = "from"
    PROVE  Is(q.pid, q.pname, q.prw) /\ q.pname \in Names /\ q.pid \in RowIds
<1>1. Is(q.pid, q.pname, q.prw)
    BY DEF Sane, Located
<1> QED
    BY <1>1 DEF Is, EngineInv, Rows

\* All that a process relies on inside the freeze saga.
LEMMA FreezeRead ==
    ASSUME EngineInv, NEW q \in Process, Sane(q), q.pc \in Freezing
    PROVE  /\ q.pc \in Labels \ (Fresh \cup Collecting)
           /\ Is(q.id, q.name, q.rw) /\ q.name \in Names /\ q.id \in RowIds
           /\ Is(q.pid, q.pname, q.prw) /\ q.pname \in Names /\ q.pid \in RowIds
           /\ q.op = "from"
           /\ q.pc # "plan" => Is(q.pid, q.pname, q.newrw)
<1>1. q.pc \notin Fresh \cup Collecting /\ q.pc \in Labels
    BY DEF Freezing, Fresh, Collecting, Labels
<1>2. Is(q.id, q.name, q.rw) /\ q.op = "from"
    BY <1>1, Zenon DEF Sane, Located
<1>3. Is(q.pid, q.pname, q.prw) /\ q.pname \in Names /\ q.pid \in RowIds
    BY <1>2, ParentRead
<1>4. q.pc # "plan" => Is(q.pid, q.pname, q.newrw)
    BY <1>3 DEF Sane, Located, Is
<1> QED
    BY <1>1, <1>2, <1>3, <1>4, ZenonT(30) DEF Is, EngineInv, Rows

\* freshBranchLayer returns a generation of the name it was asked for.
LEMMA FreshLayerNamed ==
    ASSUME NEW n \in Names, NEW g \in Nat, g >= 1, FreshGens(n, g) # {}
    PROVE  FreshLayer(n, g) \in Vols /\ FreshLayer(n, g)[1] = n
<1> DEFINE G == FreshGens(n, g)
<1>1. G \subseteq 1..MaxGen /\ G \in SUBSET Nat
    BY RegistryAssumption DEF FreshGens
<1>2. \E k \in G : \A j \in G : k <= j
    BY <1>1, LeastNumber
<1>3. PICK x : x = CHOOSE k \in G : \A j \in G : k <= j
    OBVIOUS
<1>4. FreshLayer(n, g) = <<n, x>>
    BY <1>3 DEF FreshLayer
<1> HIDE DEF G
<1>5. x \in G
    BY <1>2, <1>3
<1> QED
    BY <1>1, <1>4, <1>5 DEF Vols

\* Choosing the parent's new volume.
LEMMA FreezePlanFine == ASSUME EngineInv, NEW p \in Procs, FreezePlan(p) PROVE Fine
<1>1. PICK q \in Process : q = proc[p] /\ Sane(q)
    BY Current
<1>2. UNCHANGED <<regVars, vols, ctrs>> /\ q.pc = "plan" /\ q.pc \in Freezing
    BY <1>1 DEF FreezePlan, At, OnlyLocal, world, Freezing
<1>3. /\ q.pc \in Labels \ (Fresh \cup Collecting) /\ q.op = "from" /\ q.pid \in RowIds
      /\ Is(q.id, q.name, q.rw) /\ Is(q.pid, q.pname, q.prw) /\ q.pname \in Names
    BY <1>1, <1>2, FreezeRead
<1>4. CASE Go(p, "markfailed")
    <2>1. MayGo(q.pc, "markfailed")
        BY <1>3, MayWork DEF Working
    <2> QED
        BY <1>1, <1>2, <1>4, <2>1, GoStep DEF EngineInv
<1>5. CASE ~Go(p, "markfailed")
    <2>1. PICK ch \in Seq(LayerIds) : ch = LayerChain(q.pid)
        BY <1>3, ChainTyped
    <2>2. PICK g \in Nat : g = Len(LayerChain(q.pid)) + 2 /\ g >= 1
        BY <2>1
    <2>3. FreshGens(q.pname, g) # {}
        BY <1>1, <1>5, <2>2 DEF FreezePlan
    <2>4. PICK v : v = FreshLayer(q.pname, g) /\ v \in Vols /\ v[1] = q.pname
        BY <1>3, <2>2, <2>3, FreshLayerNamed
    <2>5. PICK e : e = [q EXCEPT !.pc = "freeze", !.chain = ch, !.newrw = v]
        OBVIOUS
    <2>6. proc' = [proc EXCEPT ![p] = e]
        BY <1>1, <1>5, <2>1, <2>2, <2>4, <2>5 DEF FreezePlan, GoWith
    <2>7. e \in Process
        <3>1. "freeze" \in Labels /\ v \in Vols \cup {None}
            BY <2>4 DEF Labels, Freezing
        <3> QED
            BY <2>5, <3>1, ZenonT(60) DEF Process
    <2>8. /\ e.pc = "freeze" /\ e.op = q.op /\ e.id = q.id /\ e.name = q.name /\ e.rw = q.rw
          /\ e.cid = q.cid /\ e.pid = q.pid /\ e.pname = q.pname /\ e.prw = q.prw
          /\ e.pcid = q.pcid /\ e.newrw = v /\ e.new = q.new /\ e.pnew = q.pnew
          /\ e.undo = q.undo
        BY <2>5 DEF Process
    <2>9. Located(e)
        BY <1>3, <2>4, <2>8, Zenon DEF Located, Fresh, Collecting, Freezing, ParentUp
    <2>10. Owning(e)
        BY <1>1, <2>8, Zenon DEF Sane, Owning, TargetId
    <2> QED
        BY <1>2, <2>6, <2>7, <2>9, <2>10, RemovingStep, ZenonT(30) DEF Fine, Sane, EngineInv
<1> QED
    BY <1>4, <1>5

\* The freeze's calls that write no container column.
LEMMA FreezeFine ==
    ASSUME EngineInv, NEW p \in Procs,
           Freeze(p) \/ Unfreeze(p) \/ TouchParent(p) \/ TouchChild(p)
    PROVE  Fine
<1>1. PICK q \in Process : q = proc[p] /\ Sane(q)
    BY Current
<1>2. UNCHANGED world /\ q.pc \in {"freeze", "unfreeze", "touchparent", "touchchild"}
    BY <1>1, Zenon DEF Freeze, Unfreeze, TouchParent, TouchChild, At, OnlyRegistry
<1>3. q.pc \in Freezing /\ q.pc # "plan"
    BY <1>2 DEF Freezing
<1>4. q.pc \in Labels \ (Fresh \cup Collecting) /\ q.pid \in RowIds /\ q.id \in RowIds
    BY <1>1, <1>3, FreezeRead, Zenon
<1>5. MayGo(q.pc, "undo") /\ MayGo(q.pc, "markfailed")
    BY <1>4, MayWork DEF Working
<1>6. MayGo(q.pc, "stopparent")
    BY <1>3, MayFreeze DEF Freezing, ParentUp
<1>7. q.pc \in ParentUp => MayGo(q.pc, "touchchild") /\ MayGo(q.pc, "mkchild")
    BY <1>3, MayFreeze DEF Freezing, ParentUp
<1>8. RegistryTypeOK
    BY DEF EngineInv, LayersInv
<1>9. ASSUME NEW x \in {"undo", "markfailed"}, Go(p, x), UNCHANGED regVars PROVE Fine
    BY <1>1, <1>2, <1>5, <1>9, GoStep DEF world, EngineInv
<1>10. CASE Freeze(p)
    <2>1. ASSUME TransitionBranch(q.pid, "resetting"), Go(p, "stopparent") PROVE Fine
        <3>1. KeepsRows(q.pid, None) /\ RegistryNext
            BY <1>4, <1>8, <2>1, MethodsKeep, ZenonT(30) DEF States
        <3> QED
            BY <1>1, <1>2, <1>4, <1>6, <2>1, <3>1, GoKeeping, NobodysMine, ZenonT(30)
    <2> QED
        BY <1>1, <1>9, <1>10, <2>1 DEF Freeze
<1>11. CASE Unfreeze(p)
    <2>1. ASSUME TransitionBranch(q.pid, "ready"), Go(p, "markfailed") PROVE Fine
        <3>1. KeepsRows(q.pid, None) /\ RegistryNext
            BY <1>4, <1>8, <2>1, MethodsKeep DEF States
        <3> QED
            BY <1>1, <1>2, <1>4, <1>5, <2>1, <3>1, GoKeeping, NobodysMine, ZenonT(30)
    <2> QED
        BY <1>1, <1>9, <1>11, <2>1 DEF Unfreeze, BestEffort
<1>12. CASE TouchParent(p)
    <2>1. ASSUME TouchBranch(q.pid), Go(p, "touchchild") PROVE Fine
        <3>1. KeepsRows(q.pid, None) /\ RegistryNext
            BY <1>4, <1>8, <2>1, MethodsKeep, Zenon
        <3>2. q.pc \in ParentUp
            BY <1>1, <1>12, Zenon DEF TouchParent, At, ParentUp
        <3> QED
            BY <1>1, <1>2, <1>4, <1>7, <2>1, <3>1, <3>2, GoKeeping, NobodysMine, Zenon
    <2> QED
        BY <1>1, <1>9, <1>12, <2>1 DEF TouchParent
<1>13. CASE TouchChild(p)
    <2>1. KeepsRows(q.id, None) /\ RegistryNext
        BY <1>1, <1>4, <1>8, <1>13, MethodsKeep, ZenonT(30) DEF TouchChild
    <2>2. q.pc \in ParentUp
        BY <1>1, <1>13 DEF TouchChild, At, ParentUp
    <2> QED
        BY <1>1, <1>2, <1>4, <1>7, <1>13, <2>1, <2>2, GoKeeping, NobodysMine, ZenonT(30) DEF TouchChild
<1> QED
    BY <1>10, <1>11, <1>12, <1>13

\* Stopping the parent's container.
LEMMA StopParentFine == ASSUME EngineInv, NEW p \in Procs, StopParent(p) PROVE Fine
<1>1. PICK q \in Process : q = proc[p] /\ Sane(q)
    BY Current
<1>2. /\ UNCHANGED <<regVars, vols>> /\ q.pc = "stopparent" /\ q.pc \in Freezing /\ q.pc # "plan"
      /\ ctrs' \subseteq ctrs
    BY <1>1 DEF StopParent, At, Freezing, Stopped
<1>3. q.pc \in Labels \ (Fresh \cup Collecting)
    BY <1>1, <1>2, FreezeRead
<1>4. MayGo(q.pc, "failtarget") /\ MayGo(q.pc, "claim") /\ MayGo(q.pc, "unfreeze")
    BY <1>2, <1>3, MayWork, MayFreeze DEF Working, Freezing, ParentUp
<1>5. PICK x \in {"failtarget", "claim", "unfreeze"} : Go(p, x)
    BY DEF StopParent
<1> QED
    BY <1>1, <1>2, <1>4, <1>5, GoStep DEF EngineInv

\* A process may take on any list of compensations.
LEMMA PushTyped ==
    ASSUME NEW q \in Process, NEW x, x \in Labels, NEW s, s \in Seq(Entry)
    PROVE  [q EXCEPT !.pc = x, !.undo = s] \in Process
BY ZenonT(60) DEF Process

\* A compensation that is no container's.
LEMMA PushSane ==
    ASSUME NEW q \in Process, Sane(q), NEW x, MayGo(q.pc, x), NEW u \in Entry, u.kind # "ctr",
           NEW s, s = Append(q.undo, u), NEW e, e = [q EXCEPT !.pc = x, !.undo = s],
           q.pc \notin Fresh
    PROVE  e \in Process /\ Sane(e)
<1>1. e \in Process
    <2>1. s \in Seq(Entry) /\ x \in Labels
        BY UndoPushed, Zenon DEF MayGo
    <2> QED
        BY <2>1, PushTyped, Zenon
<1>2. /\ e.pc = x /\ e.op = q.op /\ e.id = q.id /\ e.name = q.name /\ e.rw = q.rw
      /\ e.cid = q.cid /\ e.pid = q.pid /\ e.pname = q.pname /\ e.prw = q.prw
      /\ e.pcid = q.pcid /\ e.newrw = q.newrw /\ e.new = q.new /\ e.pnew = q.pnew
      /\ e.undo = s /\ e.chain = q.chain
    BY DEF Process
<1>3. Located(e)
    BY <1>2 DEF Sane, Located, MayGo
<1>4. Owning(e)
    <2>1. \A i \in 1..Len(s) : (i \in 1..Len(q.undo) /\ s[i] = q.undo[i]) \/ s[i] = u
        BY UndoPushed
    <2>2. ASSUME NEW i \in 1..Len(s), s[i].kind = "ctr"
          PROVE  Mine(s[i].what, q.id) \/ (q.op = "from" /\ Mine(s[i].what, q.pid))
        <3>1. i \in 1..Len(q.undo) /\ s[i] = q.undo[i]
            BY <2>1, <2>2
        <3> QED
            BY <2>2, <3>1, Zenon DEF Sane, Owning
    <2> QED
        BY <1>2, <2>2, Zenon DEF Sane, Owning, TargetId
<1> QED
    BY <1>1, <1>3, <1>4 DEF Sane

\* Recording the volume name before the volume is made.
LEMMA ClaimFine == ASSUME EngineInv, NEW p \in Procs, Claim(p) PROVE Fine
<1>1. PICK q \in Process : q = proc[p] /\ Sane(q)
    BY Current
<1>2. UNCHANGED world /\ q.pc = "claim" /\ q.pc \in Freezing /\ q.pc # "plan"
    BY <1>1 DEF Claim, At, OnlyRegistry, Freezing
<1>3. q.pc \in Labels \ (Fresh \cup Collecting) /\ q.pid \in RowIds /\ Is(q.pid, q.pname, q.newrw)
    BY <1>1, <1>2, FreezeRead
<1>4. MayGo(q.pc, "mknew")
    BY <1>2, MayFreeze DEF Freezing, ParentUp
<1>5a. [kind |-> "claim", what |-> q.pid] \in Entry
    BY <1>3 DEF Entry
<1>5. PICK u \in Entry : u = [kind |-> "claim", what |-> q.pid] /\ u.kind # "ctr"
    BY <1>5a
<1>6. PICK s : s = Append(q.undo, u)
    BY Zenon
<1>7. PICK e : e = [q EXCEPT !.pc = "mknew", !.undo = s]
    OBVIOUS
<1>8. e \in Process /\ Sane(e)
    BY <1>1, <1>3, <1>4, <1>5, <1>6, <1>7, PushSane, ZenonT(30)
<1>9. proc' = [proc EXCEPT ![p] = e] /\ SetBranchPendingVolume(q.pid, q.newrw)
    BY <1>1, <1>5, <1>6, <1>7 DEF Claim, GoWith, Undo
<1>10. KeepsRows(q.pid, None) /\ RegistryNext
    BY <1>3, <1>9, MethodsKeep, ZenonT(30) DEF EngineInv, LayersInv, Is
<1> QED
    BY <1>2, <1>3, <1>8, <1>9, <1>10, KeepingStep, NobodysMine, ZenonT(30) DEF Fine

\* Making the parent's new volume.
LEMMA MkFreezeVolFine == ASSUME EngineInv, NEW p \in Procs, MkFreezeVol(p) PROVE Fine
<1>1. PICK q \in Process : q = proc[p] /\ Sane(q)
    BY Current
<1>2. /\ UNCHANGED <<regVars, ctrs>> /\ q.pc \in {"mknew", "mkchild"}
      /\ q.pc \in Freezing /\ q.pc # "plan"
    BY <1>1 DEF MkFreezeVol, Freezing
<1>3. /\ q.pc \in Labels \ (Fresh \cup Collecting) /\ Is(q.pid, q.pname, q.newrw)
      /\ Is(q.id, q.name, q.rw)
    BY <1>1, <1>2, FreezeRead
<1>4. PICK v \in Vols : v = IF At(p, "mknew") THEN q.newrw ELSE q.rw
    BY <1>3 DEF Is
<1>5. PICK id \in RowIds : id = IF At(p, "mknew") THEN q.pid ELSE q.id
    BY <1>3 DEF Is
<1>6. vols' \in [Vols -> RowIds \cup {None, "bare", "blank"}]
    <2>1. vols' \in {vols, Created(v, id)}
        BY <1>1, <1>4, <1>5 DEF MkFreezeVol
    <2> QED
        BY <2>1, VolsTyped DEF EngineInv
<1>7. CASE Go(p, "undo")
    <2>1. MayGo(q.pc, "undo")
        BY <1>3, MayWork DEF Working
    <2> QED
        BY <1>1, <1>2, <1>6, <1>7, <2>1, GoStep, ZenonT(30)
<1>8. CASE ~Go(p, "undo")
    <2>1a. [kind |-> "vol", what |-> v] \in Entry
        BY DEF Entry
    <2>1. PICK u \in Entry : u = [kind |-> "vol", what |-> v] /\ u.kind # "ctr"
        BY <2>1a
    <2>2. PICK s : s = Append(q.undo, u)
        BY Zenon
    <2>3. PICK x \in {"startparent", "startchild"} :
              x = IF At(p, "mknew") THEN "startparent" ELSE "startchild"
        OBVIOUS
    <2>4. MayGo(q.pc, x)
        BY <1>1, <1>2, <2>3, MayFreeze DEF Freezing, ParentUp, At
    <2>5. PICK e : e = [q EXCEPT !.undo = s, !.pc = x]
        OBVIOUS
    <2>6. proc' = [proc EXCEPT ![p] = e]
        BY <1>1, <1>4, <1>8, <2>1, <2>2, <2>3, <2>5 DEF MkFreezeVol, GoWith, Undo
    <2>7. e = [q EXCEPT !.pc = x, !.undo = s]
        BY <2>5, ZenonT(60) DEF Process
    <2>8. e \in Process /\ Sane(e)
        BY <1>1, <1>3, <2>1, <2>2, <2>4, <2>7, PushSane, Zenon
    <2> QED
        BY <1>2, <1>6, <2>6, <2>8, RemovingStep, Zenon DEF Fine
<1> QED
    BY <1>7, <1>8

\* The freeze's calls that record a container.
LEMMA FreezeOwnFine ==
    ASSUME EngineInv, NEW p \in Procs, OwnParent(p) \/ OwnChild(p) \/ MarkChild(p)
    PROVE  Fine
<1>1. PICK q \in Process : q = proc[p] /\ Sane(q)
    BY Current
<1>2. UNCHANGED world /\ q.pc \in {"ownparent", "ownchild", "markchild"}
    BY <1>1 DEF OwnParent, OwnChild, MarkChild, At, OnlyRegistry
<1>3. q.pc \in Freezing /\ q.pc # "plan"
    BY <1>2 DEF Freezing
<1>4. /\ q.pc \in Labels \ (Fresh \cup Collecting) /\ q.pid \in RowIds /\ q.id \in RowIds
      /\ q.op = "from"
    BY <1>1, <1>3, FreezeRead
<1>5. /\ Mine(q.new, q.id) /\ Mine(q.pnew, q.pid)
      /\ q.new \in Cids \cup {None} /\ q.pnew \in Cids \cup {None}
    BY <1>1, <1>4, Zenon DEF Sane, Owning, TargetId, Process
<1>6. RegistryTypeOK
    BY DEF EngineInv, LayersInv
<1>7. CASE OwnParent(p)
    <2>1. KeepsRows(q.pid, q.pnew) /\ RegistryNext
        BY <1>1, <1>4, <1>5, <1>6, <1>7, MethodsRecord, Zenon DEF OwnParent
    <2>2. MayGo(q.pc, "touchparent")
        <3>1. q.pc = "ownparent"
            BY <1>1, <1>7, Zenon DEF OwnParent, At
        <3>2. /\ "touchparent" \in Freezing \ {"plan"}
              /\ "touchparent" \in ParentUp => "ownparent" \in ParentUp
            BY DEF Freezing, ParentUp
        <3> QED
            BY <1>3, <3>1, <3>2, MayFreeze, Zenon
    <2> QED
        BY <1>1, <1>2, <1>4, <1>5, <1>7, <2>1, <2>2, GoKeeping, Zenon DEF OwnParent
<1>8. CASE OwnChild(p)
    <2>1. KeepsRows(q.id, q.new) /\ RegistryNext
        BY <1>1, <1>4, <1>5, <1>6, <1>8, MethodsRecord, Zenon DEF OwnChild
    <2>2. MayGo(q.pc, "commit")
        <3>1. q.pc = "ownchild"
            BY <1>1, <1>8, Zenon DEF OwnChild, At
        <3>2. /\ "commit" \in Freezing \ {"plan"}
              /\ "commit" \in ParentUp => "ownchild" \in ParentUp
            BY DEF Freezing, ParentUp
        <3> QED
            BY <1>3, <3>1, <3>2, MayFreeze, Zenon
    <2> QED
        BY <1>1, <1>2, <1>4, <1>5, <1>8, <2>1, <2>2, GoKeeping, Zenon DEF OwnChild
<1>9. CASE MarkChild(p) /\ MarkBranchReady(q.id, q.new) /\ End(p)
    <2>1. KeepsRows(q.id, q.new) /\ RegistryNext
        BY <1>4, <1>5, <1>6, <1>9, MethodsRecord, Zenon
    <2> QED
        BY <1>2, <1>4, <1>5, <1>9, <2>1, EndKeeping, ZenonT(30)
<1>10. CASE Go(p, "markfailed") /\ UNCHANGED regVars
    <2>1. MayGo(q.pc, "markfailed")
        BY <1>4, MayWork DEF Working
    <2> QED
        BY <1>1, <1>2, <1>10, <2>1, GoStep DEF world, EngineInv
<1> QED
    BY <1>1, <1>7, <1>8, <1>9, <1>10 DEF MarkChild

\* The parent restarts on its new volume.
LEMMA StartParentFine == ASSUME EngineInv, NEW p \in Procs, StartParent(p) PROVE Fine
<1>1. PICK q \in Process : q = proc[p] /\ Sane(q) /\ CidsOf(q) \subseteq KnownCids
    BY Current
<1>2. UNCHANGED regVars /\ q.pc = "startparent" /\ q.pc \in Freezing /\ q.pc # "plan"
    BY <1>1 DEF StartParent, At, Freezing
<1>3. /\ q.pc \in Labels \ (Fresh \cup Collecting) /\ q.op = "from"
      /\ Is(q.pid, q.pname, q.newrw) /\ Is(q.pid, q.pname, q.prw) /\ q.pname \in Names
    BY <1>1, <1>2, FreezeRead
<1>4. PICK L \in SUBSET (Vols \cup {None}) : L = Frozen(q)
    BY <1>3, VolsOfTyped, Zenon DEF Process, Frozen, Is
<1>5. PICK c : c = NewCid(q.pname)
    OBVIOUS
<1>6. PICK failed : failed = [q EXCEPT !.pc = "undo"]
    BY Zenon
<1>7. PICK s : s = Append(q.undo, [kind |-> "ctr", what |-> c])
    BY Zenon
<1>8. PICK next : next = [q EXCEPT !.pc = "ownparent", !.pnew = c, !.undo = s]
    OBVIOUS
<1>9. StartOn(p, q.pname, q.pid, q.newrw, L, TRUE, next, failed)
    BY <1>1, <1>4, <1>5, <1>6, <1>7, <1>8, ZenonT(30) DEF StartParent, Undo
<1>10. failed \in Process /\ Sane(failed) /\ CidsOf(failed) = CidsOf(q)
    BY <1>1, <1>3, <1>6, FailedSane DEF Working
<1>11. ASSUME c \in Cids, OwnersStay(KnownCids \cup {None}), Mine(c, q.pid)'
       PROVE  next \in Process /\ Sane(next)'
    <2>1. s \in Seq(Entry)
        <3>1. [kind |-> "ctr", what |-> c] \in Entry
            BY <1>11, Zenon DEF Entry
        <3> QED
            BY <1>7, <3>1, UndoPushed, Zenon
    <2>2. next \in Process
        <3>1. "ownparent" \in Labels /\ c \in Cids \cup {None}
            BY <1>11 DEF Labels, Freezing
        <3> QED
            BY <1>8, <2>1, <3>1, ZenonT(60) DEF Process
    <2>3. /\ next.pc = "ownparent" /\ next.op = q.op /\ next.id = q.id /\ next.name = q.name
          /\ next.rw = q.rw /\ next.cid = q.cid /\ next.pid = q.pid /\ next.pname = q.pname
          /\ next.prw = q.prw /\ next.pcid = q.pcid /\ next.newrw = q.newrw /\ next.new = q.new
          /\ next.pnew = c /\ next.undo = s
        BY <1>8 DEF Process
    <2>4. Sane(q)'
        <3>1. RowsStay
            BY <1>2 DEF RowsStay, Exists, regVars
        <3> QED
            BY <1>1, <1>11, <3>1, SaneStays
    <2>5. Carries(next, q) /\ Takes(next, q, c)'
        BY <1>3, <1>7, <1>11, <2>3, ZenonT(30) DEF Carries, Takes, TargetId
    <2>6. Reaches(next, q)
        BY <1>2, <1>3, <1>11, <2>3, Zenon DEF Reaches, Fresh, Collecting
    <2> QED
        BY <1>11, <2>2, <2>3, <2>4, <2>5, <2>6, StartedSane, ZenonT(30)
<1> QED
    BY <1>1, <1>2, <1>3, <1>5, <1>9, <1>10, <1>11, StartingStep, Zenon DEF Fine

\* The child starts on the frozen stack.
LEMMA StartChildFine == ASSUME EngineInv, NEW p \in Procs, StartChild(p) PROVE Fine
<1>1. PICK q \in Process : q = proc[p] /\ Sane(q) /\ CidsOf(q) \subseteq KnownCids
    BY Current
<1>2. UNCHANGED regVars /\ q.pc = "startchild" /\ q.pc \in Freezing /\ q.pc # "plan"
    BY <1>1 DEF StartChild, At, Freezing
<1>3. /\ q.pc \in Labels \ (Fresh \cup Collecting) /\ q.op = "from"
      /\ Is(q.id, q.name, q.rw) /\ Is(q.pid, q.pname, q.prw) /\ q.name \in Names
    BY <1>1, <1>2, FreezeRead, Zenon
<1>4. PICK L \in SUBSET (Vols \cup {None}) : L = Frozen(q)
    BY <1>3, VolsOfTyped, Zenon DEF Process, Frozen, Is
<1>5. PICK c : c = NewCid(q.name)
    OBVIOUS
<1>6. PICK failed : failed = [q EXCEPT !.pc = "undo"]
    BY Zenon
<1>7. PICK s : s = Append(q.undo, [kind |-> "ctr", what |-> c])
    BY Zenon
<1>8. PICK next : next = [q EXCEPT !.pc = "ownchild", !.new = c, !.undo = s]
    OBVIOUS
<1>9. StartOn(p, q.name, q.id, q.rw, L, TRUE, next, failed)
    BY <1>1, <1>4, <1>5, <1>6, <1>7, <1>8, ZenonT(30) DEF StartChild, Undo
<1>10. failed \in Process /\ Sane(failed) /\ CidsOf(failed) = CidsOf(q)
    BY <1>1, <1>3, <1>6, FailedSane DEF Working
<1>11. ASSUME c \in Cids, OwnersStay(KnownCids \cup {None}), Mine(c, q.id)'
       PROVE  next \in Process /\ Sane(next)'
    <2>1. s \in Seq(Entry)
        <3>1. [kind |-> "ctr", what |-> c] \in Entry
            BY <1>11 DEF Entry
        <3> QED
            BY <1>7, <3>1, UndoPushed, Zenon
    <2>2. next \in Process
        <3>1. "ownchild" \in Labels /\ c \in Cids \cup {None}
            BY <1>11 DEF Labels, Freezing
        <3> QED
            BY <1>8, <2>1, <3>1, ZenonT(60) DEF Process
    <2>3. /\ next.pc = "ownchild" /\ next.op = q.op /\ next.id = q.id /\ next.name = q.name
          /\ next.rw = q.rw /\ next.cid = q.cid /\ next.pid = q.pid /\ next.pname = q.pname
          /\ next.prw = q.prw /\ next.pcid = q.pcid /\ next.newrw = q.newrw /\ next.new = c
          /\ next.pnew = q.pnew /\ next.undo = s
        BY <1>8 DEF Process
    <2>4. Sane(q)'
        <3>1. RowsStay
            BY <1>2 DEF RowsStay, Exists, regVars
        <3> QED
            BY <1>1, <1>11, <3>1, SaneStays
    <2>5. Carries(next, q) /\ Takes(next, q, c)'
        BY <1>3, <1>7, <1>11, <2>3, ZenonT(30) DEF Carries, Takes, TargetId
    <2>6. Reaches(next, q)
        <3>1. q.pnew \in Cids
            BY <1>1, <1>2, Zenon DEF Sane, Located, ParentUp
        <3> QED
            BY <1>2, <1>3, <2>3, <3>1 DEF Reaches, Fresh, Collecting
    <2> QED
        BY <1>11, <2>2, <2>3, <2>4, <2>5, <2>6, StartedSane, ZenonT(30)
<1> QED
    BY <1>1, <1>2, <1>3, <1>5, <1>9, <1>10, <1>11, StartingStep, ZenonT(30) DEF Fine

\* CommitFreezeCtx: the parent's row comes to name its new volume and container.
LEMMA CommitFine == ASSUME EngineInv, NEW p \in Procs, Commit(p) PROVE Fine
<1>1. PICK q \in Process : q = proc[p] /\ Sane(q)
    BY Current
<1>2. UNCHANGED world /\ q.pc = "commit" /\ q.pc \in Freezing /\ q.pc # "plan"
    BY <1>1, ZenonT(30) DEF Commit, At, OnlyRegistry, Freezing
<1>3. /\ q.pc \in Labels \ (Fresh \cup Collecting) /\ q.op = "from"
      /\ q.pid \in RowIds /\ q.id \in RowIds /\ q.pname \in Names
      /\ Is(q.pid, q.pname, q.prw) /\ Is(q.pid, q.pname, q.newrw)
    BY <1>1, <1>2, FreezeRead, Zenon
<1>4. q.pnew \in Cids /\ Mine(q.pnew, q.pid)
    BY <1>1, <1>2, <1>3, ZenonT(30) DEF Sane, Located, Owning, ParentUp, TargetId
<1>5. CASE Go(p, "undo") /\ UNCHANGED regVars
    <2>1. MayGo(q.pc, "undo")
        BY <1>3, MayWork DEF Working
    <2> QED
        BY <1>1, <1>2, <1>5, <2>1, GoStep DEF world, EngineInv
<1>6. ASSUME NEW l \in LayerIds, CommitFreeze(q.pid, q.id, l, q.prw, q.newrw, q.pnew),
             Go(p, "markchild")
      PROVE  Fine
    <2>1. RegistryNext
        BY <1>3, <1>4, <1>6, Zenon DEF RegistryNext, BranchMethod, Is
    <2>2. /\ branches'[q.pid].name = branches[q.pid].name /\ branches'[q.pid].rw = q.newrw
          /\ branches'[q.pid].cid = q.pnew
          /\ \A r \in RowIds \ {q.pid} :
                /\ branches'[r].name = branches[r].name /\ branches'[r].rw = branches[r].rw
                /\ branches'[r].cid = branches[r].cid /\ branches'[r].state = branches[r].state
          /\ branches'[q.pid].state = "ready"
        <3>1. branches \in [RowIds -> Row] /\ q.pid # q.id /\ Exists(q.id)
            BY <1>6 DEF CommitFreeze, CanCommitFreeze, EngineInv, LayersInv, RegistryTypeOK
        <3>2. PICK P : P = [branches[q.pid] EXCEPT !.rw = q.newrw, !.base = l, !.cid = q.pnew,
                                 !.state = "ready", !.pending = None, !.stale = FALSE]
            OBVIOUS
        <3>3. PICK K : K = [branches[q.id] EXCEPT !.base = l, !.stale = FALSE]
            OBVIOUS
        <3>4. branches' = [branches EXCEPT ![q.pid] = P, ![q.id] = K]
            BY <1>3, <1>6, <3>1, <3>2, <3>3 DEF CommitFreeze
        <3>5. /\ P.name = branches[q.pid].name /\ P.rw = q.newrw /\ P.cid = q.pnew
              /\ P.state = "ready"
            BY <1>3, <3>1, <3>2 DEF Row
        <3>6. /\ K.name = branches[q.id].name /\ K.rw = branches[q.id].rw
              /\ K.cid = branches[q.id].cid /\ K.state = branches[q.id].state
            BY <1>3, <3>1, <3>3 DEF Row
        <3> QED
            BY <1>3, <3>1, <3>4, <3>5, <3>6, ZenonT(30)
    <2>3. RowsStay
        BY <2>2 DEF RowsStay, Exists
    <2>4. \A C : OwnersStay(C)
        BY <1>2, <2>3, OwnersStayRemoving DEF world
    <2>5. Rows'
        <3> SUFFICES ASSUME NEW r \in RowIds, NEW n, NEW v, NEW d,
                            branches'[r].name = n, branches'[r].rw = v, branches'[r].cid = d
                     PROVE  (Exists(r)' => n \in Names /\ Is(r, n, v)') /\ Mine(d, r)'
            BY DEF Rows
        <3>1. (Exists(r)' => n \in Names /\ Is(r, n, v)) /\ Mine(d, r)
            <4>1. CASE r = q.pid
                <5>1. n = q.pname
                    BY <1>3, <2>2, <4>1, Zenon DEF Is
                <5> QED
                    BY <1>3, <1>4, <2>2, <4>1, <5>1
            <4>2. CASE r # q.pid
                BY <2>2, <4>2, Zenon DEF EngineInv, Rows, Exists
            <4> QED
                BY <4>1, <4>2
        <3>2. OwnersStay({d})
            BY <2>4
        <3>3. Is(r, n, v) => Is(r, n, v)'
            BY <2>3, Zenon DEF Is, RowsStay
        <3> QED
            BY <3>1, <3>2, <3>3 DEF OwnersStay
    <2>6. MayGo(q.pc, "markchild")
        BY <1>2, MayFreeze DEF Freezing, ParentUp
    <2>7. PICK e : e = [q EXCEPT !.pc = "markchild"]
        BY Zenon
    <2>8. e \in Process /\ Sane(e)
        BY <1>1, <2>6, <2>7, GoSane
    <2>9. Sane(e)'
        BY <2>3, <2>4, <2>8, SaneStays
    <2>10. proc' = [proc EXCEPT ![p] = e]
        BY <1>1, <1>6, <2>7 DEF Go, EngineInv
    <2> QED
        BY <1>2, <2>1, <2>3, <2>5, <2>8, <2>9, <2>10, CallingStep, Zenon DEF Fine
<1>7. (CHOOSE x \in {l \in LayerIds : layers[l].st = "absent"} : TRUE) \in LayerIds
    BY DEF Commit
<1> QED
    BY <1>1, <1>5, <1>6, <1>7, ZenonT(30) DEF Commit
=============================================================================
