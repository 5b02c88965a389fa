---------------------------- MODULE StorageProofs ----------------------------
(***************************************************************************)
(* What a branch stands on: branches keep the base they were created from, *)
(* for any number of sources, branches, generations, operations, failures  *)
(* and passes (Sources).                                                   *)
(***************************************************************************)
EXTENDS Sources, Integers, TLAPS

\* The provers a leaf is tried with, unless it names its own.
USE SMTT(10), Zenon, SMTT(30)

SourceRow == [state : {"none", "seeding", "ready", "failed", "gone"}, gen : Nat,
              vol : Vols \cup {None}, pending : Vols \cup {None}]
BranchRow == [state : {"none", "creating", "ready", "failed", "destroying", "destroyed", "gone"},
              row : Rows \cup {None}, vol : Vols \cup {None}, up : BOOLEAN]
Mark == [seed : Rows \cup {"raw"}, managed : BOOLEAN]

Seedings == {"mkvol", "seed", "seeding", "settle", "settling", "undo", "setfailed", "setready",
             "claim", "release", "bump"}
Making == {"start", "await", "unstart"}
Removals == {"count", "rmvol", "delete", "delfailed"}
Others == {"idle", "insert", "stop", "tomb", "gc", "gcrm", "rmhalf", "gcv", "gcvrm"}
Locals == [op : {None, "add", "refresh", "rm", "rmready", "create", "destroy", "failstuck", "gc"},
           pc : Seedings \cup Making \cup Removals \cup Others,
           row : Rows \cup {None}, vol : Vols \cup {None}, old : Vols \cup {None}, b : Bs \cup {None}]

\* An operation's locals are what its step needs.
LocalsOK(q) ==
    /\ q.pc \in Seedings => q.row \in Rows /\ q.vol \in Vols
    /\ q.pc \in Removals => q.row \in Rows
    /\ q.pc \in {"insert"} \cup Making => q.vol \in Vols
    /\ q.pc \in Making \cup {"stop", "tomb"} => q.b \in Bs

BasesTypeOK ==
    /\ sources \in [Rows -> SourceRow] /\ branches \in [Bs -> BranchRow]
    /\ vols \in [Vols -> Mark \cup {None}] /\ proc \in [Procs -> Locals]
    /\ \A p \in Procs : LocalsOK(proc[p])
    /\ \A r \in Exists : sources[r].vol \in Vols

\* A branch being made has one maker and is not ready yet.
MakersInv ==
    /\ \A p \in Procs : proc[p].pc \in Making =>
          /\ branches[proc[p].b].state \notin {"none", "ready"}
          /\ branches[proc[p].b].vol = proc[p].vol
    /\ \A p, q \in Procs : /\ proc[p].pc \in Making /\ proc[q].pc \in Making
                           /\ proc[p].b = proc[q].b
                           => p = q

\* What is mounted exists.
MountedInv ==
    /\ \A p \in Procs : proc[p].pc \in {"seeding", "settling"} => vols[proc[p].vol] # None
    /\ \A b \in Bs : branches[b].up => branches[b].vol \in Vols /\ vols[branches[b].vol] # None

BasesInv == BasesTypeOK /\ MakersInv /\ MountedInv /\ BaseIntact

-----------------------------------------------------------------------------
(* What may happen to a volume: one in use stays, with its seed.             *)

VolsKept ==
    /\ vols' \in [Vols -> Mark \cup {None}]
    /\ \A v \in Vols : InUse(v) => /\ vols[v] # None => vols'[v] # None
                                   /\ HasSeed(v) => HasSeed(v)'

\* Removing a volume spares the ones in use.
LEMMA RemovedKeeps ==
    ASSUME BasesInv, NEW v, vols' = Removed(v)
    PROVE  VolsKept
<1>1. vols \in [Vols -> Mark \cup {None}]
    BY DEF BasesInv, BasesTypeOK
<1>2. CASE InUse(v)
    BY <1>1, <1>2 DEF Removed, VolsKept, HasSeed
<1>3. CASE ~InUse(v)
    <2>1. vols' = [vols EXCEPT ![v] = None]
        BY <1>3 DEF Removed
    <2>2. \A u \in Vols : InUse(u) => vols'[u] = vols[u]
        BY <1>1, <1>3, <2>1
    <2>. QED BY <1>1, <2>1, <2>2, Zenon DEF VolsKept, HasSeed
<1>. QED BY <1>2, <1>3

\* A new volume is no seed.
LEMMA RawMark ==
    ASSUME NEW managed \in BOOLEAN
    PROVE  Raw(managed) \in Mark /\ Raw(managed) # None
BY SourcesAssumption DEF Raw, Mark

\* Mounting a volume creates it at most.
LEMMA MountedKeeps ==
    ASSUME BasesInv, NEW v \in Vols, vols' = Mounted(v)
    PROVE  VolsKept /\ vols'[v] # None
<1>1. vols \in [Vols -> Mark \cup {None}]
    BY DEF BasesInv, BasesTypeOK
<1>2. CASE vols[v] = None
    <2>1. vols' = [vols EXCEPT ![v] = Raw(FALSE)]
        BY <1>2 DEF Mounted
    <2>2. \A u \in Vols : vols[u] # None => vols'[u] = vols[u]
        BY <1>1, <1>2, <2>1, Zenon
    <2>. QED BY <1>1, <2>1, <2>2, RawMark, Zenon DEF VolsKept, HasSeed
<1>3. CASE vols[v] # None
    BY <1>1, <1>3 DEF Mounted, VolsKept, HasSeed
<1>. QED BY <1>2, <1>3

\* Creating a volume touches no other.
LEMMA CreatedKeeps ==
    ASSUME BasesInv, NEW v \in Vols, vols[v] = None, vols' = [vols EXCEPT ![v] = Raw(TRUE)]
    PROVE  VolsKept
<1>1. vols \in [Vols -> Mark \cup {None}]
    BY DEF BasesInv, BasesTypeOK
<1>2. \A u \in Vols : vols[u] # None => vols'[u] = vols[u]
    BY <1>1, Zenon
<1>. QED BY <1>1, <1>2, RawMark, Zenon DEF VolsKept, HasSeed

\* Seeding a volume leaves it, and the others, in place.
LEMMA SeededKeeps ==
    ASSUME BasesInv, NEW v \in Vols, vols[v] # None, NEW r \in Rows,
           vols' = [vols EXCEPT ![v].seed = r]
    PROVE  VolsKept
<1>1. vols \in [Vols -> Mark \cup {None}] /\ vols[v] \in Mark
    BY DEF BasesInv, BasesTypeOK
<1>2. [vols[v] EXCEPT !.seed = r] \in Mark /\ [vols[v] EXCEPT !.seed = r].seed = r
    BY <1>1 DEF Mark
<1>3. vols' = [vols EXCEPT ![v] = [vols[v] EXCEPT !.seed = r]]
    OBVIOUS
<1>4. vols' \in [Vols -> Mark \cup {None}] /\ vols'[v] \in Mark /\ vols'[v].seed = r
      /\ \A u \in Vols \ {v} : vols'[u] = vols[u]
    BY <1>1, <1>2, <1>3
<1>5. vols'[v] # None /\ r # "raw"
    BY <1>4, SourcesAssumption DEF Mark
<1>. QED BY <1>4, <1>5 DEF VolsKept, HasSeed

-----------------------------------------------------------------------------
(* Steps that leave the branches alone.                                      *)

SourcesOK == /\ sources \in [Rows -> SourceRow]
             /\ \A r \in Exists : sources[r].vol \in Vols

\* An operation moves on to q; it is still the maker it was, if it was one.
MovesTo(p, q) ==
    /\ proc' = [proc EXCEPT ![p] = q] /\ q \in Locals /\ LocalsOK(q)
    /\ q.pc \in {"seeding", "settling"} => vols'[q.vol] # None

\* A process moves on, and no branch row changes.
LEMMA BranchesRest ==
    ASSUME BasesInv, NEW p \in Procs, NEW q, MovesTo(p, q), VolsKept, SourcesOK',
           UNCHANGED branches,
           q.pc \in Making => /\ proc[p].pc \in Making
                              /\ q.b = proc[p].b /\ q.vol = proc[p].vol
    PROVE  BasesInv'
<1>1. /\ proc \in [Procs -> Locals] /\ proc'[p] = q /\ q \in Locals
      /\ proc' \in [Procs -> Locals] /\ \A r \in Procs \ {p} : proc'[r] = proc[r]
    BY DEF BasesInv, BasesTypeOK, MovesTo
<1>2. BasesTypeOK'
    BY <1>1 DEF BasesInv, BasesTypeOK, MovesTo, VolsKept, SourcesOK
<1>3. MakersInv'
    BY <1>1 DEF BasesInv, MakersInv
<1>4. MountedInv'
    <2>1. ASSUME NEW r \in Procs, proc'[r].pc \in {"seeding", "settling"}
          PROVE  vols'[proc'[r].vol] # None
        <3>1. CASE r = p
            BY <1>1, <2>1, <3>1 DEF MovesTo
        <3>2. CASE r # p
            <4>1. proc'[r] = proc[r] /\ Seeder(r, proc[r].vol) /\ proc[r].vol \in Vols
                BY <1>1, <2>1, <3>2 DEF Seeder, BasesInv, BasesTypeOK, LocalsOK, Seedings
            <4>2. vols[proc[r].vol] # None
                BY <2>1, <4>1 DEF BasesInv, MountedInv
            <4>. QED BY <4>1, <4>2 DEF VolsKept, InUse
        <3>. QED BY <3>1, <3>2
    <2>2. \A b \in Bs : branches[b].up => /\ branches[b].vol \in Vols
                                          /\ vols'[branches[b].vol] # None
        BY DEF BasesInv, MountedInv, VolsKept, InUse
    <2>. QED BY <2>1, <2>2 DEF MountedInv
<1>5. BaseIntact'
    BY DEF BasesInv, MountedInv, VolsKept, InUse, BaseIntact
<1>. QED BY <1>2, <1>3, <1>4, <1>5 DEF BasesInv

\* As above, for a step that only advances the program counter.
LEMMA Goes ==
    ASSUME BasesInv, NEW p \in Procs, NEW pc \in Seedings \cup Making \cup Removals \cup Others,
           Go(p, pc), VolsKept, SourcesOK', UNCHANGED branches,
           pc \in Seedings => proc[p].pc \in Seedings,
           pc \in Removals => proc[p].pc \in Removals,
           pc \in Making => proc[p].pc \in Making,
           pc \notin {"insert", "stop", "tomb"},
           pc \in {"seeding", "settling"} => vols'[proc[p].vol] # None
    PROVE  BasesInv'
<1>. DEFINE q == [proc[p] EXCEPT !.pc = pc]
<1>1. proc[p] \in Locals /\ LocalsOK(proc[p])
    BY DEF BasesInv, BasesTypeOK
<1>2. /\ q \in Locals /\ q.pc = pc /\ q.row = proc[p].row /\ q.vol = proc[p].vol
      /\ q.b = proc[p].b
    BY <1>1 DEF Locals
<1>3. LocalsOK(q)
    BY <1>1, <1>2 DEF LocalsOK
<1>4. proc' = [proc EXCEPT ![p] = q]
    BY DEF Go, GoWith
<1>. HIDE DEF q
<1>5. MovesTo(p, q)
    BY <1>2, <1>3, <1>4 DEF MovesTo
<1>. QED BY <1>2, <1>5, BranchesRest

\* A process at rest.
LEMMA IdleOK == Idle \in Locals /\ LocalsOK(Idle) /\ Idle.pc = "idle"
BY DEF Idle, Locals, LocalsOK, Seedings, Making, Removals, Others

\* A process comes to rest.
LEMMA Ends ==
    ASSUME BasesInv, NEW p \in Procs, End(p), VolsKept, SourcesOK', UNCHANGED branches
    PROVE  BasesInv'
<1>1. MovesTo(p, Idle)
    BY IdleOK DEF MovesTo, End, GoWith
<1>2. Idle.pc \notin Making
    BY IdleOK DEF Making
<1>. QED BY <1>1, <1>2, BranchesRest

\* What a step leaves alone.
LEMMA Unchanging ==
    ASSUME BasesInv
    PROVE  /\ UNCHANGED vols => VolsKept
           /\ UNCHANGED sources => SourcesOK'
           /\ SourcesOK
BY DEF BasesInv, BasesTypeOK, VolsKept, HasSeed, SourcesOK, Exists

\* The steps on volumes: what is mounted is not removed, and what exists is not
\* overwritten by an empty volume.
LEMMA VolumeSteps ==
    ASSUME BasesInv, NEW p \in Procs,
           \/ createSourceLayer(p) \/ SeedStarts(p) \/ SeedEnds(p) \/ SeedDump(p)
           \/ Settle(p) \/ Settled(p) \/ removeSourceLayer(p) \/ GCRemoves(p) \/ RemoveCurrent(p)
    PROVE  BasesInv'
<1>0. /\ proc[p].pc \in Seedings => proc[p].vol \in Vols /\ proc[p].row \in Rows
      /\ proc[p].pc = "seeding" => vols[proc[p].vol] # None
    BY DEF BasesInv, BasesTypeOK, LocalsOK, MountedInv
<1>. USE DEF Seedings, Making, Removals, Others
<1>1. CASE createSourceLayer(p)
    <2>1. At(p, "mkvol") /\ SourcesOK' /\ UNCHANGED branches
        BY <1>1, Unchanging DEF createSourceLayer
    <2>2. CASE vols[proc[p].vol] = None
        <3>1. VolsKept /\ Go(p, "seed")
            BY <1>0, <1>1, <2>1, <2>2, CreatedKeeps, Zenon DEF createSourceLayer, At
        <3>. QED BY <2>1, <3>1, Goes DEF At
    <2>3. CASE vols[proc[p].vol] # None
        <3>1. VolsKept /\ Go(p, Failing(p)) /\ Failing(p) \in {"setfailed", "release"}
            BY <1>1, <2>3, Unchanging DEF createSourceLayer, Failing
        <3>. QED BY <2>1, <3>1, Goes DEF At
    <2>. QED BY <2>2, <2>3
<1>2. CASE SeedStarts(p)
    <2>1. At(p, "seed") /\ SourcesOK' /\ UNCHANGED branches /\ VolsKept /\ vols'[proc[p].vol] # None
        BY <1>0, <1>2, Unchanging, MountedKeeps DEF SeedStarts, At
    <2>2. PICK pc \in {"seeding", "undo"} : Go(p, pc)
        BY <1>2 DEF SeedStarts
    <2>. QED BY <2>1, <2>2, Goes DEF At
<1>3. CASE SeedEnds(p)
    <2>1. At(p, "seeding") /\ SourcesOK' /\ UNCHANGED branches
        BY <1>3, Unchanging DEF SeedEnds
    <2>2. VolsKept
        BY <1>0, <1>3, <2>1, SeededKeeps, Unchanging DEF SeedEnds, At
    <2>3. PICK pc \in {"settle", "undo"} : Go(p, pc)
        BY <1>3 DEF SeedEnds
    <2>. QED BY <2>1, <2>2, <2>3, Goes DEF At
<1>4. CASE SeedDump(p)
    <2>1. At(p, "seeding") /\ SourcesOK' /\ UNCHANGED branches
        BY <1>4, Unchanging DEF SeedDump
    <2>2. VolsKept
        BY <1>0, <1>4, <2>1, SeededKeeps, Zenon DEF SeedDump, At
    <2>3. PICK pc \in {"setready", "bump"} : Go(p, pc)
        BY <1>4 DEF SeedDump, Seeded
    <2>. QED BY <2>1, <2>2, <2>3, Goes DEF At
<1>5. CASE Settle(p)
    <2>1. At(p, "settle") /\ SourcesOK' /\ UNCHANGED branches /\ VolsKept /\ vols'[proc[p].vol] # None
        BY <1>0, <1>5, Unchanging, MountedKeeps DEF Settle, At
    <2>2. PICK pc \in {"settling", "undo"} : Go(p, pc)
        BY <1>5 DEF Settle
    <2>. QED BY <2>1, <2>2, Goes DEF At
<1>6. CASE Settled(p)
    <2>1. At(p, "settling") /\ SourcesOK' /\ UNCHANGED branches /\ VolsKept
        BY <1>6, Unchanging DEF Settled, OnlyProc
    <2>2. PICK pc \in {"setready", "bump", "undo"} : Go(p, pc)
        BY <1>6 DEF Settled, Seeded
    <2>. QED BY <2>1, <2>2, Goes DEF At
<1>7. CASE removeSourceLayer(p)
    <2>1. At(p, "undo") /\ SourcesOK' /\ UNCHANGED branches /\ VolsKept
        BY <1>7, Unchanging, RemovedKeeps DEF removeSourceLayer
    <2>2. PICK pc \in {"setfailed", "release"} : Go(p, pc)
        BY <1>7 DEF removeSourceLayer, Failing
    <2>. QED BY <2>1, <2>2, Goes DEF At
<1>8. CASE GCRemoves(p)
    <2>1. End(p) /\ SourcesOK' /\ UNCHANGED branches /\ VolsKept
        BY <1>8, Unchanging, RemovedKeeps DEF GCRemoves
    <2>. QED BY <2>1, Ends
<1>9. CASE RemoveCurrent(p)
    <2>1. At(p, "rmvol") /\ SourcesOK' /\ UNCHANGED branches /\ VolsKept
        BY <1>9, Unchanging, RemovedKeeps DEF RemoveCurrent
    <2>2. End(p) \/ Go(p, "delete")
        BY <1>9 DEF RemoveCurrent
    <2>. QED BY <2>1, <2>2, Goes, Ends DEF At
<1>. QED BY <1>1, <1>2, <1>3, <1>4, <1>5, <1>6, <1>7, <1>8, <1>9

\* The steps on source rows.
LEMMA SourceSteps ==
    ASSUME BasesInv, NEW p \in Procs,
           \/ CreateSourceCtx(p) \/ MarkFailed(p) \/ MarkReady(p) \/ Claim(p) \/ Release(p)
           \/ BumpSourceGeneration(p) \/ DeleteFailedSources(p) \/ FailStuckSource(p)
    PROVE  BasesInv'
<1>0. /\ SourcesOK /\ proc[p] \in Locals
      /\ proc[p].pc \in Seedings => proc[p].vol \in Vols /\ proc[p].row \in Rows
    BY Unchanging DEF BasesInv, BasesTypeOK, LocalsOK
<1>. USE DEF Seedings, Making, Removals, Others
<1>1. CASE CreateSourceCtx(p)
    <2>1. PICK r \in Rows :
            /\ sources' = [x \in Rows |->
                 IF x = r THEN [state |-> "seeding", gen |-> 1, vol |-> 1, pending |-> None]
                 ELSE IF x \in Exists THEN [sources[x] EXCEPT !.state = "gone"] ELSE sources[x]]
            /\ GoWith(p, [Idle EXCEPT !.op = "add", !.pc = "mkvol", !.row = r, !.vol = 1])
        BY <1>1, Zenon DEF CreateSourceCtx
    <2>2. 1 \in Vols
        BY SourcesAssumption DEF Vols
    <2>3. SourcesOK'
        BY <1>0, <2>1, <2>2 DEF SourcesOK, SourceRow, Exists
    <2>. DEFINE q == [Idle EXCEPT !.op = "add", !.pc = "mkvol", !.row = r, !.vol = 1]
    <2>4. q \in Locals /\ q.pc = "mkvol" /\ LocalsOK(q)
        BY <2>2, Zenon DEF Idle, Locals, LocalsOK
    <2>q. proc' = [proc EXCEPT ![p] = q]
        BY <2>1 DEF GoWith
    <2>. HIDE DEF q
    <2>5. MovesTo(p, q)
        BY <2>q, <2>4 DEF MovesTo
    <2>. QED BY <1>1, <2>3, <2>4, <2>5, BranchesRest, Unchanging, Zenon DEF CreateSourceCtx
<1>2. ASSUME NEW r \in Rows, NEW to \in {"failed", "ready"}, SetSourceState(r, to)
      PROVE  SourcesOK'
    <2>1. CASE sources[r].state = "seeding"
        <3>1. sources' = [sources EXCEPT ![r] = [sources[r] EXCEPT !.state = to]]
            BY <1>2, <2>1 DEF SetSourceState, SetRow
        <3>. QED BY <1>0, <2>1, <3>1 DEF SourcesOK, SourceRow, Exists
    <2>2. CASE sources[r].state # "seeding"
        <3>1. sources' = sources
            BY <1>0, <1>2, <2>2 DEF SetSourceState, SetRow, SourcesOK
        <3>. QED BY <3>1, Unchanging
    <2>. QED BY <2>1, <2>2
<1>3. CASE MarkFailed(p) \/ MarkReady(p)
    <2>1. End(p) /\ UNCHANGED <<branches, vols>> /\ SourcesOK'
        BY <1>0, <1>2, <1>3 DEF MarkFailed, MarkReady, Marks, At
    <2>. QED BY <2>1, Ends, Unchanging
<1>4. CASE Claim(p)
    <2>0. At(p, "claim") /\ UNCHANGED <<branches, vols>>
        BY <1>4 DEF Claim
    <2>1. CASE proc[p].row \in Exists
        <3>1. /\ sources' = [sources EXCEPT ![proc[p].row] =
                                [sources[proc[p].row] EXCEPT !.pending = proc[p].vol]]
              /\ Go(p, "mkvol")
            BY <1>4, <2>1 DEF Claim, SetRow
        <3>2. SourcesOK'
            BY <1>0, <2>1, <3>1 DEF SourcesOK, SourceRow, Exists, Locals
        <3>. QED BY <2>0, <3>1, <3>2, Goes, Unchanging DEF At
    <2>2. CASE proc[p].row \notin Exists
        BY <1>4, <2>0, <2>2, Ends, Unchanging DEF Claim
    <2>. QED BY <2>1, <2>2
<1>5. CASE Release(p)
    <2>0. /\ proc[p].row \in Rows /\ UNCHANGED <<branches, vols>> /\ End(p)
          /\ SetRow(proc[p].row, IF proc[p].row \in Exists
                THEN [sources[proc[p].row] EXCEPT !.pending = None] ELSE sources[proc[p].row])
        BY <1>0, <1>5 DEF Release, At
    <2>1. CASE proc[p].row \in Exists
        <3>1. sources' = [sources EXCEPT ![proc[p].row] =
                            [sources[proc[p].row] EXCEPT !.pending = None]]
            BY <2>0, <2>1 DEF SetRow
        <3>2. SourcesOK'
            BY <1>0, <2>1, <3>1 DEF SourcesOK, SourceRow, Exists
        <3>. QED BY <2>0, <3>2, Ends, Unchanging
    <2>2. CASE proc[p].row \notin Exists
        <3>1. sources' = sources
            BY <1>0, <2>0, <2>2 DEF SetRow, SourcesOK
        <3>. QED BY <2>0, <3>1, Ends, Unchanging
    <2>. QED BY <2>1, <2>2
<1>6. CASE BumpSourceGeneration(p)
    <2>0. At(p, "bump") /\ UNCHANGED <<branches, vols>>
        BY <1>6 DEF BumpSourceGeneration
    <2>1. CASE proc[p].row \in Exists
        <3>. DEFINE r == proc[p].row
        <3>1. /\ SetRow(r, [sources[r] EXCEPT !.gen = @ + 1, !.vol = proc[p].vol, !.pending = None])
              /\ GoWith(p, [proc[p] EXCEPT !.pc = "gc", !.vol = proc[p].old, !.old = None])
            BY <1>6, <2>1 DEF BumpSourceGeneration
        <3>. DEFINE w == [sources[r] EXCEPT !.gen = @ + 1, !.vol = proc[p].vol, !.pending = None]
        <3>a. sources[r] \in SourceRow /\ proc[p].vol \in Vols /\ r \in Rows
            BY <1>0, <2>0, <2>1 DEF SourcesOK, Exists, At
        <3>b. w \in SourceRow /\ w.vol \in Vols
            <4>1. /\ w = [sources[r] EXCEPT !.gen = sources[r].gen + 1, !.vol = proc[p].vol,
                                           !.pending = None]
                  /\ sources[r].gen + 1 \in Nat
                BY <3>a DEF SourceRow
            <4>. QED BY <3>a, <4>1, Zenon DEF SourceRow
        <3>c. sources' = [sources EXCEPT ![r] = w]
            BY <3>1 DEF SetRow
        <3>2. SourcesOK'
            <4>. HIDE DEF w
            <4>. QED BY <1>0, <3>a, <3>b, <3>c DEF SourcesOK, Exists
        <3>. DEFINE q == [proc[p] EXCEPT !.pc = "gc", !.vol = proc[p].old, !.old = None]
        <3>3. q \in Locals /\ q.pc = "gc" /\ LocalsOK(q)
            <4>1. proc[p].old \in Vols \cup {None} /\ q \in Locals /\ q.pc = "gc"
                BY <1>0, Zenon DEF Locals
            <4>. QED BY <4>1 DEF LocalsOK
        <3>q. proc' = [proc EXCEPT ![p] = q]
            BY <3>1 DEF GoWith
        <3>. HIDE DEF q
        <3>4. MovesTo(p, q)
            BY <3>q, <3>3 DEF MovesTo
        <3>. QED BY <2>0, <3>2, <3>3, <3>4, BranchesRest, Unchanging
    <2>2. CASE proc[p].row \notin Exists
        BY <1>6, <2>0, <2>2, Ends, Unchanging DEF BumpSourceGeneration
    <2>. QED BY <2>1, <2>2
<1>7. CASE DeleteFailedSources(p)
    <2>1. SourcesOK'
        BY <1>0, <1>7 DEF DeleteFailedSources, SourcesOK, SourceRow, Exists
    <2>. QED BY <1>7, <2>1, Ends, Unchanging DEF DeleteFailedSources
<1>8. CASE FailStuckSource(p)
    <2>1. PICK r \in Rows :
            /\ StuckSource(r) /\ SetSourceState(r, "failed")
            /\ GoWith(p, [Idle EXCEPT !.op = "failstuck", !.pc = "rmhalf", !.vol = sources[r].vol])
        BY <1>8, Zenon DEF FailStuckSource
    <2>2. SourcesOK' /\ sources[r].vol \in Vols \cup {None}
        BY <1>0, <1>2, <2>1 DEF SourcesOK, SourceRow
    <2>. DEFINE q == [Idle EXCEPT !.op = "failstuck", !.pc = "rmhalf", !.vol = sources[r].vol]
    <2>3. q \in Locals /\ q.pc = "rmhalf" /\ LocalsOK(q)
        BY <2>2, Zenon DEF Idle, Locals, LocalsOK
    <2>q. proc' = [proc EXCEPT ![p] = q]
        BY <2>1 DEF GoWith
    <2>. HIDE DEF q
    <2>4. MovesTo(p, q)
        BY <2>q, <2>3 DEF MovesTo
    <2>. QED BY <1>8, <2>2, <2>3, <2>4, BranchesRest, Unchanging, Zenon DEF FailStuckSource
<1>. QED BY <1>1, <1>3, <1>4, <1>5, <1>6, <1>7, <1>8

-----------------------------------------------------------------------------
(* Steps that change a branch.                                               *)

\* Branch b becomes w: it is up on a volume that exists, ready on a seeded one,
\* and whoever else makes it still finds it unready on its volume.
BranchStep(p, q, b, w) ==
    /\ MovesTo(p, q) /\ branches' = [branches EXCEPT ![b] = w] /\ w \in BranchRow
    /\ w.up => w.vol \in Vols /\ vols'[w.vol] # None
    /\ w.state = "ready" /\ w.up => vols'[w.vol] # None /\ vols'[w.vol].seed # "raw"
    /\ \A r \in Procs \ {p} : proc[r].pc \in Making /\ proc[r].b = b =>
          /\ w.state \notin {"none", "ready"} /\ w.vol = branches[b].vol /\ q.pc \notin Making
    /\ q.pc \in Making => q.b = b /\ w.state \notin {"none", "ready"} /\ w.vol = q.vol

\* A step on branch b keeps the invariant.
LEMMA BranchMoves ==
    ASSUME BasesInv, NEW p \in Procs, NEW q, NEW b \in Bs, NEW w, BranchStep(p, q, b, w),
           VolsKept, UNCHANGED sources
    PROVE  BasesInv'
<1>1. /\ proc \in [Procs -> Locals] /\ proc'[p] = q /\ q \in Locals
      /\ proc' \in [Procs -> Locals] /\ \A r \in Procs \ {p} : proc'[r] = proc[r]
    BY DEF BasesInv, BasesTypeOK, BranchStep, MovesTo
<1>2. /\ branches' \in [Bs -> BranchRow] /\ branches'[b] = w
      /\ \A c \in Bs \ {b} : branches'[c] = branches[c]
    BY DEF BasesInv, BasesTypeOK, BranchStep
<1>3. BasesTypeOK'
    BY <1>1, <1>2 DEF BasesInv, BasesTypeOK, BranchStep, MovesTo, VolsKept, Exists
<1>4. MakersInv'
    <2>1. \A r \in Procs \ {p} : proc[r].pc \in Making =>
            /\ branches'[proc[r].b].state \notin {"none", "ready"}
            /\ branches'[proc[r].b].vol = proc[r].vol
        BY <1>2 DEF BasesInv, MakersInv, BranchStep, BasesTypeOK, LocalsOK
    <2>2. q.pc \in Making => /\ branches'[q.b].state \notin {"none", "ready"}
                             /\ branches'[q.b].vol = q.vol
        BY <1>2 DEF BranchStep
    <2>3. \A r \in Procs \ {p} : proc[r].pc \in Making /\ q.pc \in Making => proc[r].b # q.b
        BY DEF BranchStep
    <2>4. \A r1, r2 \in Procs \ {p} : /\ proc[r1].pc \in Making /\ proc[r2].pc \in Making
                                     /\ proc[r1].b = proc[r2].b => r1 = r2
        BY DEF BasesInv, MakersInv
    <2>. QED BY <1>1, <2>1, <2>2, <2>3, <2>4 DEF MakersInv
<1>5. MountedInv'
    <2>1. ASSUME NEW r \in Procs, proc'[r].pc \in {"seeding", "settling"}
          PROVE  vols'[proc'[r].vol] # None
        <3>1. CASE r = p
            BY <1>1, <2>1, <3>1 DEF BranchStep, MovesTo
        <3>2. CASE r # p
            <4>1. proc'[r] = proc[r] /\ Seeder(r, proc[r].vol) /\ proc[r].vol \in Vols
                BY <1>1, <2>1, <3>2 DEF Seeder, BasesInv, BasesTypeOK, LocalsOK, Seedings
            <4>2. vols[proc[r].vol] # None
                BY <2>1, <4>1 DEF BasesInv, MountedInv
            <4>. QED BY <4>1, <4>2 DEF VolsKept, InUse
        <3>. QED BY <3>1, <3>2
    <2>2. \A c \in Bs : branches'[c].up => /\ branches'[c].vol \in Vols
                                          /\ vols'[branches'[c].vol] # None
        BY <1>2 DEF BasesInv, MountedInv, VolsKept, InUse, BranchStep
    <2>. QED BY <2>1, <2>2 DEF MountedInv
<1>6. BaseIntact'
    <2>1. \A c \in Bs \ {b} : branches[c].state = "ready" /\ branches[c].up =>
            vols'[branches[c].vol] # None /\ vols'[branches[c].vol].seed # "raw"
        BY DEF BasesInv, MountedInv, VolsKept, InUse, BaseIntact, HasSeed
    <2>2. w.state = "ready" /\ w.up => vols'[w.vol] # None /\ vols'[w.vol].seed # "raw"
        BY DEF BranchStep
    <2>3. ASSUME NEW c \in Bs, branches'[c].state = "ready", branches'[c].up
          PROVE  vols'[branches'[c].vol] # None /\ vols'[branches'[c].vol].seed # "raw"
        BY <1>2, <2>1, <2>2, <2>3 DEF HasSeed
    <2>. QED BY <2>3 DEF BaseIntact, HasSeed
<1>. QED BY <1>3, <1>4, <1>5, <1>6 DEF BasesInv

\* Every step of a branch's create and destroy does.
LEMMA BranchSteps ==
    ASSUME BasesInv, NEW p \in Procs,
           \/ CreateBranchCtx(p) \/ Start(p) \/ awaitAndMark(p) \/ Unstart(p)
           \/ DestroyBranch(p) \/ StopRemove(p) \/ Destroyed(p)
    PROVE  BasesInv'
<1>0. /\ proc[p] \in Locals /\ LocalsOK(proc[p]) /\ branches \in [Bs -> BranchRow]
      /\ \A b \in Bs : branches[b].up => branches[b].vol \in Vols /\ vols[branches[b].vol] # None
      /\ \A b \in Bs : branches[b].state = "ready" /\ branches[b].up =>
            vols[branches[b].vol] # None /\ vols[branches[b].vol].seed # "raw"
      /\ \A r \in Procs : proc[r].pc \in Making =>
            /\ branches[proc[r].b].state \notin {"none", "ready"}
            /\ branches[proc[r].b].vol = proc[r].vol
      /\ \A r \in Procs \ {p} : ~( /\ proc[p].pc \in Making /\ proc[r].pc \in Making
                                  /\ proc[p].b = proc[r].b )
    BY DEF BasesInv, BasesTypeOK, MountedInv, BaseIntact, MakersInv, HasSeed
<1>. USE DEF Seedings, Making, Removals, Others
<1>1. CASE CreateBranchCtx(p)
    <2>1. CASE proc[p].row \in Exists
        <3>1. PICK b \in Bs : /\ branches[b].state = "none"
                              /\ branches' = [branches EXCEPT ![b] =
                                    [state |-> "creating", row |-> proc[p].row,
                                     vol |-> proc[p].vol, up |-> FALSE]]
                              /\ GoWith(p, [proc[p] EXCEPT !.pc = "start", !.b = b])
            BY <1>1, <2>1, Zenon DEF CreateBranchCtx
        <3>. DEFINE q == [proc[p] EXCEPT !.pc = "start", !.b = b]
                    w == [state |-> "creating", row |-> proc[p].row, vol |-> proc[p].vol, up |-> FALSE]
        <3>2. q \in Locals /\ q.pc = "start" /\ q.b = b /\ q.vol = proc[p].vol /\ proc[p].vol \in Vols
            BY <1>0, <1>1, Zenon DEF Locals, LocalsOK, CreateBranchCtx, At
        <3>3. /\ w \in BranchRow /\ w.state = "creating" /\ w.vol = proc[p].vol /\ ~w.up
            BY <1>0 DEF BranchRow, Locals
        <3>4. proc' = [proc EXCEPT ![p] = q] /\ branches' = [branches EXCEPT ![b] = w]
            BY <3>1 DEF GoWith
        <3>. HIDE DEF q, w
        <3>5. MovesTo(p, q)
            BY <3>2, <3>4 DEF MovesTo, LocalsOK
        <3>6. BranchStep(p, q, b, w)
            BY <1>0, <3>1, <3>2, <3>3, <3>4, <3>5, Zenon DEF BranchStep
        <3>. QED BY <1>1, <3>6, BranchMoves, Unchanging, Zenon DEF CreateBranchCtx
    <2>2. CASE proc[p].row \notin Exists
        BY <1>1, <2>2, Ends, Unchanging DEF CreateBranchCtx
    <2>. QED BY <2>1, <2>2
<1>2. CASE Start(p)
    <2>. DEFINE b == proc[p].b
                q == [proc[p] EXCEPT !.pc = "await"]
                w == [branches[b] EXCEPT !.up = TRUE]
    <2>1. At(p, "start") /\ b \in Bs /\ proc[p].vol \in Vols
        BY <1>0, <1>2 DEF Start, At, LocalsOK
    <2>2. VolsKept /\ vols'[proc[p].vol] # None /\ UNCHANGED sources
        BY <1>2, <2>1, MountedKeeps DEF Start
    <2>3. q \in Locals /\ q.pc = "await" /\ q.b = b /\ q.vol = proc[p].vol
        BY <1>0 DEF Locals
    <2>4. w \in BranchRow /\ w.state = branches[b].state /\ w.vol = branches[b].vol
        BY <1>0, <2>1, Zenon DEF BranchRow
    <2>5. proc' = [proc EXCEPT ![p] = q] /\ branches' = [branches EXCEPT ![b] = w]
        BY <1>2 DEF Start, Go, GoWith
    <2>. HIDE DEF q, w
    <2>6. MovesTo(p, q)
        BY <2>1, <2>3, <2>5 DEF MovesTo, LocalsOK
    <2>7. BranchStep(p, q, b, w)
        BY <1>0, <2>1, <2>2, <2>3, <2>4, <2>5, <2>6, Zenon DEF BranchStep, At
    <2>. QED BY <2>1, <2>2, <2>7, BranchMoves
<1>3. CASE awaitAndMark(p)
    <2>1. At(p, "await") /\ proc[p].b \in Bs /\ UNCHANGED <<sources, vols>>
        BY <1>0, <1>3 DEF awaitAndMark, At, LocalsOK
    <2>2. CASE HasSeed(proc[p].vol) /\ branches[proc[p].b].state = "creating"
        <3>. DEFINE b == proc[p].b
                    w == [branches[b] EXCEPT !.state = "ready"]
        <3>1. w \in BranchRow /\ w.vol = branches[b].vol /\ w.state = "ready" /\ (w.up <=> branches[b].up)
            BY <1>0, <2>1 DEF BranchRow
        <3>2. proc' = [proc EXCEPT ![p] = Idle] /\ branches' = [branches EXCEPT ![b] = w]
            BY <1>3, <2>2 DEF awaitAndMark, End, GoWith
        <3>3. MovesTo(p, Idle)
            BY <3>2, IdleOK DEF MovesTo
        <3>. HIDE DEF w
        <3>4. BranchStep(p, Idle, b, w)
            BY <1>0, <2>1, <2>2, <3>1, <3>2, <3>3, IdleOK, Zenon DEF BranchStep, At, HasSeed
        <3>. QED BY <2>1, <3>4, BranchMoves, Unchanging
    <2>3. CASE ~(HasSeed(proc[p].vol) /\ branches[proc[p].b].state = "creating")
        <3>1. Go(p, "unstart") /\ UNCHANGED branches
            BY <1>3, <2>3 DEF awaitAndMark
        <3>. QED BY <2>1, <3>1, Goes, Unchanging DEF At
    <2>. QED BY <2>2, <2>3
<1>4. CASE Unstart(p)
    <2>. DEFINE b == proc[p].b
                st == IF branches[b].state = "creating" THEN "failed" ELSE branches[b].state
                w == [branches[b] EXCEPT !.up = FALSE, !.state = st]
    <2>1. At(p, "unstart") /\ b \in Bs /\ UNCHANGED <<sources, vols>>
        BY <1>0, <1>4 DEF Unstart, At, LocalsOK
    <2>2. st \in {"failed", "destroying", "destroyed", "gone"}
        BY <1>0, <2>1 DEF At, BranchRow
    <2>3. branches' = [branches EXCEPT ![b] = w] /\ proc' = [proc EXCEPT ![p] = Idle]
        BY <1>0, <1>4, <2>1, Zenon DEF Unstart, End, GoWith
    <2>. HIDE DEF st
    <2>4. w \in BranchRow /\ w.vol = branches[b].vol /\ w.state = st /\ ~w.up
        BY <1>0, <2>1, <2>2, ZenonT(60) DEF BranchRow
    <2>. HIDE DEF w
    <2>5. MovesTo(p, Idle)
        BY <2>3, IdleOK DEF MovesTo
    <2>6. BranchStep(p, Idle, b, w)
        BY <1>0, <2>1, <2>2, <2>3, <2>4, <2>5, IdleOK, Zenon DEF BranchStep, At
    <2>. QED BY <2>1, <2>6, BranchMoves, Unchanging
<1>5. CASE DestroyBranch(p)
    <2>1. PICK b \in Bs :
            /\ branches[b].state \in {"ready", "failed", "destroying"}
            /\ branches' = [branches EXCEPT ![b].state = "destroying"]
            /\ GoWith(p, [Idle EXCEPT !.op = "destroy", !.pc = "stop", !.b = b,
                                      !.row = branches[b].row, !.vol = branches[b].vol])
        BY <1>5, Zenon DEF DestroyBranch
    <2>. DEFINE q == [Idle EXCEPT !.op = "destroy", !.pc = "stop", !.b = b,
                                  !.row = branches[b].row, !.vol = branches[b].vol]
                w == [branches[b] EXCEPT !.state = "destroying"]
    <2>2. branches[b].row \in Rows \cup {None} /\ branches[b].vol \in Vols \cup {None}
        BY <1>0 DEF BranchRow
    <2>3. q \in Locals /\ q.pc = "stop" /\ q.b = b
        BY <2>2, Zenon DEF Locals, Idle
    <2>4. w \in BranchRow /\ w.vol = branches[b].vol /\ w.state = "destroying" /\ (w.up <=> branches[b].up)
        BY <1>0 DEF BranchRow
    <2>5. proc' = [proc EXCEPT ![p] = q] /\ branches' = [branches EXCEPT ![b] = w]
        BY <2>1 DEF GoWith
    <2>. HIDE DEF q, w
    <2>6. MovesTo(p, q)
        BY <2>3, <2>5 DEF MovesTo, LocalsOK
    <2>7. UNCHANGED <<sources, vols>>
        BY <1>5, Zenon DEF DestroyBranch
    <2>8. BranchStep(p, q, b, w)
        BY <1>0, <2>3, <2>4, <2>5, <2>6, <2>7 DEF BranchStep
    <2>. QED BY <2>7, <2>8, BranchMoves, Unchanging
<1>6. CASE StopRemove(p)
    <2>. DEFINE b == proc[p].b
                q == [proc[p] EXCEPT !.pc = "tomb"]
                w == [branches[b] EXCEPT !.up = FALSE]
    <2>1. At(p, "stop") /\ b \in Bs /\ UNCHANGED <<sources, vols>>
        BY <1>0, <1>6 DEF StopRemove, At, LocalsOK
    <2>2. q \in Locals /\ q.pc = "tomb" /\ q.b = b
        BY <1>0 DEF Locals
    <2>3. w \in BranchRow /\ w.state = branches[b].state /\ w.vol = branches[b].vol /\ ~w.up
        BY <1>0, <2>1, ZenonT(60) DEF BranchRow
    <2>4. proc' = [proc EXCEPT ![p] = q] /\ branches' = [branches EXCEPT ![b] = w]
        BY <1>6 DEF StopRemove, Go, GoWith
    <2>. HIDE DEF q, w
    <2>5. MovesTo(p, q)
        BY <2>1, <2>2, <2>4 DEF MovesTo, LocalsOK
    <2>6. BranchStep(p, q, b, w)
        BY <1>0, <2>1, <2>2, <2>3, <2>4, <2>5, Zenon DEF BranchStep, At
    <2>. QED BY <2>1, <2>6, BranchMoves, Unchanging
<1>7. CASE Destroyed(p)
    <2>1. At(p, "tomb") /\ proc[p].b \in Bs /\ UNCHANGED <<sources, vols>>
        BY <1>0, <1>7 DEF Destroyed, At, LocalsOK
    <2>2. CASE branches[proc[p].b].state = "destroying"
        <3>. DEFINE b == proc[p].b
                    q == [proc[p] EXCEPT !.pc = "gc"]
                    w == [branches[b] EXCEPT !.state = "destroyed"]
        <3>1. q \in Locals /\ q.pc = "gc"
            BY <1>0 DEF Locals
        <3>2. w \in BranchRow /\ w.vol = branches[b].vol /\ w.state = "destroyed" /\ (w.up <=> branches[b].up)
            BY <1>0, <2>1 DEF BranchRow
        <3>3. proc' = [proc EXCEPT ![p] = q] /\ branches' = [branches EXCEPT ![b] = w]
            BY <1>7, <2>2 DEF Destroyed, Go, GoWith
        <3>. HIDE DEF q, w
        <3>4. MovesTo(p, q)
            BY <3>1, <3>3 DEF MovesTo, LocalsOK
        <3>5. BranchStep(p, q, b, w)
            BY <1>0, <2>1, <3>1, <3>2, <3>3, <3>4, Zenon DEF BranchStep
        <3>. QED BY <2>1, <3>5, BranchMoves, Unchanging
    <2>3. CASE branches[proc[p].b].state # "destroying"
        BY <1>7, <2>1, <2>3, Ends, Unchanging DEF Destroyed
    <2>. QED BY <2>2, <2>3
<1>. QED BY <1>1, <1>2, <1>3, <1>4, <1>5, <1>6, <1>7

\* DeleteSourceCtx takes the branch rows with it; nothing becomes ready.
LEMMA DeleteStep ==
    ASSUME BasesInv, NEW p \in Procs, DeleteSource(p)
    PROVE  BasesInv'
<1>. DEFINE r == proc[p].row
<1>0. /\ At(p, "delete") /\ r \in Rows /\ proc[p] \in Locals /\ UNCHANGED vols
      /\ sources \in [Rows -> SourceRow] /\ branches \in [Bs -> BranchRow]
    BY DEF BasesInv, BasesTypeOK, LocalsOK, DeleteSource, At, Removals
<1>1. SourcesOK'
    <2>1. sources' = [sources EXCEPT ![r] = [sources[r] EXCEPT !.state = "gone"]]
        BY DEF DeleteSource, SetRow
    <2>. QED BY <1>0, <2>1, Unchanging DEF SourcesOK, SourceRow, Exists
<1>2. /\ branches' \in [Bs -> BranchRow]
      /\ \A b \in Bs : /\ branches'[b].vol = branches[b].vol
                       /\ branches'[b].up <=> branches[b].up
                       /\ branches'[b].state \in {branches[b].state, "gone"}
    <2>1. ASSUME NEW b \in Bs
          PROVE  /\ [branches[b] EXCEPT !.state = "gone"] \in BranchRow
                 /\ [branches[b] EXCEPT !.state = "gone"].vol = branches[b].vol
                 /\ [branches[b] EXCEPT !.state = "gone"].up <=> branches[b].up
                 /\ [branches[b] EXCEPT !.state = "gone"].state = "gone"
        BY <1>0 DEF BranchRow
    <2>2. branches' = [b \in Bs |-> IF branches[b].row = r
                                    THEN [branches[b] EXCEPT !.state = "gone"] ELSE branches[b]]
        BY DEF DeleteSource
    <2>. QED BY <1>0, <2>1, <2>2
<1>3. PICK q : /\ proc' = [proc EXCEPT ![p] = q] /\ q \in Locals /\ LocalsOK(q)
               /\ q.pc \notin Making \cup Seedings
    <2>. DEFINE q == [proc[p] EXCEPT !.pc = "delfailed"]
    <2>1. q \in Locals /\ q.row = r /\ q.pc = "delfailed"
        BY <1>0 DEF Locals, Removals
    <2>2. LocalsOK(q) /\ q.pc \notin Making \cup Seedings
        BY <1>0, <2>1 DEF LocalsOK, Making, Removals, Seedings
    <2>3. CASE r \in Exists
        <3>1. proc' = [proc EXCEPT ![p] = q]
            BY <2>3 DEF DeleteSource, Go, GoWith
        <3>. HIDE DEF q
        <3>. QED BY <2>1, <2>2, <3>1, Zenon
    <2>4. CASE r \notin Exists
        <3>1. proc' = [proc EXCEPT ![p] = Idle]
            BY <2>4 DEF DeleteSource, End, GoWith
        <3>2. Idle.pc \notin Making \cup Seedings
            BY IdleOK DEF Making, Seedings
        <3>. QED BY <3>1, <3>2, IdleOK, Zenon
    <2>. QED BY <2>3, <2>4
<1>4. /\ proc' \in [Procs -> Locals] /\ proc'[p] = q
      /\ \A x \in Procs \ {p} : proc'[x] = proc[x]
    BY <1>3 DEF BasesInv, BasesTypeOK
<1>5. BasesTypeOK'
    BY <1>0, <1>1, <1>2, <1>3, <1>4 DEF BasesInv, BasesTypeOK, SourcesOK
<1>6. MakersInv'
    <2>1. \A x \in Procs : proc'[x].pc \in Making => x # p /\ proc'[x] = proc[x] /\ proc[x].b \in Bs
        BY <1>3, <1>4 DEF BasesInv, BasesTypeOK, LocalsOK
    <2>. QED BY <1>2, <2>1, SMTT(30) DEF BasesInv, MakersInv
<1>7. MountedInv'
    BY <1>0, <1>2, <1>3, <1>4 DEF BasesInv, MountedInv, Seedings
<1>8. BaseIntact'
    BY <1>0, <1>2 DEF BasesInv, BaseIntact, HasSeed
<1>. QED BY <1>5, <1>6, <1>7, <1>8 DEF BasesInv

\* The steps that only read and decide.
LEMMA LocalSteps ==
    ASSUME BasesInv, NEW p \in Procs,
           \/ RefreshSource(p) \/ RemoveSource(p) \/ CreateBranch(p) \/ gcSourceVolume(p)
           \/ CountLiveBranches(p) \/ CheckGC(p) \/ Crash(p) \/ \E v \in Vols : PlanGC(p, v)
    PROVE  BasesInv'
<1>0. /\ OnlyProc /\ VolsKept /\ SourcesOK' /\ UNCHANGED branches
      /\ sources \in [Rows -> SourceRow] /\ \A r \in Exists : sources[r].vol \in Vols
    BY Unchanging, Zenon DEF RefreshSource, RemoveSource, CreateBranch, gcSourceVolume, CountLiveBranches,
       CheckGC, Crash, PlanGC, OnlyProc, SourcesOK
<1>. USE DEF Seedings, Making, Removals, Others
<1>a. ASSUME NEW q, q \in Locals, LocalsOK(q), q.pc \notin Making \cup {"seeding", "settling"},
             GoWith(p, q)
      PROVE  BasesInv'
    <2>1. MovesTo(p, q)
        BY <1>a DEF MovesTo, GoWith
    <2>. QED BY <1>0, <1>a, <2>1, BranchesRest
<1>1. CASE RefreshSource(p)
    <2>1. PICK r \in Exists :
            /\ sources[r].gen < MaxGen
            /\ GoWith(p, [Idle EXCEPT !.op = "refresh", !.pc = "claim", !.row = r,
                                      !.vol = sources[r].gen + 1, !.old = sources[r].vol])
        BY <1>1, Zenon DEF RefreshSource
    <2>2. r \in Rows /\ sources[r].gen + 1 \in Vols /\ sources[r].vol \in Vols
        BY <1>0, <2>1, SourcesAssumption DEF Exists, SourceRow, Vols
    <2>. DEFINE q == [Idle EXCEPT !.op = "refresh", !.pc = "claim", !.row = r,
                                  !.vol = sources[r].gen + 1, !.old = sources[r].vol]
    <2>3. q \in Locals /\ q.pc = "claim" /\ q.row = r /\ q.vol \in Vols
        BY <2>2, Zenon DEF Idle, Locals
    <2>. HIDE DEF q
    <2>. QED BY <1>a, <2>1, <2>2, <2>3, Zenon DEF LocalsOK, q
<1>2. CASE RemoveSource(p)
    <2>1. PICK r \in Exists, op \in {"rm", "rmready"} :
            GoWith(p, [Idle EXCEPT !.op = op, !.pc = "count", !.row = r, !.vol = sources[r].vol])
        BY <1>2, Zenon DEF RemoveSource
    <2>2. r \in Rows /\ sources[r].vol \in Vols
        BY <1>0, <2>1 DEF Exists
    <2>. DEFINE q == [Idle EXCEPT !.op = op, !.pc = "count", !.row = r, !.vol = sources[r].vol]
    <2>3. q \in Locals /\ q.pc = "count" /\ q.row = r
        BY <2>1, <2>2, Zenon DEF Idle, Locals
    <2>. QED BY <1>a, <2>1, <2>2, <2>3, Zenon DEF LocalsOK
<1>3. CASE CreateBranch(p)
    <2>1. PICK r \in Exists :
            GoWith(p, [Idle EXCEPT !.op = "create", !.pc = "insert", !.row = r, !.vol = sources[r].vol])
        BY <1>3, Zenon DEF CreateBranch
    <2>2. r \in Rows /\ sources[r].vol \in Vols
        BY <1>0, <2>1 DEF Exists
    <2>. DEFINE q == [Idle EXCEPT !.op = "create", !.pc = "insert", !.row = r, !.vol = sources[r].vol]
    <2>3. q \in Locals /\ q.pc = "insert" /\ q.row = r /\ q.vol \in Vols
        BY <2>1, <2>2, Zenon DEF Idle, Locals
    <2>. QED BY <1>a, <2>1, <2>2, <2>3, Zenon DEF LocalsOK
<1>4. CASE gcSourceVolume(p)
    <2>1. PICK pc \in {"gcrm"} : End(p) \/ Go(p, pc)
        BY <1>4 DEF gcSourceVolume
    <2>. QED BY <1>0, <2>1, Ends, Goes
<1>5. CASE CountLiveBranches(p)
    <2>1. At(p, "count") /\ (End(p) \/ Go(p, "rmvol"))
        BY <1>5 DEF CountLiveBranches
    <2>. QED BY <1>0, <2>1, Ends, Goes DEF At
<1>6. CASE CheckGC(p)
    <2>1. End(p) \/ Go(p, "gcvrm")
        BY <1>6 DEF CheckGC
    <2>. QED BY <1>0, <2>1, Ends, Goes
<1>7. CASE Crash(p)
    BY <1>0, <1>7, Ends DEF Crash
<1>8. CASE \E v \in Vols : PlanGC(p, v)
    <2>1. PICK v \in Vols : GoWith(p, [Idle EXCEPT !.op = "gc", !.pc = "gcv", !.vol = v])
        BY <1>8, Zenon DEF PlanGC
    <2>. DEFINE q == [Idle EXCEPT !.op = "gc", !.pc = "gcv", !.vol = v]
    <2>2. q \in Locals /\ q.pc = "gcv"
        BY <2>1, Zenon DEF Idle, Locals
    <2>. QED BY <1>a, <2>1, <2>2, Zenon DEF LocalsOK
<1>. QED BY <1>1, <1>2, <1>3, <1>4, <1>5, <1>6, <1>7, <1>8

-----------------------------------------------------------------------------

\* Every step keeps the invariant.
LEMMA BasesStep ==
    ASSUME BasesInv, [SourcesNext]_srcVars
    PROVE  BasesInv'
<1>1. ASSUME NEW p \in Procs, Request(p)
      PROVE  BasesInv'
    BY <1>1, SourceSteps, LocalSteps, BranchSteps DEF Request
<1>2. ASSUME NEW p \in Procs, Step(p)
      PROVE  BasesInv'
    BY <1>2, SourceSteps, LocalSteps, BranchSteps, VolumeSteps, DeleteStep DEF Step
<1>3. ASSUME NEW p \in Procs, FailStuckSource(p) \/ Crash(p) \/ \E v \in Vols : PlanGC(p, v)
      PROVE  BasesInv'
    BY <1>3, SourceSteps, LocalSteps
<1>4. CASE UNCHANGED srcVars
    BY <1>4, ZenonT(30) DEF srcVars, BasesInv, BasesTypeOK, MakersInv, MountedInv, BaseIntact, HasSeed, Exists
<1>. QED BY <1>1, <1>2, <1>3, <1>4 DEF SourcesNext

\* It holds at the start.
LEMMA BasesStart == SourcesInit => BasesInv
BY IdleOK, SMTT(30) DEF SourcesInit, BasesInv, BasesTypeOK, MakersInv, MountedInv, BaseIntact,
    Exists, NoSource, NoBranch, SourceRow, BranchRow, Making

\* Branches keep the base they were created from (engine.go: refresh, removal and
\* re-addition of the name, garbage collection and reconcile run beside them, and
\* any of them may die half way): a ready, running branch is on a complete seed.
THEOREM BasesStayIntact == SourcesSpec => []BaseIntact
<1>1. SourcesInit => BasesInv
    BY BasesStart
<1>2. BasesInv /\ [SourcesNext]_srcVars => BasesInv'
    BY BasesStep
<1>3. BasesInv => BaseIntact
    BY DEF BasesInv
<1>. QED BY <1>1, <1>2, <1>3, PTL DEF SourcesSpec
=============================================================================
