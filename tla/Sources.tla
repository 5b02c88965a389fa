------------------------------- MODULE Sources -------------------------------
(***************************************************************************)
(* Sources (internal/engine/engine.go): adding, refreshing and removing a  *)
(* source, branches that are created from it and destroyed, and the two    *)
(* reconcile actions on source volumes.  Operations run concurrently and   *)
(* without a lock; each action is one registry call or one driver call.    *)
(*                                                                         *)
(* There is one source name.  A volume is a generation number, because its *)
(* name depends on the source's name and generation only: rows that follow *)
(* each other under the name use the same volumes.  The driver is docker:  *)
(* creating a volume that exists and removing one that is mounted fail,    *)
(* mounting one that does not exist makes an empty, unmanaged one.         *)
(* Heartbeats are timely: only a dead seed goes stale.  Frozen layers and  *)
(* a branch's own volume are in module Sagas; the age that gc_volume asks  *)
(* of a volume is left out (it only delays the removal).                   *)
(***************************************************************************)
EXTENDS Naturals, FiniteSets

CONSTANTS Rows,       \* source row ids
          Bs,         \* branch row ids
          Users, Reconcilers, None, MaxGen, MaxOps, MaxFaults

ASSUME SourcesAssumption ==
    /\ MaxGen \in Nat \ {0} /\ {MaxOps, MaxFaults} \subseteq Nat
    /\ Users \cap Reconcilers = {} /\ "raw" \notin Rows
    /\ None \notin [seed : Rows \cup {"raw"}, managed : BOOLEAN]

Procs == Users \cup Reconcilers
Vols == 1..MaxGen

VARIABLES sources,   \* registry: [state, gen, vol, pending] per row
          branches,  \* registry and runtime: [state, row, vol, up] per branch
          vols,      \* None, or [seed, managed]: seed is the row that seeded it, or "raw"
          proc,      \* locals of the operations
          left       \* operations and faults left

srcVars == <<sources, branches, vols, proc, left>>

Idle == [op |-> None, pc |-> "idle", row |-> None,
         vol |-> None, old |-> None, b |-> None]
NoSource == [state |-> "none", gen |-> 0, vol |-> None, pending |-> None]
NoBranch == [state |-> "none", row |-> None, vol |-> None, up |-> FALSE]

SourcesInit ==
    /\ sources = [r \in Rows |-> NoSource] /\ branches = [b \in Bs |-> NoBranch]
    /\ vols = [v \in Vols |-> None] /\ proc = [p \in Procs |-> Idle]
    /\ left = [ops |-> MaxOps, faults |-> MaxFaults]

Exists == {r \in Rows : sources[r].state \in {"seeding", "ready", "failed"}}
LiveBs == {b \in Bs : branches[b].state \in {"creating", "ready", "failed", "destroying"}}

At(p, pc) == proc[p].pc = pc
GoWith(p, q) == proc' = [proc EXCEPT ![p] = q]
Go(p, pc) == GoWith(p, [proc[p] EXCEPT !.pc = pc])
End(p) == GoWith(p, Idle)
Begin(p) == /\ p \in Users /\ At(p, "idle") /\ left.ops > 0
            /\ left' = [left EXCEPT !.ops = @ - 1]
Fault == left.faults > 0 /\ left' = [left EXCEPT !.faults = @ - 1]
Free == UNCHANGED left
OnlyProc == UNCHANGED <<sources, branches, vols>>
SetRow(r, row) == sources' = [sources EXCEPT ![r] = row]

\* The driver.
Seeder(p, v) == proc[p].pc \in {"seeding", "settling"} /\ proc[p].vol = v

\* In use as seen without the branches' containers.
InUseByHelpers(v) == \E p \in Procs : Seeder(p, v)

InUse(v) == (\E p \in Procs : Seeder(p, v)) \/ (\E b \in Bs : branches[b].up /\ branches[b].vol = v)
HasSeed(v) == vols[v] # None /\ vols[v].seed # "raw"
Raw(managed) == [seed |-> "raw", managed |-> managed]

\* RemoveVolume; a mounted volume stays.
Removed(v) == IF InUse(v) THEN vols ELSE [vols EXCEPT ![v] = None]

\* A container or helper mounts v.
Mounted(v) == IF vols[v] = None THEN [vols EXCEPT ![v] = Raw(FALSE)] ELSE vols

-----------------------------------------------------------------------------
(* AddSource. *)

\* CreateSourceCtx: a failed attempt of the name is replaced, a live one refuses.
CreateSourceCtx(p) ==
    /\ Begin(p) /\ \A r \in Exists : sources[r].state = "failed"
    /\ \E r \in {x \in Rows : sources[x].state = "none"} :
        /\ sources' = [x \in Rows |->
              IF x = r THEN [state |-> "seeding", gen |-> 1, vol |-> 1, pending |-> None]
              ELSE IF x \in Exists THEN [sources[x] EXCEPT !.state = "gone"] ELSE sources[x]]
        /\ GoWith(p, [Idle EXCEPT !.op = "add", !.pc = "mkvol", !.row = r, !.vol = 1])
    /\ UNCHANGED <<branches, vols>>

\* SetSourceStateCtx: only a seeding row moves.
SetSourceState(r, to) ==
    SetRow(r, IF sources[r].state = "seeding" THEN [sources[r] EXCEPT !.state = to] ELSE sources[r])

Marks(p, pc, to) == /\ At(p, pc) /\ SetSourceState(proc[p].row, to) /\ End(p) /\ Free
                    /\ UNCHANGED <<branches, vols>>

MarkFailed(p) == Marks(p, "setfailed", "failed")
MarkReady(p) == Marks(p, "setready", "ready")

Failing(p) == IF proc[p].op = "add" THEN "setfailed" ELSE "release"

createSourceLayer(p) ==
    LET v == proc[p].vol IN
    /\ At(p, "mkvol") /\ Free /\ UNCHANGED <<sources, branches>>
    /\ IF vols[v] = None
       THEN vols' = [vols EXCEPT ![v] = Raw(TRUE)] /\ Go(p, "seed")
       ELSE UNCHANGED vols /\ Go(p, Failing(p))

\* seedSource: pg_basebackup refuses a data directory that is there.
SeedStarts(p) ==
    LET v == proc[p].vol IN
    /\ At(p, "seed") /\ Free /\ UNCHANGED <<sources, branches>> /\ vols' = Mounted(v)
    /\ Go(p, IF vols'[v].seed = "raw" /\ ~\E q \in Procs : Seeder(q, v)
             THEN "seeding" ELSE "undo")

\* Seed: the copy, its clean-up and the version check succeed, or one does not.
SeedEnds(p) ==
    /\ At(p, "seeding") /\ UNCHANGED <<sources, branches>>
    /\ \/ /\ Free /\ vols' = [vols EXCEPT ![proc[p].vol].seed = proc[p].row]
          /\ Go(p, "settle")
       \/ Fault /\ UNCHANGED vols /\ Go(p, "undo")

\* What follows a complete seed.
Seeded(p) == IF proc[p].op = "add" THEN "setready" ELSE "bump"

\* SeedDump, whose one helper also settles; and Seed when Settle is off.
SeedDump(p) ==
    /\ At(p, "seeding") /\ Free /\ UNCHANGED <<sources, branches>>
    /\ vols' = [vols EXCEPT ![proc[p].vol].seed = proc[p].row] /\ Go(p, Seeded(p))

\* Settle: another helper mounts the volume; the server it starts
\* needs the first one's data.
Settle(p) ==
    LET v == proc[p].vol IN
    /\ At(p, "settle") /\ Free /\ UNCHANGED <<sources, branches>> /\ vols' = Mounted(v)
    /\ Go(p, IF vols'[v].seed = "raw" THEN "undo" ELSE "settling")

\* settleScript: started, vacuumed (or not) and shut down cleanly, or not.
Settled(p) ==
    /\ At(p, "settling") /\ OnlyProc
    /\ \/ Free /\ Go(p, Seeded(p))
       \/ Fault /\ Go(p, "undo")

removeSourceLayer(p) ==
    /\ At(p, "undo") /\ Free /\ UNCHANGED <<sources, branches>>
    /\ vols' = Removed(proc[p].vol) /\ Go(p, Failing(p))

-----------------------------------------------------------------------------
(* RefreshSource. *)

RefreshSource(p) ==
    /\ Begin(p) /\ OnlyProc
    /\ \E r \in Exists :
        /\ sources[r].state = "ready" /\ sources[r].gen < MaxGen
        /\ GoWith(p, [Idle EXCEPT !.op = "refresh", !.pc = "claim", !.row = r,
                                  !.vol = sources[r].gen + 1, !.old = sources[r].vol])

\* SetSourcePendingVolume, to claim the next generation and to give it up.
Claim(p) ==
    LET r == proc[p].row IN
    /\ At(p, "claim") /\ Free /\ UNCHANGED <<branches, vols>>
    /\ IF r \in Exists
       THEN SetRow(r, [sources[r] EXCEPT !.pending = proc[p].vol]) /\ Go(p, "mkvol")
       ELSE UNCHANGED sources /\ End(p)

Release(p) ==
    LET r == proc[p].row IN
    /\ At(p, "release") /\ Free /\ End(p) /\ UNCHANGED <<branches, vols>>
    /\ SetRow(r, IF r \in Exists THEN [sources[r] EXCEPT !.pending = None] ELSE sources[r])

\* The generation read at the start is collected; a row that is gone ends the refresh.
BumpSourceGeneration(p) ==
    LET r == proc[p].row IN
    /\ At(p, "bump") /\ Free /\ UNCHANGED <<branches, vols>>
    /\ IF r \in Exists
       THEN /\ SetRow(r, [sources[r] EXCEPT !.gen = @ + 1, !.vol = proc[p].vol, !.pending = None])
            /\ GoWith(p, [proc[p] EXCEPT !.pc = "gc", !.vol = proc[p].old, !.old = None])
       ELSE UNCHANGED sources /\ End(p)

\* gcSourceVolume: the two reads, then the removal.
gcSourceVolume(p) ==
    LET q == proc[p] IN
    /\ At(p, "gc") /\ OnlyProc /\ Free
    /\ IF \/ q.row \in Exists /\ sources[q.row].vol = q.vol
          \/ \E b \in LiveBs : branches[b].vol = q.vol
       THEN End(p) ELSE Go(p, "gcrm")

GCRemoves(p) ==
    /\ proc[p].pc \in {"gcrm", "rmhalf", "gcvrm"} /\ vols' = Removed(proc[p].vol)
    /\ End(p) /\ Free /\ UNCHANGED <<sources, branches>>

-----------------------------------------------------------------------------
(* RemoveSource. *)

RemoveSource(p) ==
    /\ Begin(p) /\ OnlyProc
    /\ \E r \in Exists :
        GoWith(p, [Idle EXCEPT !.op = IF sources[r].state = "ready" THEN "rmready" ELSE "rm",
                               !.pc = "count", !.row = r, !.vol = sources[r].vol])

CountLiveBranches(p) ==
    /\ At(p, "count") /\ OnlyProc /\ Free
    /\ IF \E b \in LiveBs : branches[b].row = proc[p].row THEN End(p) ELSE Go(p, "rmvol")

\* A ready source's volume must go; another's may be missing or busy.
RemoveCurrent(p) ==
    /\ At(p, "rmvol") /\ Free /\ UNCHANGED <<sources, branches>>
    /\ vols' = Removed(proc[p].vol)
    /\ IF InUse(proc[p].vol) /\ proc[p].op = "rmready" THEN End(p) ELSE Go(p, "delete")

\* DeleteSourceCtx: the source and every branch row of it.
DeleteSource(p) ==
    LET r == proc[p].row IN
    /\ At(p, "delete") /\ Free /\ UNCHANGED vols
    /\ IF r \in Exists THEN Go(p, "delfailed") ELSE End(p)
    /\ SetRow(r, [sources[r] EXCEPT !.state = "gone"])
    /\ branches' = [b \in Bs |-> IF branches[b].row = r
                                 THEN [branches[b] EXCEPT !.state = "gone"] ELSE branches[b]]

DeleteFailedSources(p) ==
    /\ At(p, "delfailed") /\ End(p) /\ Free /\ UNCHANGED <<branches, vols>>
    /\ sources' = [r \in Rows |-> IF sources[r].state = "failed"
                                  THEN [sources[r] EXCEPT !.state = "gone"] ELSE sources[r]]

-----------------------------------------------------------------------------
(* CreateBranch and DestroyBranch, as far as they concern the source. *)

CreateBranch(p) ==
    /\ Begin(p) /\ OnlyProc
    /\ \E r \in Exists :
        /\ sources[r].state = "ready"
        /\ GoWith(p, [Idle EXCEPT !.op = "create", !.pc = "insert", !.row = r,
                                  !.vol = sources[r].vol])

\* CreateBranchCtx: the foreign key refuses a source row that is gone.
CreateBranchCtx(p) ==
    LET q == proc[p] IN
    /\ At(p, "insert") /\ Free /\ UNCHANGED <<sources, vols>>
    /\ IF q.row \in Exists
       THEN \E b \in {x \in Bs : branches[x].state = "none"} :
              /\ branches' = [branches EXCEPT ![b] = [state |-> "creating", row |-> q.row,
                                                      vol |-> q.vol, up |-> FALSE]]
              /\ GoWith(p, [q EXCEPT !.pc = "start", !.b = b])
       ELSE UNCHANGED branches /\ End(p)

Start(p) ==
    /\ At(p, "start") /\ vols' = Mounted(proc[p].vol) /\ Go(p, "await") /\ Free
    /\ branches' = [branches EXCEPT ![proc[p].b].up = TRUE] /\ UNCHANGED sources

\* Ready only on a seeded base, and only while the row is still creating.
awaitAndMark(p) ==
    LET q == proc[p] IN
    /\ At(p, "await") /\ Free /\ UNCHANGED <<sources, vols>>
    /\ IF HasSeed(q.vol) /\ branches[q.b].state = "creating"
       THEN branches' = [branches EXCEPT ![q.b].state = "ready"] /\ End(p)
       ELSE UNCHANGED branches /\ Go(p, "unstart")

Unstart(p) ==
    LET b == proc[p].b IN
    /\ At(p, "unstart") /\ End(p) /\ Free /\ UNCHANGED <<sources, vols>>
    /\ branches' = [branches EXCEPT ![b].up = FALSE,
          ![b].state = IF @ = "creating" THEN "failed" ELSE @]

DestroyBranch(p) ==
    /\ Begin(p) /\ UNCHANGED <<sources, vols>>
    /\ \E b \in {x \in Bs : branches[x].state \in {"ready", "failed", "destroying"}} :
        /\ branches' = [branches EXCEPT ![b].state = "destroying"]
        /\ GoWith(p, [Idle EXCEPT !.op = "destroy", !.pc = "stop", !.b = b,
                                  !.row = branches[b].row, !.vol = branches[b].vol])

StopRemove(p) ==
    /\ At(p, "stop") /\ Go(p, "tomb") /\ Free /\ UNCHANGED <<sources, vols>>
    /\ branches' = [branches EXCEPT ![proc[p].b].up = FALSE]

Destroyed(p) ==
    LET b == proc[p].b IN
    /\ At(p, "tomb") /\ Free /\ UNCHANGED <<sources, vols>>
    /\ IF branches[b].state = "destroying"
       THEN branches' = [branches EXCEPT ![b].state = "destroyed"] /\ Go(p, "gc")
       ELSE UNCHANGED branches /\ End(p)

-----------------------------------------------------------------------------
(* Reconcile. *)

\* A row that a live AddSource keeps alive.
Heartbeats(r) == \E p \in Procs : proc[p].op = "add" /\ proc[p].row = r

StuckSource(r) == sources[r].state = "seeding" /\ ~Heartbeats(r)

\* fail_stuck_source without its swap: the row keeps seeding.
FailStuckForgets(p) ==
    /\ p \in Reconcilers /\ At(p, "idle") /\ Free /\ UNCHANGED <<sources, branches, vols>>
    /\ \E r \in Rows :
        /\ StuckSource(r)
        /\ GoWith(p, [Idle EXCEPT !.op = "failstuck", !.pc = "rmhalf", !.vol = sources[r].vol])

\* fail_stuck_source: plan, read and swap, which repeats the plan's criterion, are
\* one step; then the half-seeded volume goes.
FailStuckSource(p) ==
    /\ p \in Reconcilers /\ At(p, "idle") /\ Free /\ UNCHANGED <<branches, vols>>
    /\ \E r \in Rows :
        /\ StuckSource(r) /\ SetSourceState(r, "failed")
        /\ GoWith(p, [Idle EXCEPT !.op = "failstuck", !.pc = "rmhalf", !.vol = sources[r].vol])

\* LiveVolumeSet with the volumes of destroyed branches.
LiveVolumeSetDead == {branches[b].vol : b \in Bs} \cup {sources[r].vol : r \in Exists}
                     \cup {sources[r].pending : r \in Exists}

LiveVolumeSet ==
    {branches[b].vol : b \in LiveBs} \cup {sources[r].vol : r \in Exists}
    \cup {sources[r].pending : r \in Exists}

\* gc_volume: planned from one LiveVolumeSet, re-checked against another.
PlanGC(p, v) ==
    /\ p \in Reconcilers /\ At(p, "idle") /\ Free /\ OnlyProc
    /\ vols[v] # None /\ vols[v].managed /\ v \notin LiveVolumeSet
    /\ GoWith(p, [Idle EXCEPT !.op = "gc", !.pc = "gcv", !.vol = v])

CheckGC(p) == /\ At(p, "gcv") /\ Free /\ OnlyProc
              /\ IF proc[p].vol \in LiveVolumeSet THEN End(p) ELSE Go(p, "gcvrm")

Crash(p) == ~At(p, "idle") /\ Fault /\ End(p) /\ OnlyProc

-----------------------------------------------------------------------------

Request(p) == \/ CreateSourceCtx(p) \/ RefreshSource(p) \/ RemoveSource(p)
              \/ CreateBranch(p) \/ DestroyBranch(p)

Step(p) == \/ createSourceLayer(p) \/ SeedStarts(p) \/ SeedEnds(p) \/ SeedDump(p)
           \/ Settle(p) \/ Settled(p)
           \/ removeSourceLayer(p)
           \/ MarkFailed(p) \/ MarkReady(p) \/ Claim(p) \/ Release(p)
           \/ BumpSourceGeneration(p) \/ gcSourceVolume(p) \/ GCRemoves(p)
           \/ CountLiveBranches(p) \/ RemoveCurrent(p) \/ DeleteSource(p)
           \/ DeleteFailedSources(p)
           \/ CreateBranchCtx(p) \/ Start(p) \/ awaitAndMark(p) \/ Unstart(p)
           \/ StopRemove(p) \/ Destroyed(p) \/ CheckGC(p)

SourcesNext == \E p \in Procs :
    \/ Request(p) \/ Step(p) \/ FailStuckSource(p) \/ Crash(p)
    \/ \E v \in Vols : PlanGC(p, v)

\* Operations run on, and reconcile passes keep coming, each doing every action
\* that is due (strong fairness: a pass may be busy with another one first).
SourcesFairness ==
    /\ \A p \in Procs : WF_srcVars(Step(p))
    /\ \A p \in Reconcilers : /\ SF_srcVars(FailStuckSource(p))
                              /\ \A v \in Vols : SF_srcVars(PlanGC(p, v))

SourcesSpec == SourcesInit /\ [][SourcesNext]_srcVars /\ SourcesFairness

-----------------------------------------------------------------------------
(* Properties. *)

\* Every volume, row and local is what the code can put there.
SourcesTypeOK ==
    /\ \A r \in Rows : /\ sources[r].vol \in Vols \cup {None}
                       /\ sources[r].pending \in Vols \cup {None} /\ sources[r].gen \in Nat
    /\ \A v \in Vols : vols[v] # None => vols[v].seed \in Rows \cup {"raw"}
    /\ \A p \in Procs : DOMAIN proc[p] = DOMAIN Idle

\* "Existing branches keep the volume they were created from": a ready branch
\* runs on a complete seed, whatever refreshes, removals, re-additions of the name
\* and garbage collections run beside it.
BaseIntact ==
    \A b \in Bs : branches[b].state = "ready" /\ branches[b].up =>
        HasSeed(branches[b].vol)

\* A seed whose process died does not leave its source seeding for good:
\* fail_stuck_source ends it.
SeedingEnds == \A r \in Rows : sources[r].state = "seeding" ~> sources[r].state # "seeding"

\* A managed volume that no row names or claims and nothing mounts.
Orphan(v) == /\ vols[v] # None /\ vols[v].managed /\ ~InUse(v)
             /\ \A b \in LiveBs : branches[b].vol # v
             /\ \A r \in Exists : v \notin {sources[r].vol, sources[r].pending}

\* "The previous generation's volume is GC'd once no live branch references it":
\* an orphan is removed or taken up again, also after a crash in the middle of a
\* refresh, a removal or a destroy.
OrphansGo == \A v \in Vols : Orphan(v) ~> ~Orphan(v)
=============================================================================
