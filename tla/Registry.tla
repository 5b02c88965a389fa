------------------------------ MODULE Registry ------------------------------
(***************************************************************************)
(* The branch half of the SQLite registry (internal/registry/registry.go): *)
(* the branches and layers tables and the transitions journal.  SQLite     *)
(* serialises writers (one connection, BEGIN IMMEDIATE), so every exported *)
(* method is one atomic action here.  RegistrySpec lets any client call    *)
(* any method at any time; the sagas of Engine.tla are one such client.    *)
(*                                                                         *)
(* Abstractions: a timestamp is what the queries compare it with.  `stale' *)
(* is updated_at < before (the stuck cut-off), `ttl' is expires_at against *)
(* now ("never" is the empty string).  Host, port, password, actor and     *)
(* reason columns are left out.  A row that was never inserted has state   *)
(* "absent"; ids are never reused, so a deleted layer is "gone".           *)
(***************************************************************************)
EXTENDS Naturals, Sequences, FiniteSets

CONSTANTS
    RowIds,       \* ids newID() can hand to branch rows
    LayerIds,     \* ids newID() can hand to layer rows
    Names,        \* branch names
    Cids,         \* container ids (docker) or pod names (kube)
    MaxGen,       \* bound on writable-volume generations of one name
    None,         \* SQL NULL and the empty string
    KeepJournal   \* FALSE leaves the journal empty (no property reads it)

ASSUME RegistryAssumption ==
    /\ MaxGen \in Nat \ {0}
    /\ KeepJournal \in BOOLEAN
    /\ None \notin RowIds \cup LayerIds \cup Names \cup Cids
    /\ None \notin Names \X (1..MaxGen)

VARIABLES
    branches,     \* the branches table
    layers,       \* the layers table
    journal       \* the transitions rows of each branch, oldest first

regVars == <<branches, layers, journal>>

\* cow.BranchRWVolumeNameGen: generation g of a branch name's writable volume.
Vols == Names \X (1..MaxGen)

States == {"absent", "creating", "ready", "resetting", "failed",
           "destroying", "destroyed"}

Row == [name: Names \cup {None}, state: States, rw: Vols \cup {None},
        base: LayerIds \cup {None}, parent: Names \cup {None},
        pending: Vols \cup {None}, cid: Cids \cup {None},
        stale: BOOLEAN, ttl: {"never", "later", "past"}]

Layer == [st: {"absent", "live", "gone"}, vol: Vols \cup {None},
          prev: LayerIds \cup {None}]

NoRow == [name |-> None, state |-> "absent", rw |-> None, base |-> None,
          parent |-> None, pending |-> None, cid |-> None, stale |-> FALSE,
          ttl |-> "never"]

NoLayer == [st |-> "absent", vol |-> None, prev |-> None]

RegistryInit ==
    /\ branches = [id \in RowIds |-> NoRow]
    /\ layers = [l \in LayerIds |-> NoLayer]
    /\ journal = [id \in RowIds |-> << >>]

-----------------------------------------------------------------------------
(* The state machine and the queries. *)

\* legalBranch: the states a row may move to from s.
legalBranch(s) ==
    CASE s = "creating"   -> {"ready", "failed"}
      [] s = "ready"      -> {"destroying", "resetting"}
      [] s = "resetting"  -> {"ready", "failed"}
      [] s = "failed"     -> {"resetting", "destroying"}
      [] s = "destroying" -> {"destroyed"}
      [] OTHER            -> {}

Exists(id) == branches[id].state # "absent"
Live(id) == branches[id].state \notin {"absent", "destroyed"}
LiveRows == {id \in RowIds : Live(id)}

\* GetBranchByName: the live rows of a name (at most one, UniqueLiveNames).
ByName(n) == {id \in RowIds : Live(id) /\ branches[id].name = n}

\* InFlightChildren: rows still being created from branch n.
InFlightChildren(n) ==
    {id \in RowIds : branches[id].state = "creating" /\ branches[id].parent = n}

\* Mutant: rows left resetting are never stuck.
StuckCreatingOnly(id) == branches[id].state = "creating" /\ branches[id].stale

\* ListStuckBranches, and the criterion of FailStuckBranch.
Stuck(id) == branches[id].state \in {"creating", "resetting"} /\ branches[id].stale

\* ListStuckDestroyingBranches.
StuckDestroying(id) == branches[id].state = "destroying" /\ branches[id].stale

\* ListExpiredBranches.
Expired(id) == branches[id].state \in {"ready", "failed"} /\ branches[id].ttl = "past"

LiveLayers == {l \in LayerIds : layers[l].st = "live"}

\* Mutant: frozen layers are forgotten.
VolumeNameUsedByRows(v) == \E id \in RowIds : v \in {branches[id].rw, branches[id].pending}

\* VolumeNameUsed: a row names v, destroyed tombstones included; a deleted layer's
\* volume is unused again.
VolumeNameUsed(v) ==
    \/ \E id \in RowIds : v \in {branches[id].rw, branches[id].pending}
    \/ \E l \in LiveLayers : layers[l].vol = v

\* LiveVolumeSet: what volume GC must keep.
LiveVolumeSet ==
    {branches[id].rw : id \in LiveRows}
    \cup {layers[l].vol : l \in LiveLayers}
    \cup {branches[id].pending :
            id \in {i \in RowIds : branches[i].state \in {"creating", "resetting"}}}

\* CountLiveBranchesReferencingRW, for overlay rows (whose source_volume is
\* never another branch's rw volume): uncommitted children of branch n.
ReferencingRW(n, v) ==
    {id \in LiveRows : /\ branches[id].name # n
                       /\ branches[id].parent = n
                       /\ branches[id].base = None}

\* The layers reached from l along parent_layer_id, newest first.  A missing
\* layer row ends the walk (LayerChain then reports an error).
ChainFrom(l) ==
    LET chain[k \in LayerIds \cup {None}] ==
          IF k = None THEN << >>
          ELSE IF layers[k].st # "live" THEN <<k>>
          ELSE <<k>> \o chain[layers[k].prev]
    IN chain[l]

\* LayerChain: a branch's frozen layers, newest first.
LayerChain(id) == ChainFrom(branches[id].base)

ChainSet(id) == {LayerChain(id)[i] : i \in 1..Len(LayerChain(id))}
ChainOK(id) == ChainSet(id) \subseteq LiveLayers

\* CountBranchesReferencingLayer: live branches whose chain contains l.
ReferencingLayer(l) == {id \in LiveRows : l \in ChainSet(id)}

-----------------------------------------------------------------------------
(* The methods.  Each is guarded by the condition under which it commits;  *)
(* when the guard is false the method returns an error and changes nothing *)
(* (the caller's step then carries the error path).                        *)

\* journalTx: append transitions rows for a branch.
Journal(id, entries) ==
    journal' = IF KeepJournal THEN [journal EXCEPT ![id] = @ \o entries]
                              ELSE journal

\* Mutant: the partial unique index covers destroyed rows only.
CreateBranchNoIndex(id, n, rw, parent, ttl) ==
    /\ ~Exists(id)
    /\ branches' = [branches EXCEPT ![id] =
          [NoRow EXCEPT !.name = n, !.state = "creating", !.rw = rw,
                        !.parent = parent, !.ttl = ttl]]
    /\ Journal(id, <<<<"absent", "creating">>>>)
    /\ UNCHANGED layers

\* CreateBranchCtx: insert a creating row; the partial unique index refuses a
\* name a live row holds.
CreateBranch(id, n, rw, parent, ttl) ==
    /\ ~Exists(id)
    /\ ByName(n) = {}
    /\ branches' = [branches EXCEPT ![id] =
          [NoRow EXCEPT !.name = n, !.state = "creating", !.rw = rw,
                        !.parent = parent, !.ttl = ttl]]
    /\ Journal(id, <<<<"absent", "creating">>>>)
    /\ UNCHANGED layers

\* TransitionBranchCtx: the compare-and-swap on the state column alone.
TransitionBranch(id, to) ==
    /\ to \in legalBranch(branches[id].state)
    /\ branches' = [branches EXCEPT ![id].state = to, ![id].stale = FALSE]
    /\ Journal(id, <<<<branches[id].state, to>>>>)
    /\ UNCHANGED layers

\* Mutant: the journal row is forgotten.
MarkBranchReadyUnjournaled(id, c) ==
    /\ "ready" \in legalBranch(branches[id].state)
    /\ branches' = [branches EXCEPT ![id].state = "ready", ![id].stale = FALSE,
                                    ![id].cid = c]
    /\ UNCHANGED <<layers, journal>>

\* MarkBranchReadyCtx: the same swap, writing container_id with the state.
MarkBranchReady(id, c) ==
    /\ "ready" \in legalBranch(branches[id].state)
    /\ branches' = [branches EXCEPT ![id].state = "ready", ![id].stale = FALSE,
                                    ![id].cid = c]
    /\ Journal(id, <<<<branches[id].state, "ready">>>>)
    /\ UNCHANGED layers

\* SetBranchContainer: no state guard.
SetBranchContainer(id, c) ==
    /\ Exists(id)
    /\ branches' = [branches EXCEPT ![id].cid = c, ![id].stale = FALSE]
    /\ UNCHANGED <<layers, journal>>

\* TouchBranch: a heartbeat, or a freeze's progress mark.
TouchBranch(id) ==
    /\ Exists(id)
    /\ branches' = [branches EXCEPT ![id].stale = FALSE]
    /\ UNCHANGED <<layers, journal>>

\* NoteBranchCtx: journal an event without a state change.
NoteBranch(id) ==
    /\ Exists(id)
    /\ branches' = [branches EXCEPT ![id].stale = FALSE]
    /\ Journal(id, <<<<branches[id].state, branches[id].state>>>>)
    /\ UNCHANGED layers

\* SetBranchPendingVolume: claim (or, with None, release) a volume no column
\* names yet.  It does not bump updated_at.
SetBranchPendingVolume(id, v) ==
    /\ Exists(id)
    /\ branches' = [branches EXCEPT ![id].pending = v]
    /\ UNCHANGED <<layers, journal>>

\* When CommitFreezeCtx commits: the parent is resetting, the child row exists
\* (in any state), and the parent's previous base satisfies the foreign key.
CanCommitFreeze(pid, kid) ==
    /\ pid # kid /\ Exists(kid)
    /\ branches[pid].state = "resetting"
    /\ branches[pid].base # None => layers[branches[pid].base].st = "live"

\* CommitFreezeCtx: the parent's old rw volume becomes layer l on top of its
\* previous base, the parent swaps onto newRW and is ready, the child bases on l.
CommitFreeze(pid, kid, l, frozen, newRW, c) ==
    /\ CanCommitFreeze(pid, kid) /\ layers[l].st = "absent"
    /\ layers' = [layers EXCEPT ![l] =
          [st |-> "live", vol |-> frozen, prev |-> branches[pid].base]]
    /\ branches' = [branches EXCEPT
          ![pid] = [@ EXCEPT !.rw = newRW, !.base = l, !.cid = c,
                             !.state = "ready", !.pending = None, !.stale = FALSE],
          ![kid] = [@ EXCEPT !.base = l, !.stale = FALSE]]
    /\ Journal(pid, <<<<branches[pid].state, "ready">>>>)

\* DeleteLayer: the foreign key refuses while a layer chains onto l.
DeleteLayer(l) ==
    /\ layers[l].st = "live"
    /\ \A k \in LiveLayers : layers[k].prev # l
    /\ layers' = [layers EXCEPT ![l].st = "gone"]
    /\ UNCHANGED <<branches, journal>>

\* UpdateBranchEndpoint: re-point a ready row that still records container c.
UpdateBranchEndpoint(id, c, d) ==
    /\ branches[id].state = "ready" /\ branches[id].cid = c
    /\ branches' = [branches EXCEPT ![id].cid = d]
    /\ UNCHANGED <<layers, journal>>

\* UpdateBranchEndpointCtx: the same swap, journaled ready -> ready.
UpdateBranchEndpointCtx(id, c, d) ==
    /\ branches[id].state = "ready" /\ branches[id].cid = c
    /\ branches' = [branches EXCEPT ![id].cid = d, ![id].stale = FALSE]
    /\ Journal(id, <<<<"ready", "ready">>>>)
    /\ UNCHANGED layers

\* FailReadyBranch: ready -> resetting -> failed in one transaction.
FailReadyBranch(id, c) ==
    /\ branches[id].state = "ready" /\ branches[id].cid = c
    /\ branches' = [branches EXCEPT ![id].state = "failed", ![id].stale = FALSE]
    /\ Journal(id, <<<<"ready", "resetting">>, <<"resetting", "failed">>>>)
    /\ UNCHANGED layers

\* FailStuckBranch: swap on the plan's stuck criterion.
FailStuckBranch(id) ==
    /\ Stuck(id)
    /\ branches' = [branches EXCEPT ![id].state = "failed", ![id].stale = FALSE]
    /\ Journal(id, <<<<branches[id].state, "failed">>>>)
    /\ UNCHANGED layers

\* Time passes: a row's updated_at falls behind the stuck cut-off.
Age(id) ==
    /\ branches[id].state \in {"creating", "resetting", "destroying"}
    /\ ~branches[id].stale
    /\ branches' = [branches EXCEPT ![id].stale = TRUE]
    /\ UNCHANGED <<layers, journal>>

\* Time passes: a row's expires_at is reached.
Expire(id) ==
    /\ branches[id].ttl = "later"
    /\ branches' = [branches EXCEPT ![id].ttl = "past"]
    /\ UNCHANGED <<layers, journal>>

-----------------------------------------------------------------------------
(* Any client, any method, any argument. *)

BranchMethod(id) ==
    \/ \E n \in Names, rw \in Vols, parent \in Names \cup {None},
          ttl \in {"never", "later"} : CreateBranch(id, n, rw, parent, ttl)
    \/ \E to \in States : TransitionBranch(id, to)
    \/ \E c \in Cids \cup {None} : MarkBranchReady(id, c) \/ SetBranchContainer(id, c)
    \/ TouchBranch(id) \/ NoteBranch(id)
    \/ \E v \in Vols \cup {None} : SetBranchPendingVolume(id, v)
    \/ \E kid \in RowIds, l \in LayerIds, frozen \in Vols, newRW \in Vols,
          c \in Cids : CommitFreeze(id, kid, l, frozen, newRW, c)
    \/ \E c \in Cids \cup {None}, d \in Cids :
          UpdateBranchEndpoint(id, c, d) \/ UpdateBranchEndpointCtx(id, c, d)
    \/ \E c \in Cids \cup {None} : FailReadyBranch(id, c)
    \/ FailStuckBranch(id) \/ Age(id) \/ Expire(id)

RegistryNext ==
    \/ \E id \in RowIds : BranchMethod(id)
    \/ \E l \in LayerIds : DeleteLayer(l)

RegistrySpec == RegistryInit /\ [][RegistryNext]_regVars

-----------------------------------------------------------------------------
(* Properties. *)

\* The tables hold well-formed rows.
RegistryTypeOK ==
    /\ branches \in [RowIds -> Row]
    /\ layers \in [LayerIds -> Layer]
    /\ journal \in [RowIds -> Seq(States \X States)]

\* GetBranchByName is unambiguous: whatever the clients interleave, two live
\* rows never carry one name (the branches_live_name index, CreateBranchCtx
\* and a state machine that never revives a tombstone).
UniqueLiveNames ==
    \A i, j \in RowIds :
        Live(i) /\ Live(j) /\ branches[i].name = branches[j].name => i = j

\* A live layer's parent_layer_id always names a live layer: CommitFreeze
\* chains new layers onto bases that exist, and DeleteLayer never removes one
\* from under another.
LayerForeignKey ==
    \A l \in LiveLayers : layers[l].prev # None => layers[layers[l].prev].st = "live"

\* One journal entry: an edge of the state machine, the insert, or a note.
Edge(e) == e[2] \in legalBranch(e[1]) \/ e[1] = e[2] \/ e = <<"absent", "creating">>

\* j is an unbroken walk of the state machine from the insert to state s.
IsHistory(j, s) ==
    /\ j = << >> <=> s = "absent"
    /\ j # << >> => j[Len(j)][2] = s
    /\ \A i \in 1..Len(j) : Edge(j[i])
    /\ \A i \in 1..(Len(j) - 1) : j[i][2] = j[i + 1][1]

\* What `pgb history' prints is the branch's real history: every journal is an
\* unbroken walk of the state machine that ends in the row's current state,
\* including the methods that write the state without legalBranch
\* (CommitFreeze, FailReadyBranch, FailStuckBranch).
JournalIsHistory ==
    KeepJournal => \A id \in RowIds : IsHistory(journal[id], branches[id].state)

\* A tombstone is final: once destroyed, a row keeps its state, so a name's
\* next branch is always a new row (the journal and VolumeNameUsed rely on it).
TombstoneFinal ==
    [][\A id \in RowIds : branches[id].state = "destroyed"
                              => branches'[id].state = "destroyed"]_regVars
=============================================================================
