# pgoverlay: TLA+ models, model checking and proofs

pgoverlay gives every user or pull request a copy-on-write branch of a Postgres
database. This directory models the parts of it that keep shared state and run
concurrently: the registry, the sagas that create, freeze, reset and destroy
branches on the overlay, zfs and csi backends, the reconcile loop, sources, the
start of a process, leader election, helper pods, the connection router, the
webhook service, and the line diff. TLC checks the models on small instances and
that the engine implements an abstract specification of branches; TLAPS proves
safety properties for all instances, among them that the engine implements the
registry's specification. `PROJECT.json` maps each definition to the source lines it
stands for.

    tlc -config MCSagas.cfg MCEngine      # one run; the module of each is listed below
    tlapm RegistryProofs.tla              # the proofs of one module

## The system

| part | shared state | who changes it |
|---|---|---|
| registry (`internal/registry`) | SQLite: branches, layers, sources, journal | all processes; one transaction per method, state changes are compare-and-swap on the *state* only |
| engine (`internal/engine`) | none of its own; sagas hold rows as they read them | API calls, local `pgb`, reconcile; several of them may overlap, without a lock |
| runtime (`internal/runtime`) | volumes, containers or pods, helper pods, Secrets | the engine; also evictions and people |
| HA (`internal/ha`, `internal/api/leader.go`) | Lease, pod labels, the gate, mutations in flight | client-go's elector, callback goroutines, HTTP handlers, shutdown |
| router (`internal/pgproxy`) | connection and startup slots, cancel map | one handler and two relay goroutines per client |
| webhook service (`internal/ghook`) | delivery cache, per-branch queues | GitHub, one worker goroutine per branch |
| state directory (`internal/config`, `registry`) | schema version, instance id, `secret.key`, encrypted passwords | every process that starts |

What makes it hard: a compare-and-swap on the state does not notice that a row left
the state and came back; a saga has a dozen steps, each of which can fail with or
without effect; a process can die between any two; reconcile works from a plan that
is old when it is applied; callbacks run late; deliveries are lost, repeated and
reordered; API watches end and answers get lost.

## Modules

`Registry` <- `Runtime` <- `Sagas` <- `Reconcile` <- `Engine` <- `MCEngine` is one
chain of `EXTENDS`: each layer adds its state and actions, and `Engine` composes
them. The other components are modules of their own. They meet the engine in the
registry's rows or in the API, and each models the part of the other side that it
sees.

**Branching.** What the system promises about branches, with no saga, container or
fault in it: a branch is made on a fresh segment of storage, goes in and out of
service, forks in one step and goes away. It writes to its top segment and reads
through the frozen ones below; nobody else has its top segment in a stack (`Private`).
A fork freezes the segment that the branch writes to at that moment, while the code
commits the volume that it read earlier: that this makes no difference is what the
refinement in *sagas* checks, and *kube_freeze* shows where it does. See *sagas* below
for the mapping.

**Registry.** `branches`, `layers`, `journal` are the tables. Each exported method
is one action (`CreateBranchCtx`, `TransitionBranch`, `MarkBranchReady`,
`CommitFreeze`, `FailStuckBranch`, `DeleteLayer`, ...), because SQLite serialises
writers. `RegistrySpec` lets any client call any method at any time. A timestamp is
reduced to what queries compare it with (`stale`, `ttl`); host, port, password,
actor and reason are left out. `journal` keeps each transition's two states.

**Runtime** (external: the Docker daemon and the Kubernetes API as `docker.go` and
`kube.go` use them). A volume is whose data it holds; `bare` is a volume that a
mount created, `blank` one that only holds an entrypoint. `Docker` selects the
driver. Docker refuses to create a volume that exists and to remove one in use,
kube with hostPath does neither; a kube container id is the pod's name, so it is
used again.

**Sagas.** Create, branch-from-branch (freeze), reset, recover and destroy on the
overlay backend (`saga.go`, `freeze.go`, `recover.go`). A process has a program
counter and the locals of the Go function: the row as read, the chain as read, the
containers it started, the undo stack. A step is one registry or driver call with
the local work before it, so any other process may run in between. A call may fail
without effect, take effect and report an error, or a compensation may fail.
Installing the entrypoint is merged with the start that follows it.

**Reconcile.** `reap`, `retry_destroy`, `fail_stuck`, `restart_branch`,
`remove_orphan_container`, `gc_layer`, `gc_volume`. Planning and applying are
separate steps, with the re-checks of `applyOne`. For `fail_stuck` they are one step,
as its swap repeats the plan's condition. The age that `gc_volume` asks of a volume
is left out: it only delays the removal. `update_endpoint` is left out, as the
address of a branch is not modelled.

**Engine.** The composition, with crashes, containers that disappear and time.
`KeptAlive` is the set of rows that `keepAlive` touches; with `TimelyHeartbeats` such
a row never gets stale.

**Clones.** The zfs and csi backends on kubernetes (`csi.go`, `provisionZFS`,
`kube_csi.go`, `DiffBranch`); `backend` is chosen in the initial state. Here a child's
base is its parent's own volume, at every reset again. A volume records whose data it
holds and whose data it was copied from. A PVC clone is filled when its first consumer
runs, and it is `torn` if a pod ran on the origin before that; a PVC in use is deleted
when its pod goes. `zfs destroy` refuses what is mounted or cloned. `late` is a saga
whose request has reached the API's deadline: its calls under the request's context
fail, its compensations go on. `base` is a history variable, the row whose data a
branch was made from. The VolumeSnapshot mode of csi is left out, and reconcile is
reduced to `reap`, `retry_destroy` and `fail_stuck`.

**Sources.** Adding, refreshing and removing one source name, seeding (base backup
with settling on or off, or a dump), branches of it, `fail_stuck_source` and
`gc_volume` for sources; the docker driver. A volume is a generation number, since
its name consists of the source's name and generation.

**Startup.** `registry.Open` with its stepwise migration and `ensureInstanceID`;
`LoadSecretKey` and `generateKeyFile`, with and without hard links; the previous keys
and the legacy token key; `ReencryptSecrets`; password rotation by the sagas; recover,
which restarts a failed branch on the data it kept and rotates nothing. A row's `role`
is the password that the server in the branch has (0: the source's, no rotation took
place), `last` says whether its last create or reset ran through. An operator rotates keys and the token. `docs/usage.md` says to keep the old key "for one
start"; with several replicas this is taken to mean a start after which all processes
have the new key. branchd rotates passwords, pgb does not. A ciphertext is the key that
seals it and the password inside. The destroy of a branch whose saga is running is left
out.

**Leadership.** The callbacks of `internal/ha/leader.go`, `LeaderGate` and the
mutations in flight of `internal/api/leader.go`, and the shutdown of `cmd/branchd`.
External: the Lease and client-go's elector. `pending` holds the terms whose
`OnStartedLeading` goroutine has not run yet; `late` the label patches that timed out
and may still land.

**Helper.** `RunHelper` of the kube driver (`createHelper`, `waitPodDone`,
`followPodWatch`, `removeHelper`), the kubelet, evictions, crashes, and reconcile's
removal of finished helpers. Timers are steps that may happen while their condition
holds; an event that is under way arrives before a long timer fires. A helper has an
environment, which a Secret of its pod's name carries, or has none and makes no Secret.
Any name may be drawn, also one in use; `drawn` and `clashed` record under which names
one helper, or more than one, went on to create its pod.

**Proxy.** One handler per client: accept, startup, routing, dial and redial, the two
relay directions, the cancel map. Time is which deadline is armed. TLS and GSS
negotiation are left out, a failing one being `StartupEnds`; the closing of the
listener is not modelled.

**Webhook.** Deliveries, cache, queues, workers, the jobs, shutdown; what the API
client repeats (a DELETE whose answer was lost, any call answered 503); what a job
reports on the pull request. `page` is what GitHub shows: the number of commits, the
status of the last one, and the comments that carry the marker. A status on an
earlier commit changes nothing that is shown. branchd is reduced to a branch's state and
the steps that move it: a saga ends or fails, reap takes the branch, and `DestroyBranch`
takes it in any state (a branch in flight is forced to failed first, in the same step).
GitHub credentials are assumed to be configured, and the naming is
by pull request number. The comment is among the first hundred of its pull request,
which is the page that `findMarkerComment` reads. The diff comment is left out.

**DiffUtil.** `internal/diffutil`: common prefix and suffix, the lines that only one
side has, Myers' search with its recursive splits and cost cap, the script and the
hunks. A step is one call of `compare`, or one round of one of the two searches of
`split`; `todo` is the stack of calls. The arrays `fd` and `bd` are shared by all
splits and never cleared, as in the code, and indexing them out of range is an error.
A line is a value that is equal to another or not.

**MC modules.** `MCEngine` starts from one branch in service, or from a parent and
child in service (so that layers are there to collect), or from a parent with one
more layer than its child. It also has the refinement mapping. `MCLeadership`, `MCStartup`
and `MCHelper` start from one of two situations each, so that one run asks both
questions without the product of the two; `MCWebhook` likewise has several budgets. `MCClones` starts from a parent, ready or
failed with its data, and its child in service.

## What the runs check

Every run finishes within five minutes with two workers. Numbers are distinct states.

| run | module, config | states | question |
|---|---|---|---|
| sagas | MCEngine, MCSagas | 429,386 | two callers, all five operations, one fault |
| reconcile | MCEngine, MCReconcile | 33,315 | a caller beside reconcile: two operations, or one and two faults |
| leadership | MCLeadership | 97,460 | an election; a leader with requests; shutdown |
| proxy | Proxy, MCProxy | 45,482 | three connections, two branches, one cancel key |
| webhook | MCWebhook | 254,319 | up to four deliveries, some sent again, some failing |
| sources | Sources, MCSources | 100,121 | two callers and reconcile, four operations, one fault |
| startup | MCStartup | 1,299,557 | two replicas and an older `pgb` |
| helper | MCHelper | 215,586 | two calls whose names may collide, or one call with three failures |
| clones | MCClones | 211,443 | a family on csi or zfs: two operations, or one and two faults |
| diff | DiffUtil, MCDiff | 84,000 | all pairs of inputs of up to five lines, three cost caps |
| freeze_crash | MCEngine, MCFreezeCrash | violation | see Findings |
| kube_freeze | MCEngine, MCKubeFreeze | violation | see Findings |

- **sagas**: a branch in service keeps its own data (`OwnDataIntact`) and routes to a
  container that mounts exactly its row's stack (`ServesOwnStack`). The tables stay
  consistent under the calls that sagas make in fact: `UniqueLiveNames`,
  `ChainsLive` (every layer under a live branch is there), and `JournalIsHistory`, also
  for the methods that bypass the table of legal transitions. `ImplementsBranching` is the refinement: with a row
  that is ready as "on", one that lives otherwise as "off", the layer chain as
  `below` and the rw volume as `top`, every step of every saga is a step of
  `Branching` or changes nothing there. `CommitFreeze` is the fork. So failed and
  crashed sagas, compensations and garbage collection, interleaved, cannot be told
  from an atomic fork by what the registry says of a branch; `ServesOwnStack` says
  that the containers follow the registry.
- **reconcile**: the same for data and layers (`StackIntact`); no pass takes away a
  container that serves (`SparesServing`); and `Converges`: whatever a crash or error left behind, in the end nothing is left to repair. The
  exception in `Converged` is a volume held by a failed branch, which stays until the
  branch is reset or destroyed.
- **leadership**: `GateFollowsLease`, `DrainedMeansIdle`, `LabelsConverge`,
  `DeposedStops`, `ShutdownEnds`.
- **proxy**: `SlotsExact`, `CancelMapExact`, `CancelsOwnOnly`, `StartupSlotReturns`,
  `HalfClosedEnds`.
- **webhook**: `OneAtATime`, `WaitMeansIdle`, `OneComment`, and in the end branch,
  comment and status are as the pull request is (`OpenHasBranch`,
  `ClosedLosesBranch`), if nothing fails after its last change. What failed before may
  still be under way, such as a create that a job gave up on.
- **sources**: `BaseIntact`, `SeedingEnds`, `OrphansGo`.
- **startup**: `MigratedInOrder`; one instance id and one generated key for all
  processes (`OneIdentity`); every live branch's password can be read with the keys
  configured now, and, if its last create or reset rotated it and ran through, is the
  one its server has (`PasswordsUsable`).
- **helper**: `SecretWhileNeeded` and `EndSeen`, both of a helper that has its name to
  itself, and `FinishedCollected`.
- **clones**: a branch in service runs on its own volume, which is a complete copy of
  what it was made from, taken while nothing wrote to it (`CloneIntact`). The data of
  a live branch goes only with an operation on that branch (`DataKept`).
- **diff**: the marks are an edit script (`ScriptCorrect`); as long as no split was
  capped, what is marked and what is to come add up to the shortest one, by the
  textbook recurrence (`OnShortestPath`); the halves of a split, a capped one too, are
  smaller than the whole (`SplitShrinks`); the hunks, with their line numbers, are a
  patch (`HunksApply`).

Each property has a mutant in `PROJECT.json`: a plausible bug in one mapped
definition (an operator whose comment says "Mutant") under which TLC finds
the property violated.

### Bounds

- *Rows, names, volumes, containers*: enough for every operation that the budget
  admits to draw fresh ones, so that no saga is cut off for want of an id.
- *Budgets* are pairs of operations and faults. `<<2, 1>>` in *sagas*: two overlapping
  sagas, on top of a branch (or a family) that exists already, are what the races
  between a read and a later swap need, with one crash, failed call or lost container
  at any step. `<<2, 0>>` or `<<1, 2>>` in *reconcile*, whose passes are not counted.
  Three callers at once, or two failures in one saga, are outside the runs, and not
  because they are harmless; what they can do is under Findings. From
  the deep start of *sagas* both layer ids are in use, so there no freeze commits: it
  is there for what resets, destroys and collections do to a chain of two.
- *reconcile* leaves reset and recover to the callers of *sagas*; see Findings.
- *clones*: two operations without a fault, or one with two faults, beside reconcile.
  A request that reaches its deadline counts as a fault. Two operations with one fault
  were explored apart from the run (2.0 million states, no violation).
  What takes three operations, such as a name that is destroyed and created again
  under a saga that is still running, is outside; see Findings.
- *webhook*: one pull request; four deliveries, or three with one failure or one of
  them sent again, or two with both; a cache of one id, and more workers than correct
  code can use at once (a worker has a name so that two of them can be told apart).
- *diff*: two line values and up to five lines on each side reach splits of splits,
  both parities and caps that bind in the first round, the second, or never; the
  default cap of the code is 1024 rounds. One line of context instead of three.
- *proxy*: the startup cap is below the number of connections; the connection cap
  never binds in this run.
- *startup*: three migrations, of which the older build lacks the last.
- *helper*: names collide with two calls, and one call has the full budget of failures;
  for two calls with a failure `SecretWhileNeeded` was checked apart from the run (1.3
  million states).

### Deadlock

Where budgets run out, every replica may have shut down, or all clients have left,
the system may stop: those configs switch the deadlock check off. *startup*, where a
process can always be started, keeps it.

### Fairness

Weak fairness is given to steps that a running goroutine takes by itself: a saga's
next call, a worker's job, a callback, a timer. Calls return because each has a
timeout (the one that has none is under Findings; no liveness property rests on it). Strong fairness is given in two places. Reconcile's plan steps (`Engine`,
`Sources`): the loop repeats the pass for as long as the daemon lives and applies all
it planned, so what is due again and again is planned. `copyBackendToClient` under an
armed deadline (`Proxy`): once a deadline has passed every read fails. No fairness is
given to requests, crashes, people or remote peers. GitHub's deliveries are fair:
without it nothing could be said about the end.

## What is proved

Each theorem holds for all values of the constants (any sets of rows, names, layers,
containers, replicas, connections, calls, pull requests, processes and keys, any
budget of operations and faults), under the named assumption of its module only:
bounds are naturals, `None` is not an id. The proofs are in eight modules:
`RegistryProofs`; `EngineProofs`, `EngineTheorems` and `EngineLayers`, one argument in
three parts; `StorageProofs` (sources); `FrontProofs` (router, webhook
service); `ClusterProofs` (leadership, helper pods); `StartupProofs`.

| theorem | statement | argument |
|---|---|---|
| `RegistryTyped` | `[]RegistryTypeOK` | inductive; one lemma per kind of row update |
| `TombstonesFinal` | `TombstoneFinal` | `MethodEffect`: what each method can do to a row's state |
| `LiveNamesUnique` | `[]UniqueLiveNames` | inductive with the types: only `CreateBranchCtx` makes a row live, and it checks the name |
| `JournalTrue` | `[]JournalIsHistory` | inductive: a journal grows by a transition that starts at the row's state; `FailReadyBranch` appends two |
| `LayersChained` | `[]LayerForeignKey` | inductive: `CommitFreeze` chains onto a live layer, `DeleteLayer` refuses a layer that has one above it |
| `EngineSound` | `EngineSpec => []EngineInv` | see below |
| `EngineImplementsRegistry` | `EngineSpec => RegistrySpec` | from `EngineInv`: each step of a saga, of reconcile or of the environment is one registry method or leaves the tables alone |
| `EngineKeepsRegistry` | `UniqueLiveNames`, `JournalIsHistory`, `LayerForeignKey`, `TombstoneFinal` under `EngineSpec` | the registry's theorems, through the refinement |
| `EngineOneWriter` | `[]OneWriter` | no two containers write to one volume |
| `EngineRoutes` | `[]RoutesToOwn` | the container a row records is of that row, although start and record are two calls |
| `EngineChainsLive` | `[]ChainsLive` | with `Tidy`: a layer that a process has counted as unreferenced is the base of no live row until the process is done with it, and no process holds a layer that is still to be inserted; so counting and deleting may be separate calls |
| `EngineSparesOthers` | `SparesOthers` | each kind of step takes away only containers of the branch it works for or of the parent it freezes; an orphan's removal only the one it planned |
| `LeadershipTyped` | `[]LeadershipTypeOK` | inductive |
| `OnlyLeaderWrites` | `[]GateFollowsLease` | needs the stronger `LeaseInv`: an elector that leads holds the Lease. Without it two replicas could lead at once |
| `LeaseGivenUpIdle` | `[]DrainedMeansIdle` | inductive with the types: after the drain `begin` refuses |
| `JobsOneAtATime` | `[]OneAtATime` | `QueueInv`: a branch's queue is in the map exactly while one worker has not retired, and that worker is the only one |
| `WaitLeavesNothing` | `[]WaitMeansIdle` | `CountInv` on top: the WaitGroup is the number of jobs waiting plus the workers that hold one or have not left, so at zero there is neither |
| `CommentStaysOne` | `[]OneComment` | `CommentInv` on top of `QueueInv`: a worker between its look and its POST is the only one of its branch, and what it saw is still true |
| `SlotsAlwaysExact` | `[]SlotsExact` | `ProxyInv`: the handler's locals agree with its place (`ConnOK`), and the counted sets change by one element |
| `CancelMapAlwaysExact` | `[]CancelMapExact` | as above; adding and removing an address changes the count of that address under that key by one |
| `CancelsReachOwn` | `CancelsOwnOnly` | from `CancelMapExact`: `lookup` answers only if a key has exactly one entry, and every live session has its entry there |
| `BasesStayIntact` | `[]BaseIntact` | `BasesInv`: a branch that is being made has one maker and is not ready; what is mounted exists; docker neither removes a volume in use nor creates one twice (`VolsKept`) |
| `MigrationsInOrder` | `[]MigratedInOrder` | `FileInv`: a step is applied only to the version it was written for, in one transaction |
| `IdentityIsOne` | `[]OneIdentity` | `WriterInv`: only one process writes the key file in place, and nobody reads a key from it before it is whole |
| `PasswordsStayUsable` | `[]PasswordsUsable` | `PasswordsInv`: each value is sealed by a key that is configured, each process writes under the configured key or the file's, a row has one saga at a time, a row whose last saga ran through has its server's password and only a new saga changes either, and once a start with all processes on the new key has finished (`conf.done`, which the operator waits for) no row needs the old key or the token |
| `SecretsKept` | `[]SecretWhileNeeded` | `HelperInv`: under a name that has not clashed there is one call; before it creates its pod there is none and its Secret is there; a watch has reported a start only of a pod that started |

An invariant that is checked is seldom inductive by itself. Where the argument column
names a second one, that is the strengthening.

**The engine's invariant.** `EngineInv` says what stays true of each process between
any two of its calls, whatever the others do: the row it works for and, in a freeze, the
parent's, exist under the names it read, and its volumes are generations of those names
(`Located`); a container id that it holds, in a local or on its undo stack, is of that
row or of nothing (`Owning`; on kube, it is the row's name). The rows satisfy the same
(`Rows`), and the containers carry their row's name, mount a volume of that name, and no
two have one name (`Contained`). It says nothing of who may move a row, because nothing
in the code guarantees that (see below). It is inductive with one lemma per kind of
call; most steps only move a program counter, and share one. It holds for both drivers,
any number of processes and any budget.

Only model-checked, and why:

- All liveness, here and in the other modules: the proof system does not handle
  fairness or `ENABLED`.
- `OwnDataIntact`, `ServesOwnStack`, `StackIntact`, `SparesServing`, `FreezeKeepsData`
  and `ImplementsBranching` of the engine, `CloneIntact` and `DataKept` of the clone
  backends. They are true of the instances and *false* in general: with more callers or
  more failures TLC finds the behaviours listed under "Seen while modelling", all of
  them because a compare-and-swap on the state does not notice that the row left the
  state and came back. So there is no inductive invariant to find. What does hold in
  general are the theorems above.
- The line diff, whose claims need induction over the inputs.

## Findings

With a run:

1. **freeze_crash** (`reconcile.go:541`). `recover.go:28` says that reconcile keeps
   the volume of a freeze parent that a crash interrupted. It does while the
   unfinished child is live. If the child is destroyed before the parent is found
   stuck, nothing references the volume and `fail_stuck` removes it.
2. **kube_freeze** (`freeze.go:257`). Two children created from one parent at once on
   the kube driver: the second freeze works with the row it read before the first
   one committed. The pod has the same name again, so nothing stops it. It commits
   the first volume as a layer for the second time, and the volume in between, with
   the parent's writes, is in no stack any more.

Seen while modelling, with no run of their own:

- `freeze.go:122-138`: a freeze may begin on a *failed* parent. Take a first freeze that
  started the parent's swap container, then failed, and whose compensation could not
  remove that container: the parent is failed. A second freeze that read the parent
  before moves it to resetting, its checkpoint fails as the old container is gone, and
  it puts the parent back to *ready*, with the leftover container, which the row
  records and which mounts the uncommitted swap volume. The comment says that "a checkpoint failure above
  leaves it ready and running". With two faults TLC finds this as a violation of
  `ServesOwnStack`.
- `saga.go:118` and `saga.go:219`: `freshBranchLayer` picks the volume's name before
  `CreateBranchCtx` inserts the row that uses it. Two creates of one name can pick the
  same; if the first is destroyed by force before it ends, its late compensation removes
  the volume of the second. Three callers and no fault suffice (TLC finds it as a
  violation of `OwnDataIntact`). With a fourth operation the volume can be a frozen
  layer below a live child. The comment at `registry.go:1024` says that "a recreated
  branch name can never adopt a volume that still holds another branch's data".
- A forced destroy takes a row from resetting to failed while its saga runs. If the row
  is reset again, the first saga's swaps succeed on a row that is not its own any more:
  the reason why the engine's data properties have no general proof.
- `registry.go:1024`: `VolumeNameUsed` is said to report whether "any registry row has
  ever used volume", but the row of a collected layer is deleted. A branch created
  again under the name may draw the layer's volume name, and a `gc_layer` or
  `gc_volume` that is late removes the new volume before its container starts.
- `ghook/service.go:251`: a job that runs into `opTimeout` reports the failure under
  the context that has just expired. The status stays pending until the next
  delivery; `handleEnsure` says "pending before, success/failure after".
- `diffutil.go:333` says that more than 2*contextLines equal lines start a new hunk;
  with exactly that many there is a new hunk already. The hunks are correct.
- `reconcile.go:412`: a helper's age counts from its creation. One that ran longer than
  the stuck timeout can be removed the moment it finishes, before its caller has
  looked; a seed that succeeded is reported as lost. The comment says "old enough that
  the process which ran it would have removed it by now".
- `csi.go:88` and `kube_csi.go:212`: if a pod stays on the clone (its creation reported
  an error and yet took effect, or its removal failed), the compensation waits for the
  PVC without a deadline while the heartbeat keeps the row in creating or resetting.
  `api/leader.go:229` says that its bound "is what ends a saga that is alive but
  wedged".
- `engine.go:186`: only `CreateBranchFrom` keeps the quiesced parent alive. A csi
  child's reset does not, and a diff has no heartbeat at all. Because of the API's
  deadline this can only matter while such a saga unwinds.
- On kube a pod is identified by its name, and a zfs dataset too. A step of a saga or
  teardown that runs late, after the name was destroyed and created again, hits the
  new branch.
- `freeze.go:129`: a freeze whose parent was reset and failed in between returns the
  parent to ready without a volume. It does not serve: its container is gone, and
  `restart_branch`, on an empty volume without an entrypoint, fails it again.
- `reconcile.go:548` and `recover.go:111`: a recover admitted between `fail_stuck`'s
  swap and its removal of the volume passes `checkBranchData` and starts on a volume
  that is removed or created empty. The comment says that a recover "never boots an
  empty auto-created volume".
- `saga.go:424`: a process that does not rotate passwords decides from the row as it
  read it whether a recorded password is stale; a rotating reset in between leaves
  one that the server does not have.
- `recover.go:22`: a recover does not rotate because "the data is already masked and
  carries the branch's password". Of a create or reset that stopped between the
  `ALTER ROLE` and `SetBranchPassword` (`saga.go:459`), and whose volume was not removed,
  the data carries a password that no row has, and the recovered branch is in service
  with it. TLC finds this when `PasswordsUsable` is asked of all ready rows.
- `kube.go:540`: `createHelper` says that "a collision with an existing object just
  retries". A helper without environment makes no Secret, so only its pod can collide;
  then the Secret of that name is deleted, which is the other helper's, and if that one
  is still starting it fails. The Secret that `removeHelper` deletes after the pod can
  likewise be that of a helper that took the name in between. Names are five random
  characters; `SecretWhileNeeded` leaves them out through `clashed`.
- `cmd/pgoverlay-github/main.go`: Shutdown waits 10 s, while a request may take 30 s
  to be read. A process that ends this way does not wait for queued jobs
  (`ShutdownFails`).
- `reconcile.go:726` says "keep the volume"; the volume is removed first.
- `apiclient/client.go`: a create that branchd interrupts is sent again, and is
  refused, because the failed row still holds the name.

## Not modelled

- The VolumeSnapshot mode of csi; usage and copy-on-write mode; quotas (the count and
  the insert are two statements, so concurrent creates can exceed the limit).
- Dumping schemas, counting and sampling rows for a diff (`engine/diff.go`): reads.
- What seed, settle and entrypoint scripts do inside a volume, including the trimming
  of WAL; the lazyrw preload library.
- API routes, authentication and tokens: single statements that nothing relies on
  between two steps.
- Wording of comments and statuses, the diff comment, minting of GitHub App tokens: a
  call succeeds or fails.
- The command line, configuration other than the
  at-rest key, metrics, SDKs and deployment files.

`PROJECT.json` lists each part with the reason.

## Next

1. A token per saga in the row (or a generation in the compare-and-swap), as a variant
   of `Registry`: the engine's data properties and the refinement of `Branching` should
   then hold in general and have proofs.
2. `Clones` with three operations, so that names are used again, as a run of its own.
3. Late heartbeats, quotas, and reconcile beside reset and recover.
