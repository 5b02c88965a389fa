------------------------------- MODULE Helper -------------------------------
(***************************************************************************)
(* One-shot helper pods of the Kubernetes driver (internal/runtime/kube.go):*)
(* creating the pod and the Secret with its environment, following the pod *)
(* through watches that end and API calls that fail, giving up on a pod    *)
(* that does not start, removing both, and reconcile's collection of       *)
(* finished helpers that a dead branchd left (internal/engine).            *)
(*                                                                         *)
(* Timers are steps that may happen whenever their condition holds.  Names *)
(* are random in the code: any name may be drawn, also one in use.         *)
(***************************************************************************)
EXTENDS Naturals, Sequences

CONSTANTS
    Calls,             \* calls of RunHelper
    Names,             \* pod names
    None,
    MaxTries,          \* createHelper's attempts
    MaxWatchFailures,  \* API failures in a row that waitPodDone tolerates
    MaxFaults          \* bound on API failures, evictions, bad starts and crashes

ASSUME HelperAssumption ==
    MaxTries \in Nat \ {0} /\ MaxWatchFailures \in Nat \ {0} /\ MaxFaults \in Nat /\ None \notin Names

VARIABLES
    pods,      \* by name: the pod's phase, whether it takes its environment from a Secret, and
               \* whether it is older than the stuck timeout
    secrets,   \* names with an env Secret
    drawn,     \* history: names under which a call went on to create its pod,
    clashed,   \* and those under which more than one did
    call,      \* the calls of RunHelper
    plan,      \* helpers reconcile has planned to remove
    faults

vars == <<pods, secrets, drawn, clashed, call, plan, faults>>

Idle == [pc |-> "idle", name |-> None, env |-> FALSE, tries |-> 0, fails |-> 0, chan |-> << >>,
         started |-> FALSE, failure |-> FALSE, result |-> "none"]
NoPod == [phase |-> "none", env |-> FALSE, old |-> FALSE]

HelperInit ==
    /\ pods = [n \in Names |-> NoPod] /\ secrets = {} /\ drawn = {} /\ clashed = {}
    /\ call = [c \in Calls |-> Idle] /\ plan = {} /\ faults = MaxFaults

Fault == faults > 0 /\ faults' = faults - 1
NoFault == UNCHANGED faults
At(c, pc) == call[c].pc = pc
Phase(n) == pods[n].phase
Stopped(n) == Phase(n) \in {"succeeded", "failed"}

\* The calls whose watch is open: it is opened before the pod is read.
Listening(q) == q.pc \in {"get", "follow"}

\* What a change of pod n to phase ph looks like to the calls that watch it: a
\* container that has been told to end still runs.
Notify(n, ph) == [c \in Calls |->
    IF Listening(call[c]) /\ call[c].name = n /\ ph # "ending"
    THEN [call[c] EXCEPT !.chan = Append(@, ph)] ELSE call[c]]

\* The phase of pod n changes.
PodTo(n, ph) == pods' = [pods EXCEPT ![n] = IF ph = "none" THEN NoPod ELSE [@ EXCEPT !.phase = ph]]

SameNames == UNCHANGED <<drawn, clashed>>

-----------------------------------------------------------------------------
(* runHelper: createHelper *)

\* A helper with an environment (env), or without one.
RunHelper(c) == /\ At(c, "idle")
                /\ \E env \in BOOLEAN : call' = [call EXCEPT ![c].pc = "secret", ![c].env = env]
                /\ UNCHANGED <<pods, secrets, drawn, clashed, plan, faults>>

\* The Secret that carries a helper's environment, if it has one, shares the pod's name.
buildHelperSecret(n, env) == secrets' = IF env THEN secrets \cup {n} ELSE secrets

\* createHelper draws a name; an existing Secret of that name means another try.
CreateSecret(c) ==
    LET q == call[c] IN
    /\ At(c, "secret") /\ UNCHANGED <<pods, plan>>
    /\ \/ \E n \in Names :
            /\ NoFault /\ (q.env => n \notin secrets) /\ buildHelperSecret(n, q.env)
            /\ drawn' = drawn \cup {n}
            /\ clashed' = IF n \in drawn THEN clashed \cup {n} ELSE clashed
            /\ call' = [call EXCEPT ![c].pc = "pod", ![c].name = n, ![c].tries = @ + 1]
       \/ /\ q.env /\ secrets # {} /\ NoFault /\ UNCHANGED secrets /\ SameNames
          /\ call' = [call EXCEPT ![c] = IF q.tries + 1 < MaxTries
                THEN [q EXCEPT !.tries = q.tries + 1]
                ELSE [Idle EXCEPT !.pc = "done", !.result = "error"]]
       \/ /\ q.env /\ Fault /\ UNCHANGED secrets /\ SameNames
          /\ call' = [call EXCEPT ![c] = [Idle EXCEPT !.pc = "done", !.result = "error"]]

Taken(n) == Phase(n) # "none"

\* The pod; when it cannot be created the Secret of that name goes, whoever made it,
\* and a name that is taken means another try.
CreatePod(c) ==
    LET n == call[c].name IN
    /\ At(c, "pod") /\ UNCHANGED plan /\ SameNames
    /\ \/ /\ NoFault /\ ~Taken(n) /\ UNCHANGED secrets
          /\ pods' = [pods EXCEPT ![n] = [NoPod EXCEPT !.phase = "pending", !.env = call[c].env]]
          /\ call' = [Notify(n, "pending") EXCEPT ![c].pc = "watch", ![c].tries = 0]
       \/ /\ IF Taken(n) THEN NoFault ELSE Fault
          /\ secrets' = secrets \ {n} /\ UNCHANGED pods
          /\ call' = [call EXCEPT ![c] = IF Taken(n) /\ @.tries < MaxTries
                THEN [@ EXCEPT !.pc = "secret", !.name = None]
                ELSE [Idle EXCEPT !.pc = "done", !.result = "error"]]

-----------------------------------------------------------------------------
(* runHelper: waitPodDone *)

Waiting(c) == call[c].pc \in {"watch", "get", "follow"}
OnlyCall == UNCHANGED <<pods, secrets, drawn, clashed, plan>>

\* Waiting is over: what runHelper will return, once it has cleaned up.
Over(q, r) == [Idle EXCEPT !.pc = "remove", !.name = q.name, !.result = r]

\* retry: another failure in a row; too many, or one that retrying cannot fix,
\* end the wait.
Retry(c) ==
    LET q == call[c] IN
    /\ Fault /\ OnlyCall
    /\ \/ call' = [call EXCEPT ![c] = Over(q, "error")]
       \/ /\ q.fails + 1 < MaxWatchFailures
          /\ call' = [call EXCEPT ![c] = [q EXCEPT !.pc = "watch", !.fails = @ + 1, !.chan = << >>]]

\* Mutant: a container that reports why it waits counts as started.
podStartedReported(ph) == ph \in {"failing", "running", "succeeded", "failed"}

podStarted(ph) == ph \in {"running", "succeeded", "failed"}

\* podStartFailure: the waiting reasons the kubelet does not get past by itself.
podStartFailure(ph) == ph = "failing"

\* helperProgress.observe: one sighting of the pod, in phase ph.
observe(q, ph, rest) ==
    LET seen == [q EXCEPT !.pc = "follow", !.chan = rest, !.fails = 0,
                          !.started = @ \/ podStarted(ph), !.failure = podStartFailure(ph)] IN
    IF ph \in {"succeeded", "failed"} THEN Over(seen, IF ph = "succeeded" THEN "ok" ELSE "error") ELSE seen

\* The Secret goes with the first sighting of a started container (best effort).
Sighted(c, ph, rest) ==
    LET q == call[c] IN
    /\ call' = [call EXCEPT ![c] = observe(q, ph, rest)] /\ UNCHANGED <<pods, plan>> /\ SameNames
    /\ IF ~q.started /\ podStarted(ph)
       THEN \/ NoFault /\ secrets' = secrets \ {q.name}
            \/ Fault /\ UNCHANGED secrets
       ELSE NoFault /\ UNCHANGED secrets

WatchPod(c) ==
    /\ At(c, "watch")
    /\ \/ NoFault /\ OnlyCall /\ call' = [call EXCEPT ![c].pc = "get", ![c].chan = << >>]
       \/ Retry(c)

GetPod(c) ==
    LET q == call[c] IN
    /\ At(c, "get")
    /\ \/ /\ Phase(q.name) = "none" /\ NoFault /\ OnlyCall
          /\ call' = [call EXCEPT ![c] = Over(q, "error")]
       \/ Phase(q.name) # "none" /\ Sighted(c, IF Phase(q.name) = "ending" THEN "running"
                                               ELSE Phase(q.name), q.chan)
       \/ Retry(c)

\* Mutant: the pod is read first and watched then.
LookReadFirst(c) ==
    LET q == call[c] IN
    /\ NoFault /\ OnlyCall
    /\ \/ At(c, "watch") /\ call' = [call EXCEPT ![c] =
                IF Stopped(q.name) \/ Phase(q.name) = "none" THEN Over(q, "error")
                ELSE [q EXCEPT !.pc = "get"]]
       \/ At(c, "get") /\ call' = [call EXCEPT ![c].pc = "follow", ![c].chan = << >>]

\* Watch first, then read.
Look(c) == WatchPod(c) \/ GetPod(c)

\* followPodWatch: the next event of the watch.
followPodWatch(c) ==
    LET q == call[c] IN
    /\ At(c, "follow") /\ q.chan # << >>
    /\ IF Head(q.chan) = "none"
       THEN NoFault /\ OnlyCall /\ call' = [call EXCEPT ![c] = Over(q, "error")]
       ELSE Sighted(c, Head(q.chan), Tail(q.chan))

\* The watch ends (its timeout, an error event): read the pod again.
WatchEnds(c) ==
    /\ At(c, "follow") /\ Fault /\ OnlyCall
    /\ call' = [call EXCEPT ![c].pc = "watch", ![c].chan = << >>]

\* check: a start failure has lasted its grace, or the start timeout is over.
\* Events that are already under way arrive before a timer of that length.
check(c) ==
    LET q == call[c] IN
    /\ q.pc \in {"watch", "follow"} /\ q.chan = << >> /\ (q.failure \/ ~q.started) /\ NoFault /\ OnlyCall
    /\ call' = [call EXCEPT ![c] = Over(q, "error")]

\* The caller's context ends.
CtxDone(c) ==
    /\ Waiting(c) /\ Fault /\ OnlyCall
    /\ call' = [call EXCEPT ![c] = Over(@, "error")]

-----------------------------------------------------------------------------
(* runHelper: removeHelper *)

\* The delete request; a running container has its grace period to end.
Deleted(n) == IF Phase(n) = "running" THEN "ending" ELSE "none"

removeHelper(c) ==
    LET n == call[c].name IN
    /\ At(c, "remove") /\ UNCHANGED <<secrets, plan>> /\ SameNames
    /\ \/ /\ NoFault /\ Phase(n) \notin {"none", "ending"} /\ PodTo(n, Deleted(n))
          /\ call' = [Notify(n, Deleted(n)) EXCEPT ![c].pc = "unsecret"]
       \/ /\ IF Phase(n) \in {"none", "ending"} THEN NoFault ELSE Fault
          /\ UNCHANGED pods /\ call' = [call EXCEPT ![c].pc = "unsecret"]

deleteHelperSecret(c) ==
    LET q == call[c] IN
    /\ At(c, "unsecret") /\ UNCHANGED <<pods, plan>> /\ SameNames
    /\ \/ NoFault /\ secrets' = secrets \ {q.name}
       \/ Fault /\ UNCHANGED secrets
    /\ call' = [call EXCEPT ![c] = [Idle EXCEPT !.pc = "done", !.result = q.result]]

-----------------------------------------------------------------------------
(* reconcile: finished helpers nobody removed. *)

\* Mutant: only helpers that succeeded are looked for.
orphanHelperSucceeded(n) == Phase(n) = "succeeded" /\ pods[n].old

\* A pod's age is counted from its creation.
orphanHelper(n) == Stopped(n) /\ pods[n].old

PlanOrphanHelper(n) ==
    /\ orphanHelper(n) /\ n \notin plan /\ plan' = plan \cup {n}
    /\ UNCHANGED <<pods, secrets, drawn, clashed, call, faults>>

\* StopRemove: the Secret first (best effort), then the pod.
StopRemove(n) ==
    /\ \/ NoFault /\ secrets' = secrets \ {n}
       \/ Fault /\ UNCHANGED secrets
    /\ PodTo(n, "none") /\ call' = Notify(n, "none")

\* Inspect again: only a helper that is still there and stopped goes.
RemoveOrphanHelper(n) ==
    /\ n \in plan /\ plan' = plan \ {n} /\ SameNames
    /\ IF Stopped(n) THEN StopRemove(n)
       ELSE NoFault /\ UNCHANGED <<pods, secrets, call>>

-----------------------------------------------------------------------------
(* The cluster, and time. *)

Becomes(n, ph) == PodTo(n, ph) /\ call' = Notify(n, ph) /\ UNCHANGED <<secrets, plan>> /\ SameNames

Resolvable(n) == pods[n].env => n \in secrets

\* The kubelet: a container starts once its environment can be resolved.
Kubelet(n) ==
    \/ Phase(n) = "pending" /\ Becomes(n, "failing") /\ (IF Resolvable(n) THEN Fault ELSE NoFault)
    \/ Phase(n) \in {"pending", "failing"} /\ Resolvable(n) /\ Becomes(n, "running") /\ NoFault
    \/ Phase(n) = "running" /\ NoFault /\ (Becomes(n, "succeeded") \/ Becomes(n, "failed"))
    \/ Phase(n) = "ending" /\ NoFault /\ Becomes(n, "none")

\* The pod is evicted or deleted by someone else.
Evict(n) == Phase(n) \in {"pending", "failing", "running"} /\ Fault /\ Becomes(n, "none")

\* A pod passes the age; that matters once it has stopped.
GrowOld(n) ==
    /\ Stopped(n) /\ ~pods[n].old /\ pods' = [pods EXCEPT ![n].old = TRUE]
    /\ UNCHANGED <<secrets, drawn, clashed, call, plan, faults>>

\* branchd dies; what it left stays.
Crash(c) ==
    /\ call[c].pc \notin {"idle", "done"} /\ Fault /\ OnlyCall
    /\ call' = [call EXCEPT ![c] = [Idle EXCEPT !.pc = "done", !.result = "none"]]

\* What a call does by itself.
Step(c) ==
    \/ CreateSecret(c) \/ CreatePod(c) \/ Look(c)
    \/ followPodWatch(c) \/ removeHelper(c) \/ deleteHelperSecret(c)

Reconciling(n) == PlanOrphanHelper(n) \/ RemoveOrphanHelper(n)

HelperNext ==
    \/ \E c \in Calls : \/ RunHelper(c) \/ Step(c)
                        \/ WatchEnds(c) \/ check(c) \/ CtxDone(c) \/ Crash(c)
    \/ \E n \in Names : Reconciling(n) \/ Kubelet(n) \/ Evict(n) \/ GrowOld(n)

HelperSpec == HelperInit /\ [][HelperNext]_vars

\* A call takes its next step and delivers its watch's events; reconcile runs
\* every so often; time passes.  Nothing is assumed of the kubelet, of watches
\* ending, or of timers.
HelperFairSpec ==
    /\ HelperSpec
    /\ \A c \in Calls : WF_vars(Step(c))
    /\ \A n \in Names : WF_vars(Reconciling(n)) /\ WF_vars(GrowOld(n))

-----------------------------------------------------------------------------
(* Properties. *)

\* The Secret of a helper whose container has not started is there as long as
\* someone waits for it: neither the first sighting nor reconcile takes it away
\* before the kubelet has read it.  The Secret is also what keeps two helpers from
\* using one name; that fails for a helper without environment, which makes none, and
\* once a Secret has gone before its pod.  Then the other call's deletes take what
\* this one needs (createHelper, removeHelper), and nothing is claimed.
SecretWhileNeeded ==
    \A c \in Calls :
        LET n == call[c].name IN
        Waiting(c) /\ n \notin clashed /\ Phase(n) \in {"pending", "failing"} /\ pods[n].env =>
            n \in secrets

\* A pod that has ended is noticed, without relying on the watch to end: the
\* change cannot fall between reading the pod and watching it ("a transition
\* between the two shows up in the watch rather than falling in a gap").  Only a
\* second helper under its name can hide it.
EndSeen ==
    \A c \in Calls :
        (Waiting(c) /\ (Stopped(call[c].name) \/ Phase(call[c].name) = "none"))
            ~> (At(c, "done") \/ call[c].name \in clashed)

\* A finished helper that its caller did not remove - it died, or its delete
\* failed - is removed in the end.
FinishedCollected ==
    \A n \in Names : Stopped(n) ~> Phase(n) = "none"
=============================================================================
