----------------------------- MODULE Leadership -----------------------------
(***************************************************************************)
(* branchd replicas behind one Lease: the election callbacks               *)
(* (internal/ha/leader.go), the API's leader gate and its in-flight        *)
(* mutations (internal/api/leader.go), and the shutdown that drains them   *)
(* before the Lease is given up (cmd/branchd/main.go).                     *)
(*                                                                         *)
(* External: the Lease and client-go's elector.  Its Run acquires, starts  *)
(* OnStartedLeading in a goroutine, renews, and when renewing ends (or the *)
(* election context does) cancels the term's context and then calls        *)
(* OnStoppedLeading; a Lease is taken over only when it was released or    *)
(* its holder stopped renewing (LeaseDuration > RenewDeadline).  The pod   *)
(* labels live in the Kubernetes API: a patch whose answer never came may  *)
(* still land later.                                                       *)
(***************************************************************************)
EXTENDS Naturals

CONSTANTS
    Replicas,     \* the branchd pods
    Muts,         \* mutating API requests
    Nobody,
    MaxTerm,      \* bound on the leadership terms of all replicas together
    MaxMishaps    \* bound on crashes, failed renewals and failed API calls

ASSUME LeadershipAssumption ==
    MaxTerm \in Nat \ {0} /\ MaxMishaps \in Nat /\ Nobody \notin Replicas

VARIABLES
    lease,        \* the Lease: its holder, and how many terms it has granted
    elector,      \* where a replica's elector is, and its term
    pending,      \* terms whose OnStartedLeading goroutine has not run yet
    gate,         \* LeaderGate: open or not, and its current term
    marker,       \* the keepMarked loop: its place and its term
    loops,        \* terms whose reconcile loop has not returned
    labels,       \* pods carrying pgoverlay.leader=true
    late,         \* label patches that may still land
    muts,         \* the requests
    server,       \* the shutdown: up, drain, grace, down
    clean,        \* the drain ended with every mutation returned
    mishaps

electVars == <<lease, elector, pending>>
markVars == <<marker, labels, late>>
leadershipVars == <<electVars, gate, markVars, loops, muts, server, clean, mishaps>>

Mishap == mishaps > 0 /\ mishaps' = mishaps - 1
NoMishap == UNCHANGED mishaps

\* The term's context (leaderCtx, and the loop context derived from it).
TermLive(r, t) == elector[r].pc = "lead" /\ elector[r].term = t

LeadershipInit ==
    /\ lease = [holder |-> Nobody, terms |-> 0]
    /\ elector = [r \in Replicas |-> [pc |-> "contend", term |-> 0]]
    /\ pending = [r \in Replicas |-> {}]
    /\ gate = [r \in Replicas |-> [open |-> FALSE, term |-> 0]]
    /\ marker = [r \in Replicas |-> [pc |-> "off", term |-> 0, seen |-> {}]]
    /\ loops = [r \in Replicas |-> {}]
    /\ labels = {} /\ late = {}
    /\ muts = [m \in Muts |-> [pc |-> "none", at |-> Nobody, term |-> 0, cancelled |-> FALSE]]
    /\ server = [r \in Replicas |-> "up"]
    /\ clean = [r \in Replicas |-> FALSE]
    /\ mishaps = MaxMishaps

-----------------------------------------------------------------------------
(* The Lease and the elector (external). *)

Acquire(r) ==
    /\ elector[r].pc = "contend" /\ server[r] # "down"
    /\ lease.holder \in {Nobody, r} /\ lease.terms < MaxTerm
    /\ lease' = [holder |-> r, terms |-> lease.terms + 1]
    /\ elector' = [elector EXCEPT ![r] = [pc |-> "lead", term |-> lease'.terms]]
    /\ pending' = [pending EXCEPT ![r] = @ \cup {lease'.terms}]
    /\ UNCHANGED <<gate, markVars, loops, muts, server, clean, mishaps>>

\* Renewing fails until the deadline; the release that follows may fail too.
RenewFails(r) ==
    /\ elector[r].pc = "lead" /\ Mishap
    /\ elector' = [elector EXCEPT ![r].pc = "ended"]
    /\ lease' \in {lease, [lease EXCEPT !.holder = Nobody]}
    /\ UNCHANGED <<pending, gate, markVars, loops, muts, server, clean>>

\* The election context is cancelled (stopElection): ReleaseOnCancel.
ElectionStopped(r) ==
    /\ server[r] = "down" /\ elector[r].pc \in {"contend", "lead"}
    /\ elector' = [elector EXCEPT ![r].pc = "ended"]
    /\ \/ elector[r].pc = "lead" /\ lease' = [lease EXCEPT !.holder = Nobody] /\ NoMishap
       \/ lease' = lease /\ IF elector[r].pc = "lead" THEN Mishap ELSE NoMishap
    /\ UNCHANGED <<pending, gate, markVars, loops, muts, server, clean>>

\* A Lease nobody renews runs out.
LeaseExpires ==
    /\ lease.holder # Nobody /\ elector[lease.holder].pc # "lead"
    /\ lease' = [lease EXCEPT !.holder = Nobody]
    /\ UNCHANGED <<elector, pending, gate, markVars, loops, muts, server, clean, mishaps>>

\* The container dies and restarts: run() closes the gate before it serves.
\* The pod, and so its label and its election identity, stay.
ReplicaDies(r) ==
    /\ elector[r].pc # "exit" /\ Mishap
    /\ elector' = [elector EXCEPT ![r].pc = "contend"]
    /\ pending' = [pending EXCEPT ![r] = {}]
    /\ gate' = [gate EXCEPT ![r].open = FALSE]
    /\ marker' = [marker EXCEPT ![r].pc = "off"]
    /\ loops' = [loops EXCEPT ![r] = {}]
    /\ muts' = [m \in Muts |-> IF muts[m].at = r THEN [muts[m] EXCEPT !.pc = "done"] ELSE muts[m]]
    /\ server' = [server EXCEPT ![r] = "up"] /\ clean' = [clean EXCEPT ![r] = FALSE]
    /\ UNCHANGED <<lease, labels, late>>

-----------------------------------------------------------------------------
(* ha.Callbacks. *)

\* LeaderGate.Set: opening starts a new term, closing ends the current one.
SetGate(r, open) ==
    gate' = [gate EXCEPT ![r] = [open |-> open,
                                 term |-> IF open /\ ~@.open THEN @.term + 1 ELSE @.term]]

\* Mutant: the goroutine opens the gate without looking at its context.
OnStartedLeadingBlind(r, t) ==
    /\ t \in pending[r]
    /\ pending' = [pending EXCEPT ![r] = @ \ {t}]
    /\ SetGate(r, TRUE)
    /\ marker' = [marker EXCEPT ![r] = [pc |-> "get", term |-> t, seen |-> {}]]
    /\ loops' = [loops EXCEPT ![r] = @ \cup {t}]
    /\ UNCHANGED <<lease, elector, labels, late, muts, server, clean, mishaps>>

\* OnStartedLeading, up to the reconcile loop it ends in: all under c.mu.
OnStartedLeading(r, t) ==
    /\ t \in pending[r]
    /\ pending' = [pending EXCEPT ![r] = @ \ {t}]
    /\ IF TermLive(r, t)
       THEN /\ SetGate(r, TRUE)
            /\ marker' = [marker EXCEPT ![r] = [pc |-> "get", term |-> t, seen |-> {}]]
            /\ loops' = [loops EXCEPT ![r] = @ \cup {t}]
       ELSE UNCHANGED <<gate, marker, loops>>
    /\ UNCHANGED <<lease, elector, labels, late, muts, server, clean, mishaps>>

\* The reconcile loop returns once its context is cancelled, by the term's end
\* or by shutdown.
LoopReturns(r) ==
    /\ \E t \in loops[r] : /\ ~TermLive(r, t) \/ server[r] # "up"
                           /\ loops' = [loops EXCEPT ![r] = @ \ {t}]
    /\ UNCHANGED <<electVars, gate, markVars, muts, server, clean, mishaps>>

\* OnStoppedLeading, first half: close the gate and take the loops' handles.
OnStoppedLeading(r) ==
    /\ elector[r].pc = "ended"
    /\ elector' = [elector EXCEPT ![r].pc = "stopping"]
    /\ SetGate(r, FALSE)
    /\ UNCHANGED <<lease, pending, markVars, loops, muts, server, clean, mishaps>>

\* A label patch of pod q: applied; refused; or unanswered, to land later.
Patch(q, on) ==
    \/ /\ labels' = (IF on THEN labels \cup {q} ELSE labels \ {q})
       /\ UNCHANGED late /\ NoMishap
    \/ /\ late' \in {late, late \cup {[pod |-> q, on |-> on]}}
       /\ UNCHANGED labels /\ Mishap

\* OnStoppedLeading, second half: after the marker loop is gone, remove the
\* label; a failure is only logged.  Then contend again, or leave.
Unmark(r) ==
    /\ elector[r].pc = "stopping" /\ marker[r].pc = "off"
    /\ Patch(r, FALSE)
    /\ elector' = [elector EXCEPT ![r].pc = IF server[r] = "down" THEN "exit" ELSE "contend"]
    /\ muts' = [m \in Muts |-> IF muts[m].at = r /\ server[r] = "down"
                               THEN [muts[m] EXCEPT !.pc = "done"] ELSE muts[m]]
    /\ UNCHANGED <<lease, pending, gate, marker, loops, server, clean>>

-----------------------------------------------------------------------------
(* keepMarked and PodLabeler.Mark. *)

\* Move the marker loop, or end it once its context is cancelled.
MarkGo(r, next, seen) ==
    marker' = [marker EXCEPT ![r] =
                 [@ EXCEPT !.pc = IF TermLive(r, marker[r].term) THEN next ELSE "off",
                           !.seen = seen]]

\* Mark reads its own pod; a pod already labelled is not patched again.
MarkGet(r) ==
    /\ marker[r].pc = "get" /\ UNCHANGED <<labels, late>>
    /\ \/ MarkGo(r, IF r \in labels THEN "list" ELSE "patch", {}) /\ NoMishap
       \/ MarkGo(r, "wait", {}) /\ Mishap

MarkSelf(r) ==
    /\ marker[r].pc = "patch"
    /\ IF TermLive(r, marker[r].term)
       THEN Patch(r, TRUE) /\ MarkGo(r, IF mishaps' = mishaps THEN "list" ELSE "wait", {})
       ELSE UNCHANGED <<labels, late, mishaps>> /\ MarkGo(r, "list", {})

\* Mutant: Mark only labels its own pod.
MarkListNone(r) ==
    /\ marker[r].pc = "list" /\ UNCHANGED <<labels, late>>
    /\ NoMishap /\ MarkGo(r, "clear", {})

\* The other pods found labelled.
MarkList(r) ==
    /\ marker[r].pc = "list" /\ UNCHANGED <<labels, late>>
    /\ \/ MarkGo(r, "clear", labels \ {r}) /\ NoMishap
       \/ MarkGo(r, "wait", {}) /\ Mishap

\* Clear them one by one; a failure does not stop the others.
MarkClear(r) ==
    /\ marker[r].pc = "clear"
    /\ IF marker[r].seen # {} /\ TermLive(r, marker[r].term)
       THEN \E q \in marker[r].seen : Patch(q, FALSE) /\ MarkGo(r, "clear", marker[r].seen \ {q})
       ELSE UNCHANGED <<labels, late, mishaps>> /\ MarkGo(r, "wait", {})

\* Mutant: the sleep between two marks does not end with the term.
MarkWaitDeaf(r) ==
    /\ marker[r].pc = "wait" /\ UNCHANGED <<labels, late>>
    /\ marker' = [marker EXCEPT ![r].pc = "wait"] /\ NoMishap

\* The next mark is due, or the term is over.
MarkWait(r) ==
    /\ marker[r].pc = "wait" /\ UNCHANGED <<labels, late>>
    /\ MarkGo(r, "get", {}) /\ NoMishap

Mark(r) == /\ MarkGet(r) \/ MarkSelf(r) \/ MarkList(r) \/ MarkClear(r) \/ MarkWait(r)
           /\ UNCHANGED <<electVars, gate, loops, muts, server, clean>>

\* An unanswered patch lands after all, or never.
Land(x) ==
    /\ x \in late /\ late' = late \ {x}
    /\ labels' \in {labels, IF x.on THEN labels \cup {x.pod} ELSE labels \ {x.pod}}
    /\ UNCHANGED <<electVars, gate, marker, loops, muts, server, clean, mishaps>>

-----------------------------------------------------------------------------
(* requireLeader and mutations. *)

OnlyMuts == UNCHANGED <<electVars, gate, markVars, loops, server, clean, mishaps>>

\* admit: the gate is open; the request keeps the term it saw.
Admit(m, r) ==
    /\ muts[m].pc = "none" /\ server[r] = "up" /\ gate[r].open
    /\ muts' = [muts EXCEPT ![m] = [pc |-> "admitted", at |-> r, term |-> gate[r].term,
                                    cancelled |-> FALSE]]
    /\ OnlyMuts

\* Mutant: begin forgets to look at draining.
BeginUndrained(m) ==
    /\ muts[m].pc = "admitted"
    /\ muts' = [muts EXCEPT ![m].pc = "running"]
    /\ OnlyMuts

\* begin: refused once draining, else tracked and running.
Begin(m) ==
    /\ muts[m].pc = "admitted"
    /\ muts' = [muts EXCEPT ![m].pc = IF server[muts[m].at] = "up" THEN "running" ELSE "done"]
    /\ OnlyMuts

\* The gate term a request was admitted under has ended.
TermOver(m) == LET g == gate[muts[m].at] IN ~(g.open /\ g.term = muts[m].term)

\* Mutant: a mutation only notices that the gate is closed now.
CancelTermIfClosed(m) ==
    /\ muts[m].pc = "running" /\ ~muts[m].cancelled /\ ~gate[muts[m].at].open
    /\ muts' = [muts EXCEPT ![m].cancelled = TRUE] /\ OnlyMuts

\* The AfterFunc on the term's context, which fires at once when begin
\* registers it on a term that is already over.
CancelTerm(m) ==
    /\ muts[m].pc = "running" /\ ~muts[m].cancelled /\ TermOver(m)
    /\ muts' = [muts EXCEPT ![m].cancelled = TRUE] /\ OnlyMuts

\* cancelAll, or the stuck timeout of a branch mutation.
CancelLate(m) ==
    /\ muts[m].pc = "running" /\ ~muts[m].cancelled
    /\ muts' = [muts EXCEPT ![m].cancelled = TRUE] /\ OnlyMuts

\* The handler returns: done().
Finish(m) ==
    /\ muts[m].pc = "running"
    /\ muts' = [muts EXCEPT ![m].pc = "done"] /\ OnlyMuts

-----------------------------------------------------------------------------
(* run's shutdown and drainAPI. *)

OnlyServer == UNCHANGED <<electVars, gate, markVars, loops, muts, mishaps>>
Running(r) == {m \in Muts : muts[m].at = r /\ muts[m].pc = "running"}
Handlers(r) == {m \in Muts : muts[m].at = r /\ muts[m].pc \in {"admitted", "running"}}

\* SIGTERM: stopAdmitting; the listener closes.
Sigterm(r) ==
    /\ server[r] = "up" /\ server' = [server EXCEPT ![r] = "drain"]
    /\ UNCHANGED clean /\ OnlyServer

\* http.Server.Shutdown returns: no handler is left.  Then stopElection.
Drained(r) ==
    /\ server[r] = "drain" /\ Handlers(r) = {}
    /\ server' = [server EXCEPT ![r] = "down"] /\ clean' = [clean EXCEPT ![r] = TRUE]
    /\ OnlyServer

\* The budget runs out first: CancelMutations.
BudgetOver(r) ==
    /\ server[r] = "drain" /\ Handlers(r) # {}
    /\ server' = [server EXCEPT ![r] = "grace"] /\ UNCHANGED clean /\ OnlyServer

\* WaitMutations returns nil, or the grace runs out.  Then stopElection.
GraceOver(r) ==
    /\ server[r] = "grace"
    /\ server' = [server EXCEPT ![r] = "down"]
    /\ clean' = [clean EXCEPT ![r] = Running(r) = {}]
    /\ OnlyServer

-----------------------------------------------------------------------------

Elect(r) == Acquire(r) \/ RenewFails(r) \/ ElectionStopped(r) \/ ReplicaDies(r)
Lead(r) == \/ \E t \in pending[r] : OnStartedLeading(r, t)
           \/ LoopReturns(r) \/ OnStoppedLeading(r) \/ Unmark(r) \/ Mark(r)
Mutate(m) == \/ \E r \in Replicas : Admit(m, r)
             \/ Begin(m) \/ CancelTerm(m) \/ CancelLate(m) \/ Finish(m)
Shutdown(r) == Sigterm(r) \/ Drained(r) \/ BudgetOver(r) \/ GraceOver(r)

LeadershipNext ==
    \/ \E r \in Replicas : Elect(r) \/ Lead(r) \/ Shutdown(r)
    \/ \E m \in Muts : Mutate(m)
    \/ LeaseExpires
    \/ \E x \in late : Land(x)

LeadershipSpec == LeadershipInit /\ [][LeadershipNext]_leadershipVars

\* Goroutines run, sleeps end, API calls answer, time-outs fire; nothing makes
\* a mutation finish, a SIGTERM come or an election succeed.
Fairness ==
    /\ \A r \in Replicas :
        /\ WF_leadershipVars(Lead(r)) /\ WF_leadershipVars(Mark(r)) /\ WF_leadershipVars(LoopReturns(r))
        /\ WF_leadershipVars(OnStoppedLeading(r)) /\ WF_leadershipVars(Unmark(r))
        /\ WF_leadershipVars(ElectionStopped(r)) /\ WF_leadershipVars(Drained(r) \/ BudgetOver(r) \/ GraceOver(r))
    /\ \A m \in Muts : WF_leadershipVars(Begin(m)) /\ WF_leadershipVars(CancelTerm(m))
    /\ WF_leadershipVars(\E x \in late : Land(x))

LeadershipFairSpec == LeadershipSpec /\ Fairness

-----------------------------------------------------------------------------
(* Properties. *)

ElectorState == [pc: {"contend", "lead", "ended", "stopping", "exit"}, term: 0..MaxTerm]
GateState == [open: BOOLEAN, term: Nat]
MarkerState == [pc: {"off", "get", "patch", "list", "clear", "wait"},
                term: 0..MaxTerm, seen: SUBSET Replicas]
MutState == [pc: {"none", "admitted", "running", "done"}, at: Replicas \cup {Nobody},
             term: Nat, cancelled: BOOLEAN]

\* Electors, gates, marker loops and requests are in states the code knows.
LeadershipTypeOK ==
    /\ lease \in [holder: Replicas \cup {Nobody}, terms: 0..MaxTerm]
    /\ elector \in [Replicas -> ElectorState]
    /\ pending \in [Replicas -> SUBSET (1..MaxTerm)]
    /\ gate \in [Replicas -> GateState]
    /\ marker \in [Replicas -> MarkerState]
    /\ loops \in [Replicas -> SUBSET (1..MaxTerm)]
    /\ labels \subseteq Replicas
    /\ late \subseteq [pod: Replicas, on: BOOLEAN]
    /\ muts \in [Muts -> MutState]
    /\ server \in [Replicas -> {"up", "drain", "grace", "down"}]
    /\ clean \in [Replicas -> BOOLEAN]
    /\ mishaps \in 0..MaxMishaps

\* Only the leader takes writes: an open gate belongs to a replica that leads,
\* or whose OnStoppedLeading is about to close it, however late the goroutine
\* that runs OnStartedLeading is scheduled; so of two open gates one is
\* already stepping down (OnStartedLeading's check of leaderCtx).
GateFollowsLease ==
    /\ \A r \in Replicas : gate[r].open => elector[r].pc \in {"lead", "ended"}
    /\ \A r, s \in Replicas : r # s /\ gate[r].open /\ gate[s].open =>
          "ended" \in {elector[r].pc, elector[s].pc}

\* When the drain reports success no mutation is left, and none can start
\* behind its back: the Lease is given up with no saga in flight ("so no other
\* replica takes over while this one is still finishing sagas").
DrainedMeansIdle ==
    \A r \in Replicas : server[r] = "down" /\ clean[r] => Running(r) = {}

\* A deposed leader's mutation does not go on next to the new leader: one whose
\* gate term has ended is eventually cancelled or done, also when the term
\* ended between admit and begin and a new one has begun since.
DeposedStops ==
    \A m \in Muts : muts[m].pc = "running" /\ TermOver(m)
                        ~> muts[m].cancelled \/ muts[m].pc = "done"

\* A replica told to shut down exits: no callback waits for a loop that waits
\* for the callback, whatever sagas hang (unless it crashes and starts anew).
ShutdownEnds ==
    \A r \in Replicas : server[r] = "drain" ~> elector[r].pc = "exit" \/ server[r] = "up"

\* Once a leader stays, exactly its pod carries the label, whatever a deposed
\* or crashed leader left behind and whatever patches land late (Mark repeats
\* and clears other pods' labels).
LabelsConverge ==
    \A r \in Replicas : <>[](gate[r].open /\ elector[r].pc = "lead") => <>[](labels = {r})
=============================================================================
