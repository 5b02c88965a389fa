------------------------------- MODULE Webhook -------------------------------
(***************************************************************************)
(* The branch-per-pull-request service (internal/ghook, cmd/pgoverlay-     *)
(* github): deliveries that GitHub sends in any order and may send again,  *)
(* the cache of delivery ids, the per-branch queues and their workers, the *)
(* jobs that ensure or destroy a branch through branchd and report on the  *)
(* pull request (a commit status and one live comment), and the shutdown.  *)
(*                                                                         *)
(* Each pull request has a branch of its own (the pr-number naming).       *)
(* The API client repeats a call that was interrupted if it is idempotent  *)
(* (internal/apiclient).  branchd is reduced to the state of a branch and  *)
(* the steps that move it.  GitHub credentials are configured.  Signatures,*)
(* payload decoding, wording and the separate diff comment are left out.   *)
(***************************************************************************)
EXTENDS Naturals, FiniteSets, Sequences, Functions

CONSTANTS PRs, None,
          Workers,      \* goroutines that may drain at the same time
          ResetOnPush,  \* synchronize resets a ready branch
          CacheSize,    \* delivery ids remembered
          Budgets       \* bounds: deliveries that GitHub makes up (events), deliveries sent
                        \* again (replays); calls and sagas that fail, branches reaped (faults)

ASSUME WebhookAssumption ==
    /\ CacheSize \in Nat \ {0} /\ Budgets \subseteq [{"events", "replays", "faults"} -> Nat]
    /\ ResetOnPush \in BOOLEAN /\ None \notin {"stopping", "waited", "aborted"}

VARIABLES pr,        \* GitHub: the state of each pull request
          events,    \* deliveries made: [pr, action, sha]; the position is the id
          page,      \* per pull request: commits, the last one's status, live comments
          net,       \* deliveries on their way
          seen,      \* deliveryCache, oldest first
          queues,    \* per branch: [running, jobs]; running iff the map has the key
          drains,    \* worker goroutines
          wg,        \* the WaitGroup
          branch,    \* branchd: the state of each branch
          latest,    \* per branch: the action enqueued last
          calm,      \* per branch: nothing failed since the pull request changed
          exit,      \* None, "stopping", "waited" or "aborted"
          budget     \* events, replays and faults left

webVars == <<pr, events, page, net, seen, queues, drains, wg, branch,
             latest, calm, exit, budget>>
github == <<pr, events>>
intake == <<net, seen>>

Busy == {"creating", "resetting", "destroying"}
Ids == DOMAIN events
Closed(id) == events[id].action = "closed"

WebhookInit ==
    /\ pr = [p \in PRs |-> "none"] /\ events = << >> /\ net = {} /\ seen = << >>
    /\ queues = [p \in PRs |-> [running |-> FALSE, jobs |-> << >>]]
    /\ drains = {} /\ wg = 0
    /\ branch = [p \in PRs |-> "absent"]
    /\ page = [p \in PRs |-> [commits |-> 0, status |-> None, comments |-> << >>]]
    /\ latest = [p \in PRs |-> None] /\ calm = [p \in PRs |-> TRUE]
    /\ exit = None /\ budget \in Budgets

-----------------------------------------------------------------------------
(* GitHub. *)

\* Opening and pushing add a commit, which has no status yet.
Sends(p, action, to) ==
    LET shown == IF action \in {"opened", "synchronize"}
                 THEN [page[p] EXCEPT !.commits = @ + 1, !.status = None] ELSE page[p] IN
    /\ budget.events > 0 /\ budget' = [budget EXCEPT !.events = @ - 1]
    /\ page' = [page EXCEPT ![p] = shown]
    /\ events' = Append(events, [pr |-> p, action |-> action, sha |-> shown.commits])
    /\ net' = net \cup {Len(events')} /\ pr' = [pr EXCEPT ![p] = to]
    /\ calm' = [calm EXCEPT ![p] = TRUE]
    /\ UNCHANGED <<seen, queues, drains, wg, branch, latest, exit>>

PullRequest(p) ==
    \/ pr[p] = "none" /\ Sends(p, "opened", "open")
    \/ pr[p] = "open" /\ (Sends(p, "synchronize", "open") \/ Sends(p, "closed", "closed"))
    \/ pr[p] = "closed" /\ Sends(p, "reopened", "open")

\* A retry, a redelivery or a replayed request.
Redeliver(id) ==
    /\ id \notin net /\ budget.replays > 0
    /\ net' = net \cup {id} /\ budget' = [budget EXCEPT !.replays = @ - 1]
    /\ UNCHANGED <<github, page, seen, queues, drains, wg, branch, latest, calm, exit>>

-----------------------------------------------------------------------------
(* handleWebhook and dispatch: a remembered id is dropped, any other is      *)
(* acknowledged and queued.  The cache and the queue have a lock each; two   *)
(* handlers that interleave between them only swap places, which net, being  *)
(* unordered, allows anyway, so a handler is one step.                       *)

Remember(s, id) == IF Len(s) = CacheSize THEN Append(Tail(s), id) ELSE Append(s, id)

NewDrain(p, w) == [pr |-> p, by |-> w, job |-> None, pc |-> "top", note |-> None]
Free == Workers \ {d.by : d \in drains}

Queued(id, spawn) ==
    LET p == events[id].pr IN
    /\ queues' = [queues EXCEPT ![p] = [running |-> TRUE, jobs |-> Append(@.jobs, id)]]
    /\ spawn => Free # {}
    /\ drains' = IF spawn THEN drains \cup {NewDrain(p, CHOOSE w \in Free : TRUE)} ELSE drains
    /\ latest' = [latest EXCEPT ![p] = events[id].action]

\* Mutant: a worker is started whenever no job is waiting.
enqueueIfEmpty(id) ==
    Queued(id, queues[events[id].pr].jobs = << >>) /\ wg' = wg + 1

\* Mutant: workers are counted instead of jobs.
enqueueWorkers(id) ==
    LET starts == ~queues[events[id].pr].running IN
    Queued(id, starts) /\ wg' = IF starts THEN wg + 1 ELSE wg

enqueue(id) == Queued(id, ~queues[events[id].pr].running) /\ wg' = wg + 1

Deliver(id) ==
    /\ id \in net /\ exit = None /\ net' = net \ {id}
    /\ IF id \in Range(seen)
       THEN UNCHANGED <<seen, queues, drains, latest, wg>>
       ELSE seen' = Remember(seen, id) /\ enqueue(id)
    /\ UNCHANGED <<github, page, branch, calm, exit, budget>>

-----------------------------------------------------------------------------
(* drain. *)

Alive == exit \notin {"waited", "aborted"}
Work(d, pc) == d \in drains /\ d.pc = pc /\ Alive
Put(d, e) == drains' = (drains \ {d}) \cup {e}
Goto(d, pc) == Put(d, [d EXCEPT !.pc = pc])
Local == UNCHANGED <<github, intake, queues, wg, latest, exit>>
KeepQueues == Local /\ UNCHANGED page
NoFault == UNCHANGED <<calm, budget>>
Fault(p) == /\ budget.faults > 0 /\ budget' = [budget EXCEPT !.faults = @ - 1]
            /\ calm' = [calm EXCEPT ![p] = FALSE]

\* Take the next job.
Pop(d) ==
    LET jobs == queues[d.pr].jobs IN
    /\ Work(d, "top") /\ jobs # << >> /\ queues' = [queues EXCEPT ![d.pr].jobs = Tail(@)]
    /\ Put(d, IF Closed(Head(jobs)) THEN [d EXCEPT !.job = Head(jobs), !.pc = "check"]
              ELSE [d EXCEPT !.job = Head(jobs), !.pc = "status", !.note = "working"])
    /\ NoFault /\ UNCHANGED <<github, page, intake, wg, branch, latest, exit>>

\* After a job: on to the next one, or retire the queue.
NextJob(d) ==
    /\ Work(d, "fin") /\ queues[d.pr].jobs # << >>
    /\ Put(d, [d EXCEPT !.job = None, !.pc = "top"]) /\ wg' = wg - 1
    /\ NoFault /\ UNCHANGED <<github, page, intake, queues, branch, latest, exit>>

Retire(d) ==
    /\ Work(d, "fin") /\ queues[d.pr].jobs = << >>
    /\ queues' = [queues EXCEPT ![d.pr].running = FALSE] /\ Goto(d, "retired")
    /\ NoFault /\ UNCHANGED <<github, page, intake, wg, branch, latest, exit>>

Done(d) ==
    /\ Work(d, "retired") /\ drains' = drains \ {d} /\ wg' = wg - 1
    /\ NoFault /\ UNCHANGED <<github, page, intake, queues, branch, latest, exit>>

-----------------------------------------------------------------------------
(* What a job reports on the pull request: "working" before the operation,   *)
(* then "ready" or "failed", each as status and comment; "destroyed" after a *)
(* close, as comment only.  A failed report is logged and skipped.           *)

Report(d, note) == Put(d, [d EXCEPT !.note = note,
                                    !.pc = IF note = "destroyed" THEN "comment" ELSE "status"])

StatusOf(note) == CASE note = "working" -> "pending" [] note = "ready" -> "success"
                    [] OTHER -> "failure"

\* A call that GitHub takes, or that fails; an answer lost on the way back changes
\* nothing more.
Posts(p, after) == \/ NoFault /\ page' = after
                   \/ Fault(p) /\ UNCHANGED page

\* setStatus on the commit that the delivery names; those of earlier commits do
\* not count any more.
setStatus(d) ==
    /\ Work(d, "status") /\ Goto(d, "comment") /\ Local /\ UNCHANGED branch
    /\ Posts(d.pr, IF events[d.job].sha = page[d.pr].commits
                   THEN [page EXCEPT ![d.pr].status = StatusOf(d.note)] ELSE page)

Reported(d) == Put(d, [d EXCEPT !.note = None,
                                !.pc = IF d.note = "working" THEN "get" ELSE "fin"])

\* Mutant: a list that cannot be read counts as empty.
findMarkerCommentBlind(d) ==
    LET found == page[d.pr].comments # << >> IN
    /\ Work(d, "comment") /\ KeepQueues /\ UNCHANGED branch
    /\ \/ NoFault /\ found /\ Goto(d, "patch")
       \/ NoFault /\ ~found /\ (IF d.note = "destroyed" THEN Reported(d) ELSE Goto(d, "post"))
       \/ Fault(d.pr) /\ Goto(d, "post")

\* The live comment is looked for first.  UpdateComment, after a close, ends here
\* when there is none, and so does either when the list cannot be read.
findMarkerComment(d) ==
    LET found == page[d.pr].comments # << >> IN
    /\ Work(d, "comment") /\ KeepQueues /\ UNCHANGED branch
    /\ \/ NoFault /\ found /\ Goto(d, "patch")
       \/ NoFault /\ ~found /\ (IF d.note = "destroyed" THEN Reported(d) ELSE Goto(d, "post"))
       \/ Fault(d.pr) /\ Reported(d)

\* Then the first one found is rewritten, or a new one is made.
UpsertComment(d) ==
    /\ \/ Work(d, "patch") /\ Posts(d.pr, [page EXCEPT ![d.pr].comments[1] = d.note])
       \/ Work(d, "post") /\ Posts(d.pr, [page EXCEPT ![d.pr].comments = Append(@, d.note)])
    /\ Reported(d) /\ Local /\ UNCHANGED branch

-----------------------------------------------------------------------------
(* handleEnsure and ensureBranch. *)

Resets(d) == ResetOnPush /\ events[d.job].action = "synchronize"

\* Mutant: a branch that is there already is not reported.
getUnreported(d) ==
    LET b == branch[d.pr] IN
    /\ Work(d, "get") /\ KeepQueues /\ NoFault /\ UNCHANGED branch
    /\ \/ b = "absent" /\ Goto(d, "create")
       \/ b = "failed" /\ Goto(d, "redo")
       \/ b = "ready" /\ Goto(d, IF Resets(d) THEN "reset" ELSE "fin")

\* settledBranch, then what its answer calls for.
get(d) ==
    LET b == branch[d.pr] IN
    /\ Work(d, "get") /\ KeepQueues /\ NoFault /\ UNCHANGED branch
    /\ \/ b = "absent" /\ Goto(d, "create")
       \/ b = "failed" /\ Goto(d, "redo")
       \/ b = "ready" /\ Resets(d) /\ Goto(d, "reset")
       \/ b = "ready" /\ ~Resets(d) /\ Report(d, "ready")

\* A call that branchd starts when the branch is in one of the states from, and
\* refuses otherwise.
Calls(d, from, to, pc) ==
    LET p == d.pr IN
    \/ /\ branch[p] \in from /\ branch' = [branch EXCEPT ![p] = to]
       /\ Goto(d, pc)
    \/ branch[p] \notin from /\ UNCHANGED branch /\ Report(d, "failed")

create(d) == /\ Work(d, "create") /\ KeepQueues /\ NoFault
             /\ Calls(d, {"absent"}, "creating", "wait")

reset(d) == /\ Work(d, "reset") /\ KeepQueues /\ NoFault
            /\ Calls(d, {"ready", "failed"}, "resetting", "wait")

\* DestroyBranch takes a branch in any state: one in flight it forces to failed
\* first, which is part of the step, and a destroy that stopped half-way goes on.
Destroys(p) == branch[p] # "absent" /\ branch' = [branch EXCEPT ![p] = "destroying"]

\* A failed branch is destroyed and created again; one gone by now is created.
redo(d) == /\ Work(d, "redo") /\ KeepQueues /\ NoFault
           /\ \/ branch[d.pr] = "absent" /\ Goto(d, "create") /\ UNCHANGED branch
              \/ Destroys(d.pr) /\ Goto(d, "redoing")

redone(d) == /\ Work(d, "redoing") /\ branch[d.pr] = "absent" /\ Goto(d, "create")
             /\ KeepQueues /\ NoFault /\ UNCHANGED branch

\* requireReady: the call answered, or the branch settled some other way.
requireReady(d) ==
    /\ Work(d, "wait") /\ branch[d.pr] \notin Busy /\ KeepQueues /\ NoFault /\ UNCHANGED branch
    /\ Report(d, IF branch[d.pr] = "ready" THEN "ready" ELSE "failed")

-----------------------------------------------------------------------------
(* handleClosed. *)

\* A close that GitHub has since taken back is stale.  If the lookup fails the
\* close goes ahead.
reopened(d) ==
    /\ Work(d, "check") /\ KeepQueues /\ UNCHANGED branch
    /\ \/ NoFault /\ Goto(d, IF pr[d.pr] = "open" THEN "fin" ELSE "settle")
       \/ Fault(d.pr) /\ Goto(d, "settle")

\* Mutant: the branch is read once, and one that is busy is an error.
settleOnce(d) == /\ Work(d, "settle") /\ KeepQueues /\ NoFault /\ UNCHANGED branch
                 /\ \/ branch[d.pr] \in Busy /\ Goto(d, "fin")
                    \/ branch[d.pr] = "absent" /\ Report(d, "destroyed")
                    \/ branch[d.pr] \in {"ready", "failed"} /\ Goto(d, "destroy")

\* settledBranch: the operation in progress is waited for.
settle(d) == /\ Work(d, "settle") /\ branch[d.pr] \notin Busy
             /\ KeepQueues /\ NoFault /\ UNCHANGED branch
             /\ IF branch[d.pr] = "absent" THEN Report(d, "destroyed") ELSE Goto(d, "destroy")

destroyBranch(d) ==
    /\ Work(d, "destroy") /\ KeepQueues /\ NoFault
    /\ \/ Destroys(d.pr) /\ Goto(d, "destroying")
       \/ branch[d.pr] = "absent" /\ UNCHANGED branch /\ Report(d, "destroyed")

destroyed(d) == /\ Work(d, "destroying") /\ branch[d.pr] = "absent" /\ Report(d, "destroyed")
                /\ KeepQueues /\ NoFault /\ UNCHANGED branch

\* The request that once sends again: the call that the job waits for.
Call(d) == CASE d.pc = "destroying" -> "destroy" [] d.pc = "redoing" -> "redo"
             [] branch[d.pr] = "creating" -> "create" [] OTHER -> "reset"

\* A DELETE is idempotent; create and reset are POSTs.
idempotent(d) == d.pc \in {"destroying", "redoing"}

\* The client's do: the connection breaks under a call that may be repeated, and
\* branchd goes on, its mutations being detached from the connection.
do(d) == /\ d \in drains /\ Alive /\ idempotent(d) /\ Goto(d, Call(d))
         /\ budget.faults > 0 /\ budget' = [budget EXCEPT !.faults = @ - 1]
         /\ KeepQueues /\ UNCHANGED <<branch, calm>>

\* retryable: branchd stops leading or shuts down, fails what it was doing and
\* answers 503, which repeats any call.
Interrupted(d) ==
    /\ Work(d, "wait") /\ branch[d.pr] \in {"creating", "resetting"} /\ Fault(d.pr)
    /\ branch' = [branch EXCEPT ![d.pr] = "failed"] /\ Goto(d, Call(d)) /\ KeepQueues

Ensuring(d) == d.pc \in {"get", "create", "reset", "redo", "redoing", "wait"}
Closing(d) == d.pc \in {"settle", "destroy", "destroying"}

\* A call of an ensure fails, which is reported; a close that fails is not.
EnsureFails(d) == Ensuring(d) /\ Report(d, "failed")
CloseFails(d) == Closing(d) /\ Goto(d, "fin")

\* An ensure runs into opTimeout, and so do its reports.
TimesOut(d) == Ensuring(d) /\ Goto(d, "fin")

\* branchd carries on with what it started.
JobFails(d) == /\ d \in drains /\ Alive /\ Fault(d.pr) /\ KeepQueues /\ UNCHANGED branch
               /\ EnsureFails(d) \/ CloseFails(d) \/ TimesOut(d)

-----------------------------------------------------------------------------
(* branchd, and the process's end. *)

Branchd(p, from, to) == /\ branch[p] = from /\ branch' = [branch EXCEPT ![p] = to]
                        /\ KeepQueues /\ UNCHANGED drains

Completes(p) ==
    /\ NoFault
    /\ \/ Branchd(p, "creating", "ready") \/ Branchd(p, "resetting", "ready")
       \/ Branchd(p, "destroying", "absent")

SagaFails(p) == Fault(p) /\ (Branchd(p, "creating", "failed") \/ Branchd(p, "resetting", "failed"))

\* The TTL, or somebody else, takes the branch away.
Reaped(p) == Fault(p) /\ (Branchd(p, "ready", "destroying") \/ Branchd(p, "failed", "destroying"))

Ends(from, to) == /\ exit = from /\ exit' = to
                  /\ UNCHANGED <<github, page, intake, queues, drains, wg, branch, latest,
                                 calm, budget>>

Signal == Ends(None, "stopping")
\* Shutdown waits for the handlers, then Wait for the jobs.
Wait == wg = 0 /\ Ends("stopping", "waited")
\* A connection that outlives Shutdown's ten seconds: the process exits at once.
ShutdownFails == Ends("stopping", "aborted")

-----------------------------------------------------------------------------

Job(d) == \/ Pop(d) \/ NextJob(d) \/ Retire(d) \/ Done(d)
          \/ setStatus(d) \/ findMarkerComment(d) \/ UpsertComment(d)
          \/ get(d) \/ create(d) \/ reset(d) \/ redo(d) \/ redone(d) \/ requireReady(d)
          \/ reopened(d) \/ settle(d) \/ destroyBranch(d) \/ destroyed(d)

WebhookNext ==
    \/ \E p \in PRs : PullRequest(p) \/ Completes(p) \/ SagaFails(p) \/ Reaped(p)
    \/ \E id \in Ids : Redeliver(id) \/ Deliver(id)
    \/ \E d \in drains : Job(d) \/ do(d) \/ Interrupted(d) \/ JobFails(d)
    \/ Signal \/ Wait \/ ShutdownFails

\* GitHub delivers, goroutines run and branchd's operations end (reconcile
\* retries an interrupted destroy).
WebhookFairness ==
    /\ \A b \in Budgets : \A id \in 1..b.events : WF_webVars(id \in Ids /\ Deliver(id))
    /\ \A p \in PRs : WF_webVars(\E d \in drains : d.pr = p /\ Job(d)) /\ WF_webVars(Completes(p))

WebhookSpec == WebhookInit /\ [][WebhookNext]_webVars /\ WebhookFairness

-----------------------------------------------------------------------------
(* Properties. *)

Working(p) == {d \in drains : d.pr = p /\ d.pc \notin {"top", "retired"}}

\* "Deliveries for the same branch run one at a time": enqueue starts a worker only
\* if the branch has none, in every interleaving with a worker that retires.
OneAtATime == \A p \in PRs : Cardinality(Working(p)) <= 1

\* drain: "once Wait returns no queue is left behind": the process ends through
\* Wait only when every acknowledged delivery has run.
WaitMeansIdle ==
    exit = "waited" => /\ drains = {}
                       /\ \A p \in PRs : queues[p] = [running |-> FALSE, jobs |-> << >>]

\* "one comment per PR" (github.go): nobody posts between a job's look for the
\* comment that carries the marker and its POST, and a look that failed posts
\* nothing, also when a delivery ran twice (as long as the comment is among the
\* first hundred, the page that is read).
OneComment == \A p \in PRs : Len(page[p].comments) <= 1

Undisturbed(p) == calm[p] /\ exit = None

\* The pull request shows a ready branch: on its comment, and as the status of its
\* last commit.
ShowsReady(p) == page[p].comments = <<"ready">> /\ page[p].status = "success"

\* A pull request that stays open keeps a ready branch and says so, however its
\* deliveries are reordered, repeated or forgotten by the cache, if nothing fails
\* after its last change: reopened makes a stale close harmless, a reopen that
\* overtakes or follows the destroy creates the branch again, and an older push
\* that is handled last leaves the last commit's status alone.
OpenHasBranch ==
    \A p \in PRs : <>[](pr[p] = "open" /\ Undisturbed(p))
                   => <>[](branch[p] = "ready" /\ ShowsReady(p))

\* A pull request that stays closed, and whose close was the last delivery to be
\* queued, loses its branch, also when the job of an earlier delivery gave up on a
\* create that branchd still runs (destroyBranch waits for it), or the create or an
\* earlier destroy has failed, and its comment does not offer the branch any more.
ClosedLosesBranch ==
    \A p \in PRs : <>[](pr[p] = "closed" /\ latest[p] = "closed" /\ Undisturbed(p))
                   => <>[](branch[p] = "absent" /\ page[p].comments \in {<< >>, <<"destroyed">>})
=============================================================================
