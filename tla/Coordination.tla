---------------------------- MODULE Coordination ----------------------------
(***************************************************************************)
(* The coordination ledger (core/coordination) and the runs that use it    *)
(* (core/phases/task_intake.py, core/execution/runner_core.py).            *)
(*                                                                         *)
(* The ledger is a database in autocommit mode.  Only claim_task and the   *)
(* two reapers open a transaction; every other method is a sequence of     *)
(* statements that commit one by one.  One action of this module is one    *)
(* transaction, or one write statement with the reads that belong to it.   *)
(*                                                                         *)
(* A run claims at most once, so the lease of run r is named r.  Time is   *)
(* relative: a lease keeps the time it has left, its heartbeat and a       *)
(* worker row keep their age, and all saturate, which leaves the           *)
(* comparisons of the code unchanged and needs no clock bound.             *)
(*                                                                         *)
(* Left out: columns nothing here decides on (of a task its claimed_run_id,*)
(* claimed_by, claimed_host_id and lease_expires_at_ms, the status of a    *)
(* worker, reasons, metadata) and the runs table, which RunHeartbeat       *)
(* models.  tasks.status always equals tasks.state.                        *)
(***************************************************************************)
EXTENDS Naturals, FiniteSets

CONSTANTS
    Tasks,          \* task keys
    Runs,           \* run ids; also the id of the lease the run may get
    Workers,        \* worker ids, one per process (the rows of local sub-workers carry no lease)
    Hosts,          \* host ids
    TaskOf,         \* the task a run resolves
    WorkerOf,       \* the process that executes a run
    HostOf,         \* the host of a worker
    Deps,           \* the dependencies a task declares
    TTL,            \* lease_ttl_seconds
    StaleAfter,     \* worker_stale_after_seconds
    OperatorStates, \* bound: the states the operator moves a task to
    Fallible,       \* bound: the processes that may crash
    CliReleased,    \* bound: the leases that `aca lease release` may name
    NoRun           \* SQL NULL in a column that names a run or a lease

ASSUME ConstantsAssumption ==
    /\ TaskOf \in [Runs -> Tasks]
    /\ WorkerOf \in [Runs -> Workers]
    /\ HostOf \in [Workers -> Hosts]
    /\ Deps \in [Tasks -> SUBSET Tasks]
    /\ NoRun \notin Runs

ASSUME TimeAssumption ==
    /\ TTL \in Nat \ {0}
    /\ StaleAfter \in Nat \ {0}

ASSUME BoundsAssumption ==
    /\ OperatorStates \subseteq {"queued", "active", "review", "blocked", "done"}
    /\ Fallible \subseteq Workers
    /\ CliReleased \subseteq Runs

VARIABLES
    leases,     \* the leases table
    tasks,      \* the tasks table
    workers,    \* the workers table
    pc,         \* where the main thread of each run is
    loc,        \* the locals of a run: register_task's row, the final decision
    touch,      \* the heartbeat_lease call in flight in each run
    rel,        \* the release_lease call in flight on a lease
    op          \* the operator's task-state update in flight

vars == <<leases, tasks, workers, pc, loc, touch, rel, op>>

-----------------------------------------------------------------------------
(* States *)

TaskStates == {"queued", "claimed", "active", "review", "blocked", "done", "stale"}

\* "failed" has the effects of "blocked" on the ledger.
ReleaseStatuses == {"completed", "blocked", "stale"}
LeaseStatuses == {"none", "active"} \cup ReleaseStatuses

\* The points of run_task_intake and of the phases after it at which the main
\* thread of a run is between two writes to the ledger.
PCs == {"idle", "select", "lookup", "clear", "worker", "claim", "markBlocked",
        "claimed", "started", "working", "review", "finishing", "exited", "crashed"}

Live == PCs \ {"idle", "exited", "crashed"}

\* ctx.status names the lease: the run beats, and releases the lease at its end.
Owning == {"started", "working", "review", "finishing"}

NullRun == Runs \cup {NoRun}

\* The times of a lease that is not active, and the age of a worker row that
\* names no lease, are read by nobody and kept at 0.
Ended(status) == [status |-> status, left |-> 0, hb |-> 0]
NoTouch == [at |-> "off", lag |-> 0]
NoRel == [at |-> "off", status |-> "stale", by |-> "run"]
NoOp(t) == [at |-> "off", task |-> t, state |-> "queued"]

Least(a, b) == IF a <= b THEN a ELSE b
Minus(a, b) == IF a <= b THEN 0 ELSE a - b

\* An older reading of the clock than this is as good as this one.
MaxLag == IF TTL <= StaleAfter THEN StaleAfter ELSE TTL

LeaseTable == [Runs -> [status: LeaseStatuses, left: 0..TTL, hb: 0..StaleAfter]]
TaskTable == [Tasks -> [state: TaskStates \cup {"none"}, lease: NullRun]]
WorkerTable == [Workers -> [lease: NullRun, age: 0..StaleAfter]]

RunLocals == [Runs -> [status: {"queued", "blocked"}, seen: NullRun, final: ReleaseStatuses]]
Touches == [Runs -> [at: {"off", "lease", "worker"}, lag: 0..MaxLag]]
Releases == [Runs -> [at: {"off", "task", "worker"}, status: ReleaseStatuses,
                      by: {"run", "cli"}]]
OperatorCall == [at: {"off", "reclaim", "state", "leases", "unclaim"},
                 task: Tasks, state: TaskStates]

\* The kinds of the columns of the three tables and of the calls in flight; the
\* saturated clocks stay in their ranges.
TypeOK ==
    /\ leases \in LeaseTable
    /\ tasks \in TaskTable
    /\ workers \in WorkerTable
    /\ pc \in [Runs -> PCs]
    /\ loc \in RunLocals
    /\ touch \in Touches
    /\ rel \in Releases
    /\ op \in OperatorCall

Init ==
    /\ leases = [r \in Runs |-> Ended("none")]
    /\ tasks = [t \in Tasks |-> [state |-> "none", lease |-> NoRun]]
    /\ workers = [w \in Workers |-> [lease |-> NoRun, age |-> 0]]
    /\ pc = [r \in Runs |-> "idle"]
    /\ loc = [r \in Runs |-> [status |-> "queued", seen |-> NoRun, final |-> "blocked"]]
    /\ touch = [r \in Runs |-> NoTouch]
    /\ rel = [r \in Runs |-> NoRel]
    /\ \E t \in Tasks : op = NoOp(t)

-----------------------------------------------------------------------------
(* The tables as the reapers and claim_task read and rewrite them *)

Active(ls) == {r \in Runs : ls[r].status = "active"}
LeasesOf(t) == {r \in Runs : TaskOf[r] = t}

\* Mutant: nobody looks for another holder.
NoHolders(ls, t) == {}

\* SELECT ... FROM leases WHERE task_key = ? AND status = 'active'
Holders(ls, t) == LeasesOf(t) \cap Active(ls)

SetStale(ls, S) ==
    [r \in Runs |-> IF r \in S THEN Ended("stale") ELSE ls[r]]

\* _clear_task_claim_for_lease_locked: the state is overwritten whatever it was,
\* the claim columns only when they name one of the leases in S.
ClearTaskClaims(ts, S, state) ==
    [t \in Tasks |->
        IF LeasesOf(t) \cap S = {} THEN ts[t]
        ELSE IF ts[t].lease \in LeasesOf(t) \cap S
             THEN [state |-> state, lease |-> NoRun]
             ELSE [ts[t] EXCEPT !.state = state]]

IdleWorkers(ws, W) ==
    [w \in Workers |-> IF w \in W THEN [lease |-> NoRun, age |-> 0] ELSE ws[w]]

\* Mutant: the expired leases are found through the worker rows.
ExpiredOfWorkers(ls) ==
    {r \in Active(ls) : ls[r].left = 0 /\ workers[WorkerOf[r]].lease = r}

\* reap_expired_leases: expires_at_ms <= now.
Expired(ls) == {r \in Active(ls) : ls[r].left = 0}

\* reap_stale_workers: rows that name a lease and were not seen for StaleAfter.
StaleRows(ws) == {w \in Workers : ws[w].lease # NoRun /\ ws[w].age = StaleAfter}

\* A host with more than one lease-carrying worker row, all of them stale.
DeadHosts(ws) ==
    {h \in Hosts :
        LET carrying == {w \in Workers : HostOf[w] = h /\ ws[w].lease # NoRun}
        IN  Cardinality(carrying) > 1 /\ carrying \subseteq StaleRows(ws)}

OwnsActive(ls, ws, w) ==
    /\ ws[w].lease \in Active(ls)
    /\ WorkerOf[ws[w].lease] = w

\* should_reap_lease
SilentOwners(ls, ws) ==
    {w \in StaleRows(ws) :
        /\ OwnsActive(ls, ws, w)
        /\ ls[ws[w].lease].hb = StaleAfter \/ HostOf[w] \in DeadHosts(ws)}

SilentLeases(ls, ws) == {ws[w].lease : w \in SilentOwners(ls, ws)}

\* The rows the reaper sets idle: all stale ones but the owners it lets live.
IdledRows(ls, ws) ==
    {w \in StaleRows(ws) : OwnsActive(ls, ws, w) => w \in SilentOwners(ls, ws)}

Owners(S) == {WorkerOf[r] : r \in S}

\* What claim_task's own reaping leaves: expired leases, then silent workers.
LeasesAfterExpiry == SetStale(leases, Expired(leases))
WorkersAfterExpiry == IdleWorkers(workers, Owners(Expired(leases)))
TasksAfterExpiry == ClearTaskClaims(tasks, Expired(leases), "stale")
SilentAfterExpiry == SilentLeases(LeasesAfterExpiry, WorkersAfterExpiry)
LeasesReaped == SetStale(LeasesAfterExpiry, SilentAfterExpiry)
TasksReaped == ClearTaskClaims(TasksAfterExpiry, SilentAfterExpiry, "stale")
WorkersReaped ==
    IdleWorkers(WorkersAfterExpiry, IdledRows(LeasesAfterExpiry, WorkersAfterExpiry))

\* Mutant: a dependency in review is good enough.
DependencyInProgress(ts, t) ==
    LET known == {u \in Tasks \ {t} : ts[u].state # "none"}
    IN  known # {} /\ \E d \in Deps[t] : ~(d \in known /\ ts[d].state \in {"review", "done"})

\* dependency_status_for_task over the other rows of the tasks table: with no
\* other row the status is "unknown" and does not block.
DependencyBlocked(ts, t) ==
    LET known == {u \in Tasks \ {t} : ts[u].state # "none"}
    IN  known # {} /\ \E d \in Deps[t] : ~(d \in known /\ ts[d].state = "done")

-----------------------------------------------------------------------------
(* run_task_intake: register the task and the worker, claim the task *)

\* The continuation of a run once register_task has returned.
AfterRegister(r) == IF loc[r].status = "queued" THEN "worker" ELSE "markBlocked"

\* register_task, the upsert: the state becomes s even under an active lease.
\* s is "blocked" when the contract is incomplete or a dependency unresolved.
RegisterTask(r, s) ==
    /\ pc[r] = "idle"
    /\ tasks' = [tasks EXCEPT ![TaskOf[r]].state = s]
    /\ loc' = [loc EXCEPT ![r].status = s]
    /\ pc' = [pc EXCEPT ![r] = "select"]
    /\ UNCHANGED <<leases, workers, touch, rel, op>>

\* _clear_reclaimable_task_claim_locked, three statements: the claimed lease is
\* read, its row is looked up, the claim is cleared if the row is not active.
SelectClaim(r) ==
    /\ pc[r] = "select"
    /\ LET seen == tasks[TaskOf[r]].lease IN
       /\ loc' = [loc EXCEPT ![r].seen = seen]
       /\ pc' = [pc EXCEPT ![r] = IF seen = NoRun THEN AfterRegister(r) ELSE "lookup"]
    /\ UNCHANGED <<leases, tasks, workers, touch, rel, op>>

LookupClaim(r) ==
    /\ pc[r] = "lookup"
    /\ pc' = [pc EXCEPT ![r] =
                IF loc[r].seen \in Active(leases) THEN AfterRegister(r) ELSE "clear"]
    /\ loc' = [loc EXCEPT ![r].seen = NoRun]
    /\ UNCHANGED <<leases, tasks, workers, touch, rel, op>>

ClearClaim(r) ==
    /\ pc[r] = "clear"
    /\ tasks' = [tasks EXCEPT ![TaskOf[r]].lease = NoRun]
    /\ pc' = [pc EXCEPT ![r] = AfterRegister(r)]
    /\ UNCHANGED <<leases, workers, loc, touch, rel, op>>

\* register_worker without a lease: the row forgets the lease of a sibling run.
RegisterWorker(r) ==
    /\ pc[r] = "worker"
    /\ workers' = [workers EXCEPT ![WorkerOf[r]] = [lease |-> NoRun, age |-> 0]]
    /\ pc' = [pc EXCEPT ![r] = "claim"]
    /\ UNCHANGED <<leases, tasks, loc, touch, rel, op>>

\* claim_task, refused: the connection closes without a commit, so the reaping
\* done in the same transaction is rolled back.
ClaimDependencyBlocked(r) ==
    /\ pc[r] = "claim"
    /\ DependencyBlocked(TasksReaped, TaskOf[r])
    /\ pc' = [pc EXCEPT ![r] = "markBlocked"]
    /\ UNCHANGED <<leases, tasks, workers, loc, touch, rel, op>>

ClaimLeaseExists(r) ==
    /\ pc[r] = "claim"
    /\ ~DependencyBlocked(TasksReaped, TaskOf[r])
    /\ Holders(LeasesReaped, TaskOf[r]) # {}
    /\ pc' = [pc EXCEPT ![r] = "exited"]
    /\ UNCHANGED <<leases, tasks, workers, loc, touch, rel, op>>

\* claim_task, granted: one transaction that reaps, inserts the lease and points
\* the run, task and worker rows at it.
ClaimTask(r) ==
    /\ pc[r] = "claim"
    /\ ~DependencyBlocked(TasksReaped, TaskOf[r])
    /\ Holders(LeasesReaped, TaskOf[r]) = {}
    /\ leases' = [LeasesReaped EXCEPT
                    ![r] = [status |-> "active", left |-> TTL, hb |-> 0]]
    /\ tasks' = [TasksReaped EXCEPT
                   ![TaskOf[r]] = [state |-> "claimed", lease |-> r]]
    /\ workers' = [WorkersReaped EXCEPT ![WorkerOf[r]] = [lease |-> r, age |-> 0]]
    /\ pc' = [pc EXCEPT ![r] = "claimed"]
    /\ UNCHANGED <<loc, touch, rel, op>>

\* mark_task_blocked(lease_id=None): COALESCE keeps the claimed lease of whoever
\* holds the task, the state is overwritten.  block_run then ends the run.
MarkTaskBlocked(r) ==
    /\ pc[r] = "markBlocked"
    /\ tasks' = [tasks EXCEPT ![TaskOf[r]].state = "blocked"]
    /\ pc' = [pc EXCEPT ![r] = "exited"]
    /\ UNCHANGED <<leases, workers, loc, touch, rel, op>>

\* An exit between the claim and the assignment of ctx.status (sync configured
\* but its MCP disabled, or an exception): ctx.lease_id is still None, so the
\* finally of _run_once_internal releases nothing.
ExitBeforeStatus(r) ==
    /\ pc[r] = "claimed"
    /\ pc' = [pc EXCEPT ![r] = "exited"]
    /\ UNCHANGED <<leases, tasks, workers, loc, touch, rel, op>>

-----------------------------------------------------------------------------
(* heartbeat_lease: two statements that matter here *)

\* _touch_coordination begins, in the main thread or in the heartbeat loop of a
\* phase.  now_ms is read here and the writes land later.  The loop is joined
\* with a timeout, so the main thread may go on while its call is in flight;
\* two calls of one run at once are left out.
BeginTouch(r) ==
    /\ pc[r] \in Owning
    /\ touch[r].at = "off"
    /\ touch' = [touch EXCEPT ![r] = [at |-> "lease", lag |-> 0]]
    /\ UNCHANGED <<leases, tasks, workers, pc, loc, rel, op>>

\* UPDATE leases ... WHERE lease_id = ? AND status = 'active'.  There is no test
\* of the expiry: a lease that has expired and was not reaped yet lives on.
HeartbeatLease(r) ==
    /\ touch[r].at = "lease"
    /\ IF r \in Active(leases)
       THEN /\ leases' = [leases EXCEPT ![r].left = Minus(TTL, touch[r].lag),
                                        ![r].hb = Least(touch[r].lag, StaleAfter)]
            /\ touch' = [touch EXCEPT ![r].at = "worker"]
       ELSE /\ touch' = [touch EXCEPT ![r] = NoTouch]
            /\ UNCHANGED leases
    /\ UNCHANGED <<tasks, workers, pc, loc, rel, op>>

\* Mutant: last_seen_at_ms is left alone.
HeartbeatWorkerUnseen(r) ==
    /\ touch[r].at = "worker"
    /\ workers' = [workers EXCEPT ![WorkerOf[r]].lease = r]
    /\ touch' = [touch EXCEPT ![r] = NoTouch]
    /\ UNCHANGED <<leases, tasks, pc, loc, rel, op>>

\* UPDATE workers SET last_seen_at_ms, current_lease_id WHERE worker_id = ?
HeartbeatWorkerRow(r) ==
    /\ touch[r].at = "worker"
    /\ workers' = [workers EXCEPT ![WorkerOf[r]] =
                     [lease |-> r, age |-> Least(touch[r].lag, StaleAfter)]]
    /\ touch' = [touch EXCEPT ![r] = NoTouch]
    /\ UNCHANGED <<leases, tasks, pc, loc, rel, op>>

-----------------------------------------------------------------------------
(* The phases of a run, from its status dict to its exit *)

\* ctx.status is built and names the lease.
StartRun(r) ==
    /\ pc[r] = "claimed"
    /\ pc' = [pc EXCEPT ![r] = "started"]
    /\ UNCHANGED <<leases, tasks, workers, loc, touch, rel, op>>

\* transition_task_state with the run's own ids: no test that the lease of the
\* run is still the one that holds the task.
MarkTask(r, state) ==
    tasks' = [tasks EXCEPT ![TaskOf[r]] = [state |-> state, lease |-> r]]

MarkTaskActive(r) ==
    /\ pc[r] = "started"
    /\ MarkTask(r, "active")
    /\ pc' = [pc EXCEPT ![r] = "working"]
    /\ UNCHANGED <<leases, workers, loc, touch, rel, op>>

MarkTaskReview(r) ==
    /\ pc[r] = "working"
    /\ MarkTask(r, "review")
    /\ pc' = [pc EXCEPT ![r] = "review"]
    /\ UNCHANGED <<leases, workers, loc, touch, rel, op>>

\* Another iteration of the repair loop.
RetryRepair(r) ==
    /\ pc[r] = "review"
    /\ pc' = [pc EXCEPT ![r] = "working"]
    /\ UNCHANGED <<leases, tasks, workers, loc, touch, rel, op>>

\* mark_task_done, after the review or, when the repository already has what the
\* plan asks for, straight from the planning of an attempt.  A terminal failure of
\* the remote sync afterwards ends the run with block_run, and
\* _final_lease_release_decision follows the run status.
MarkTaskDone(r, final) ==
    /\ pc[r] \in {"working", "review"}
    /\ MarkTask(r, "done")
    /\ loc' = [loc EXCEPT ![r].final = final]
    /\ pc' = [pc EXCEPT ![r] = "finishing"]
    /\ UNCHANGED <<leases, workers, touch, rel, op>>

\* Any other exit of the phases: a blocker, the loss of the coordination or an
\* exception the wrapper caught.
FailRun(r) ==
    /\ pc[r] \in {"started", "working", "review"}
    /\ loc' = [loc EXCEPT ![r].final = "blocked"]
    /\ pc' = [pc EXCEPT ![r] = "finishing"]
    /\ UNCHANGED <<leases, tasks, workers, touch, rel, op>>

-----------------------------------------------------------------------------
(* release_lease: three statements *)

\* Mutant: the update is not guarded by status = 'active'.
ReleaseRowAlways(r, status, by) ==
    /\ leases' = [leases EXCEPT ![r] = Ended(status)]
    /\ rel' = [rel EXCEPT ![r] = [at |-> "task", status |-> status, by |-> by]]

\* The guarded update of the lease row; a second release stops here.
ReleaseRow(r, status, by) ==
    IF r \in Active(leases)
    THEN /\ leases' = [leases EXCEPT ![r] = Ended(status)]
         /\ rel' = [rel EXCEPT ![r] = [at |-> "task", status |-> status, by |-> by]]
    ELSE UNCHANGED <<leases, rel>>

\* The finally of _run_once_internal.
ReleaseLease(r) ==
    /\ pc[r] = "finishing"
    /\ ReleaseRow(r, loc[r].final, "run")
    /\ pc' = [pc EXCEPT ![r] = "exited"]
    /\ UNCHANGED <<tasks, workers, loc, touch, op>>

\* `aca lease release`, whose default status is "stale".
CliReleaseLease(r) ==
    /\ r \in CliReleased \cap Active(leases)
    /\ ReleaseRow(r, "stale", "cli")
    /\ UNCHANGED <<tasks, workers, pc, loc, touch, op>>

\* _task_state_from_lease_status
TaskStateFromLeaseStatus(status) ==
    IF status = "completed" THEN "done" ELSE status

\* The task row follows the lease even when another lease claims it by now.
ReleaseTask(r) ==
    /\ rel[r].at = "task"
    /\ tasks' = ClearTaskClaims(tasks, {r}, TaskStateFromLeaseStatus(rel[r].status))
    /\ rel' = [rel EXCEPT ![r].at = "worker"]
    /\ UNCHANGED <<leases, workers, pc, loc, touch, op>>

ReleaseWorker(r) ==
    /\ rel[r].at = "worker"
    /\ workers' = IdleWorkers(workers, {WorkerOf[r]})
    /\ rel' = [rel EXCEPT ![r] = NoRel]
    /\ UNCHANGED <<leases, tasks, pc, loc, touch, op>>

-----------------------------------------------------------------------------
(* The reaper, the operator, crashes and time *)

\* coordination_reaper_tick is these two transactions, one after the other, in a
\* loop; the API server, every CLI run and `aca lease reap` run it.
ReapExpiredLeases ==
    /\ Expired(leases) # {}
    /\ leases' = LeasesAfterExpiry
    /\ tasks' = TasksAfterExpiry
    /\ workers' = WorkersAfterExpiry
    /\ UNCHANGED <<pc, loc, touch, rel, op>>

ReapStaleWorkers ==
    /\ IdledRows(leases, workers) # {}
    /\ leases' = SetStale(leases, SilentLeases(leases, workers))
    /\ tasks' = ClearTaskClaims(tasks, SilentLeases(leases, workers), "stale")
    /\ workers' = IdleWorkers(workers, IdledRows(leases, workers))
    /\ UNCHANGED <<pc, loc, touch, rel, op>>

\* The operator's task-state endpoint: register_task (its clearing of a dead
\* claim in one step), then transition_task_state, which clears the claim unless
\* the new state is "active".
OperatorRegister(t, s) ==
    /\ op.at = "off"
    /\ tasks' = [tasks EXCEPT ![t].state = s]
    /\ op' = [at |-> "reclaim", task |-> t, state |-> s]
    /\ UNCHANGED <<leases, workers, pc, loc, touch, rel>>

OperatorReclaim ==
    /\ op.at = "reclaim"
    /\ tasks' = IF tasks[op.task].lease \in Active(leases) THEN tasks
                ELSE [tasks EXCEPT ![op.task].lease = NoRun]
    /\ op' = [op EXCEPT !.at = "state"]
    /\ UNCHANGED <<leases, workers, pc, loc, touch, rel>>

OperatorState ==
    /\ op.at = "state"
    /\ tasks' = [tasks EXCEPT ![op.task].state = op.state]
    /\ op' = IF op.state = "active" THEN NoOp(op.task) ELSE [op EXCEPT !.at = "leases"]
    /\ UNCHANGED <<leases, workers, pc, loc, touch, rel>>

OperatorLeases ==
    /\ op.at = "leases"
    /\ LET cleared == Holders(leases, op.task) IN
       /\ leases' = SetStale(leases, cleared)
       /\ workers' = IdleWorkers(workers, {w \in Owners(cleared) : workers[w].lease \in cleared})
    /\ op' = [op EXCEPT !.at = "unclaim"]
    /\ UNCHANGED <<tasks, pc, loc, touch, rel>>

OperatorUnclaim ==
    /\ op.at = "unclaim"
    /\ tasks' = [tasks EXCEPT ![op.task].lease = NoRun]
    /\ op' = NoOp(op.task)
    /\ UNCHANGED <<leases, workers, pc, loc, touch, rel>>

\* A process dies between two statements, with every call in flight in it.
Crash(w) ==
    LET started == {r \in Runs : WorkerOf[r] = w /\ pc[r] # "idle"} IN
    /\ \E r \in started : pc[r] \in Live \/ (rel[r].at # "off" /\ rel[r].by = "run")
    /\ pc' = [r \in Runs |-> IF r \in started /\ pc[r] \in Live THEN "crashed" ELSE pc[r]]
    /\ touch' = [r \in Runs |-> IF r \in started THEN NoTouch ELSE touch[r]]
    /\ rel' = [r \in Runs |-> IF r \in started /\ rel[r].by = "run" THEN NoRel ELSE rel[r]]
    /\ UNCHANGED <<leases, tasks, workers, loc, op>>

\* Time passes for everyone.
Tick ==
    /\ leases' = [r \in Runs |->
                    IF r \in Active(leases)
                    THEN [leases[r] EXCEPT !.left = Minus(@, 1), !.hb = Least(@ + 1, StaleAfter)]
                    ELSE leases[r]]
    /\ workers' = [w \in Workers |->
                    IF workers[w].lease = NoRun THEN workers[w]
                    ELSE [workers[w] EXCEPT !.age = Least(@ + 1, StaleAfter)]]
    /\ touch' = [r \in Runs |->
                    IF touch[r].at # "off"
                    THEN [touch[r] EXCEPT !.lag = Least(@ + 1, MaxLag)]
                    ELSE touch[r]]
    /\ UNCHANGED <<tasks, pc, loc, rel, op>>

-----------------------------------------------------------------------------
(* The specification *)

Intake(r) ==
    \/ \E s \in {"queued", "blocked"} : RegisterTask(r, s)
    \/ SelectClaim(r)
    \/ LookupClaim(r)
    \/ ClearClaim(r)
    \/ RegisterWorker(r)
    \/ ClaimDependencyBlocked(r)
    \/ ClaimLeaseExists(r)
    \/ ClaimTask(r)
    \/ MarkTaskBlocked(r)
    \/ ExitBeforeStatus(r)

Phases(r) ==
    \/ StartRun(r)
    \/ MarkTaskActive(r)
    \/ MarkTaskReview(r)
    \/ RetryRepair(r)
    \/ \E final \in {"completed", "blocked"} : MarkTaskDone(r, final)
    \/ FailRun(r)
    \/ ReleaseLease(r)

Heartbeat(r) ==
    \/ BeginTouch(r)
    \/ HeartbeatLease(r)
    \/ HeartbeatWorkerRow(r)

Release(r) ==
    \/ CliReleaseLease(r)
    \/ ReleaseTask(r)
    \/ ReleaseWorker(r)

Operator ==
    \/ \E t \in Tasks, s \in OperatorStates : OperatorRegister(t, s)
    \/ OperatorReclaim
    \/ OperatorState
    \/ OperatorLeases
    \/ OperatorUnclaim

Next ==
    \/ \E r \in Runs : Intake(r) \/ Phases(r) \/ Heartbeat(r) \/ Release(r)
    \/ ReapExpiredLeases
    \/ ReapStaleWorkers
    \/ Operator
    \/ \E w \in Fallible : Crash(w)
    \/ Tick

Spec == Init /\ [][Next]_vars

\* Time passes, the reaper loop keeps running, and a heartbeat call that was
\* begun comes to its end unless its process dies.  A run itself may take as
\* long as it likes.
Fairness ==
    /\ WF_vars(Tick)
    /\ WF_vars(ReapExpiredLeases)
    /\ \A r \in Runs : WF_vars(HeartbeatLease(r) \/ HeartbeatWorkerRow(r))

FairSpec == Spec /\ Fairness

-----------------------------------------------------------------------------
(* Properties *)

\* At most one lease of a task is active, although only claim_task looks: the
\* check-then-insert of claim_task, with its own reaping and against heartbeats,
\* releases and reapers in between, never needs the unique index of the schema.
OneActiveLease ==
    \A r, q \in Active(leases) : TaskOf[r] = TaskOf[q] => r = q

\* A lease that was reaped or released keeps that status for good: no late
\* heartbeat revives it and no second release rewrites the outcome.
LeaseStatusIsFinal ==
    [][\A r \in Runs : leases[r].status \in ReleaseStatuses
                          => leases'[r].status = leases[r].status]_vars

\* The reapers, and claim_task when it reaps, take a lease away from a run whose
\* heartbeat is fresh only while that heartbeat has not reached the worker row:
\* the dead-host rule never hits a run that is beating.
FreshLeaseKept ==
    [][\A r \in Active(leases) :
          /\ leases'[r].status = "stale"
          /\ leases[r].left > 0
          /\ leases[r].hb < StaleAfter
          /\ op' = op /\ rel' = rel
          => \/ pc[r] \in {"exited", "crashed"}
             \/ touch[r].at = "worker"]_vars

Contract == INSTANCE LeaseContract WITH status <- [r \in Runs |-> leases[r].status]

\* The ledger keeps the promise of a lock service, LeaseContract: claim_task,
\* release_lease and the reapers grant a lease once and end it once.
KeepsContract == Contract!Spec

\* The lease of a run that is gone, by whatever exit or crash, does not hold its
\* task for ever.
AbandonedLeaseEnds ==
    \A r \in Runs :
        (pc[r] \in {"exited", "crashed"} /\ r \in Active(leases))
            ~> r \notin Active(leases)

\* A dependent task is granted only while the tasks it depends on are done in the
\* ledger the claim itself leaves behind: a dependency whose lease ran out, and
\* that the claim's own reaping turns stale, does not count.  The exception is
\* the code's: with no other task in the ledger nothing is known to be missing.
ClaimAfterDependencies ==
    [][\A r \in Runs :
          /\ leases[r].status = "none"
          /\ leases'[r].status = "active"
          => \/ \A d \in Deps[TaskOf[r]] : tasks'[d].state = "done"
             \/ \A u \in Tasks \ {TaskOf[r]} : tasks[u].state = "none"]_vars

=============================================================================
