------------------------------ MODULE Scheduler ------------------------------
(* The scheduler (core/scheduling/scheduler.py) and the dispatcher that      *)
(* launches what it admits (scheduler_dispatcher.py), over the task ledger.  *)
(* A dispatch reads the ledger three times, plans locally, starts a thread   *)
(* for each admitted task and may return before any of them has claimed its  *)
(* task.  Nothing serialises two dispatches.  A lease is reduced to its      *)
(* holder: its life is module Coordination's subject.                        *)
EXTENDS Integers, FiniteSets, Sequences

CONSTANTS
  Tasks,
  Dispatches,      \* dispatch calls under way together, with the runs they start
  NoOne,
  ProjectOf,       \* number of the task's project key in sorted order
  RepoOf,          \* task_repo_key
  ScopesOf,        \* task_file_scopes: a set of paths; none means the whole repo
  DepsOf,          \* declared dependencies
  Filter,          \* project_keys: the projects the dispatch is for
  Withheld,        \* tasks triage does not accept (triage.enforce)
  Linear,          \* tasks whose source is Linear
  Recurring,       \* tasks an operator queues again whenever they stop
  MaxActive, MaxWorkers, MaxPerProject, MaxPerRepo,
  Limit, FetchLimit,
  MaxCoders        \* bound on coder runs of a task (model only)

ASSUME SchedulerAssumption ==
  /\ IsFiniteSet(Tasks) /\ IsFiniteSet(Dispatches)
  /\ NoOne \notin Dispatches
  /\ ProjectOf \in [Tasks -> Nat \ {0}]
  /\ ScopesOf \in [Tasks -> SUBSET (Seq(STRING) \ {<< >>})]
  /\ DepsOf \in [Tasks -> SUBSET Tasks]
  /\ MaxActive \in Nat \ {0} /\ MaxWorkers \in Nat
  /\ MaxPerProject \in Nat \ {0} /\ MaxPerRepo \in Nat \ {0}
  /\ Limit \in Nat \ {0} /\ FetchLimit \in Nat \ {0} /\ MaxCoders \in Nat

VARIABLES
  state,    \* tasks.state; claimed, active and review are all "active"
  lease,    \* whose run holds the task's active lease
  coders,   \* run directories in coder_execution that are not terminal, per task
  at,       \* where each dispatch is
  queue,    \* its tasks not yet considered (grouped)
  seen,     \* active_for_capacity
  slots,    \* max_total
  turn,     \* project it considered last
  adm,      \* the tasks it admitted
  run       \* how far the run it started for a task has come

vars   == <<state, lease, coders, at, queue, seen, slots, turn, adm, run>>
ledger == <<state, lease, coders>>
plan   == <<at, queue, seen, slots, turn, adm>>

States == {"none", "queued", "active", "blocked", "stale", "done"}
Stages == {"none", "starting", "registered", "working", "coder"}

(* The kinds and ranges of the variables.                                    *)
TypeOK ==
  /\ state \in [Tasks -> States]
  /\ lease \in [Tasks -> Dispatches \union {NoOne}]
  /\ coders \in [Tasks -> Nat]
  /\ at \in [Dispatches -> {"idle", "active", "coders", "plan", "runs"}]
  /\ queue \in [Dispatches -> SUBSET Tasks]
  /\ seen \in [Dispatches -> SUBSET Tasks]
  /\ slots \in [Dispatches -> Nat]
  /\ turn \in [Dispatches -> Nat]
  /\ adm \in [Dispatches -> SUBSET Tasks]
  /\ run \in [Dispatches -> [Tasks -> Stages]]

Init ==
  /\ state = [t \in Tasks |-> "none"]
  /\ lease = [t \in Tasks |-> NoOne]
  /\ coders = [t \in Tasks |-> 0]
  /\ at = [d \in Dispatches |-> "idle"]
  /\ queue = [d \in Dispatches |-> {}]
  /\ seen = [d \in Dispatches |-> {}]
  /\ slots = [d \in Dispatches |-> 0]
  /\ turn = [d \in Dispatches |-> 0]
  /\ adm = [d \in Dispatches |-> {}]
  /\ run = [d \in Dispatches |-> [t \in Tasks |-> "none"]]

Lesser(a, b)  == IF a <= b THEN a ELSE b
Greater(a, b) == IF a <= b THEN b ELSE a

(* max(0, a - b), for the slots that remain.                                 *)
Less(a, b) == IF a <= b THEN 0 ELSE a - b

-----------------------------------------------------------------------------
(* list_tasks: LIMIT keeps the rows updated last; which those are is open.   *)
Kept(S, n) == {T \in SUBSET S : Cardinality(T) = Lesser(n, Cardinality(S))}

InState(S) == {t \in Tasks : state[t] \in S}

(* dependency_status_for_task among the other rows of a list: a dependency   *)
(* that is not one of them, or is not done, blocks; with no other row the    *)
(* status is unknown, which does not block.                                  *)
DependencyBlocked(t, rows) ==
  /\ rows \ {t} # {}
  /\ \E p \in DepsOf[t] : p \notin rows \ {t} \/ state[p] # "done"

(* plan_task_admissions, first read: the queued tasks, their dependency      *)
(* status worked out among the queued tasks alone.                           *)
ListQueued(d) ==
  /\ at[d] = "idle"
  /\ \E rows \in Kept(InState({"queued"}), FetchLimit) :
       \E wanted \in Kept({t \in rows : ProjectOf[t] \in Filter}, Limit) :
         queue' = [queue EXCEPT ![d] = {t \in wanted : ~DependencyBlocked(t, rows)}]
  /\ at' = [at EXCEPT ![d] = "active"]
  /\ UNCHANGED <<ledger, seen, slots, turn, adm, run>>

(* Mutant: a blocked task keeps its place.                                   *)
CountedBlocked(rows) == {t \in rows : state[t] \in {"active", "blocked"}}

(* _active_state: the rows that count against capacity.                      *)
Counted(rows) == {t \in rows : state[t] = "active"}

(* Second read, of every project.                                            *)
ListActive(d) ==
  /\ at[d] = "active"
  /\ \E rows \in Kept(Tasks \ InState({"none"}), FetchLimit) :
       seen' = [seen EXCEPT ![d] = Counted(rows)]
  /\ at' = [at EXCEPT ![d] = "coders"]
  /\ UNCHANGED <<ledger, queue, slots, turn, adm, run>>

(* list_active_coder_task_refs.                                              *)
CoderRefs  == {c \in Tasks \X (1..MaxCoders) : c[2] <= coders[c[1]]}
CoderTasks == {t \in Tasks : coders[t] > 0}

(* remaining_active_slots, remaining_worker_slots; 0 switches the second off.*)
RemainingSlots(active, coding) ==
  LET forActive == Less(MaxActive, active) IN
  IF MaxWorkers = 0 THEN forActive
  ELSE Lesser(forActive, Less(MaxWorkers, Greater(active, coding)))

(* Mutant: a task with a coder run under way is queued like any other.       *)
AdmissibleCoders(blockLinear) ==
  {t \in Tasks : t \notin Withheld /\ ~(blockLinear /\ t \in Linear)}

(* The gates before capacity: triage, the Linear connection, a coder run.    *)
Admissible(blockLinear) ==
  {t \in Tasks : t \notin Withheld /\ ~(blockLinear /\ t \in Linear)} \ CoderTasks

(* Third read: the run directories in coder_execution; then the gates.       *)
ListCoders(d) ==
  /\ at[d] = "coders"
  /\ \E blockLinear \in BOOLEAN :
       queue' = [queue EXCEPT ![d] = @ \intersect Admissible(blockLinear)]
  /\ slots' = [slots EXCEPT ![d] = RemainingSlots(Cardinality(seen[d]), Cardinality(CoderRefs))]
  /\ turn' = [turn EXCEPT ![d] = 0]
  /\ at' = [at EXCEPT ![d] = "plan"]
  /\ UNCHANGED <<ledger, seen, adm, run>>

-----------------------------------------------------------------------------
(* _paths_overlap: one path is the other's parent, or they are the same.     *)
PathsOverlap(left, right) ==
  /\ left # << >> /\ right # << >>
  /\ LET shared == Lesser(Len(left), Len(right)) IN
       SubSeq(left, 1, shared) = SubSeq(right, 1, shared)

(* active_repo_locked and active_scopes_by_repo: a task without scopes takes *)
(* its whole repository.                                                     *)
Conflict(t, u) ==
  /\ RepoOf[t] = RepoOf[u]
  /\ \/ ScopesOf[t] = {}
     \/ ScopesOf[u] = {}
     \/ \E left \in ScopesOf[t], right \in ScopesOf[u] : PathsOverlap(left, right)

InUse(d) == seen[d] \union adm[d]
OfProject(S, t) == {u \in S : ProjectOf[u] = ProjectOf[t]}
OfRepo(S, t)    == {u \in S : RepoOf[u] = RepoOf[t]}

(* Mutant: the per-project and per-repo limits are off by one.               *)
FitsOneMore(d, t) ==
  /\ Cardinality(OfProject(InUse(d), t)) <= MaxPerProject
  /\ Cardinality(OfRepo(InUse(d), t)) <= MaxPerRepo
  /\ \A u \in InUse(d) : ~Conflict(t, u)

(* Mutant: the tasks admitted in this plan are not looked at for overlap.    *)
FitsSeen(d, t) ==
  /\ Cardinality(OfProject(InUse(d), t)) < MaxPerProject
  /\ Cardinality(OfRepo(InUse(d), t)) < MaxPerRepo
  /\ \A u \in seen[d] : ~Conflict(t, u)

(* The checks the candidate goes through in the loop.                        *)
Fits(d, t) ==
  /\ Cardinality(OfProject(InUse(d), t)) < MaxPerProject
  /\ Cardinality(OfRepo(InUse(d), t)) < MaxPerRepo
  /\ \A u \in InUse(d) : ~Conflict(t, u)

(* How far the task's project is from the one considered last, going round   *)
(* ordered_projects, which begins anew in every plan.                        *)
Distance(d, t) ==
  IF ProjectOf[t] > turn[d] THEN <<0, ProjectOf[t]>> ELSE <<1, ProjectOf[t]>>

Nearer(a, b) == a[1] < b[1] \/ (a[1] = b[1] /\ a[2] <= b[2])

(* Mutant: one admission more than there are slots.                          *)
CandidateOneMore(d, t) ==
  /\ at[d] = "plan"
  /\ Cardinality(adm[d]) <= slots[d]
  /\ t \in queue[d]

(* queue[0] of the next project.  Its order, last update first, is left open.*)
Candidate(d, t) ==
  /\ at[d] = "plan"
  /\ Cardinality(adm[d]) < slots[d]
  /\ t \in queue[d]
  /\ \A u \in queue[d] : Nearer(Distance(d, t), Distance(d, u))

Consider(d, t) ==
  /\ Candidate(d, t)
  /\ adm' = [adm EXCEPT ![d] = IF Fits(d, t) THEN @ \union {t} ELSE @]
  /\ queue' = [queue EXCEPT ![d] = @ \ {t}]
  /\ turn' = [turn EXCEPT ![d] = ProjectOf[t]]
  /\ UNCHANGED <<ledger, at, seen, slots, run>>

(* dispatch_scheduled_runs: a thread for every admitted task.                *)
Launch(d) ==
  /\ at[d] = "plan"
  /\ queue[d] = {} \/ Cardinality(adm[d]) >= slots[d]
  /\ run' = [run EXCEPT ![d] = [t \in Tasks |-> IF t \in adm[d] THEN "starting" ELSE "none"]]
  /\ at' = [at EXCEPT ![d] = "runs"]
  /\ UNCHANGED <<ledger, queue, seen, slots, turn, adm>>

(* Its runs have ended.                                                      *)
EndDispatch(d) ==
  /\ at[d] = "runs"
  /\ \A t \in Tasks : run[d][t] = "none"
  /\ at' = [at EXCEPT ![d] = "idle"]
  /\ queue' = [queue EXCEPT ![d] = {}]
  /\ seen' = [seen EXCEPT ![d] = {}]
  /\ slots' = [slots EXCEPT ![d] = 0]
  /\ turn' = [turn EXCEPT ![d] = 0]
  /\ adm' = [adm EXCEPT ![d] = {}]
  /\ UNCHANGED <<ledger, run>>

-----------------------------------------------------------------------------
(* The run of an admitted task, down to what the scheduler can see of it.    *)
Stage(d, t, s) == run' = [run EXCEPT ![d][t] = s]

(* resolve_config, validate_config or the intake raises.                     *)
StartFails(d, t) ==
  /\ run[d][t] = "starting"
  /\ Stage(d, t, "none")
  /\ UNCHANGED <<ledger, plan>>

(* register_task: queued, whatever the state was; or blocked, when the       *)
(* contract is incomplete, and the run ends there.                           *)
RegisterTask(d, t, s) ==
  /\ run[d][t] = "starting"
  /\ state' = [state EXCEPT ![t] = s]
  /\ Stage(d, t, IF s = "queued" THEN "registered" ELSE "none")
  /\ UNCHANGED <<lease, coders, plan>>

(* claim_task; here the dependencies are looked up among all the tasks.      *)
ClaimDependencyBlocked(d, t) ==
  /\ run[d][t] = "registered"
  /\ DependencyBlocked(t, Tasks \ InState({"none"}))
  /\ state' = [state EXCEPT ![t] = "blocked"]
  /\ Stage(d, t, "none")
  /\ UNCHANGED <<lease, coders, plan>>

ClaimLeaseExists(d, t) ==
  /\ run[d][t] = "registered"
  /\ ~DependencyBlocked(t, Tasks \ InState({"none"}))
  /\ lease[t] # NoOne
  /\ Stage(d, t, "none")
  /\ UNCHANGED <<ledger, plan>>

ClaimTask(d, t) ==
  /\ run[d][t] = "registered"
  /\ ~DependencyBlocked(t, Tasks \ InState({"none"}))
  /\ lease[t] = NoOne
  /\ lease' = [lease EXCEPT ![t] = d]
  /\ state' = [state EXCEPT ![t] = "active"]
  /\ Stage(d, t, "working")
  /\ UNCHANGED <<coders, plan>>

(* mark_task_active, mark_task_review: a registration by another run is made *)
(* good.                                                                     *)
MarkTask(d, t) ==
  /\ run[d][t] \in {"working", "coder"}
  /\ state' = [state EXCEPT ![t] = "active"]
  /\ UNCHANGED <<lease, coders, plan, run>>

(* The coder backend: the run directory is in coder_execution from here on.  *)
EnterCoder(d, t) ==
  /\ run[d][t] = "working"
  /\ coders[t] < MaxCoders
  /\ coders' = [coders EXCEPT ![t] = @ + 1]
  /\ Stage(d, t, "coder")
  /\ UNCHANGED <<state, lease, plan>>

(* The run ends and releases its lease.                                      *)
Finish(d, t, s) ==
  /\ run[d][t] \in {"working", "coder"}
  /\ state' = [state EXCEPT ![t] = s]
  /\ lease' = [lease EXCEPT ![t] = NoOne]
  /\ coders' = [coders EXCEPT ![t] = IF run[d][t] = "coder" THEN @ - 1 ELSE @]
  /\ Stage(d, t, "none")
  /\ UNCHANGED plan

(* The run's process dies and its lease is reaped; a coder run of it goes on.*)
Lapse(d, t) ==
  /\ run[d][t] \in {"working", "coder"}
  /\ state' = [state EXCEPT ![t] = "stale"]
  /\ lease' = [lease EXCEPT ![t] = NoOne]
  /\ Stage(d, t, "none")
  /\ UNCHANGED <<coders, plan>>

(* reconcile_active_coder_runs brings a coder run nobody waits for to a      *)
(* terminal status.                                                          *)
Orphaned(t) == coders[t] > Cardinality({d \in Dispatches : run[d][t] = "coder"})

ReconcileCoderRun(t, s) ==
  /\ Orphaned(t)
  /\ coders' = [coders EXCEPT ![t] = @ - 1]
  /\ state' = [state EXCEPT ![t] = s]
  /\ UNCHANGED <<lease, plan, run>>

(* A task source or an operator queues a task.                               *)
Requeue(t) ==
  /\ state[t] = "none" \/ (t \in Recurring /\ state[t] \in {"blocked", "stale"})
  /\ state' = [state EXCEPT ![t] = "queued"]
  /\ UNCHANGED <<lease, coders, plan, run>>

-----------------------------------------------------------------------------
Planning(d) ==
  \/ ListQueued(d) \/ ListActive(d) \/ ListCoders(d)
  \/ \E t \in Tasks : Consider(d, t)
  \/ Launch(d) \/ EndDispatch(d)

Claiming(d, t) == ClaimDependencyBlocked(d, t) \/ ClaimLeaseExists(d, t) \/ ClaimTask(d, t)
Ending(d, t)   == Finish(d, t, "done") \/ Finish(d, t, "blocked") \/ Lapse(d, t)

Running(d, t) ==
  \/ StartFails(d, t)
  \/ RegisterTask(d, t, "queued")
  \/ RegisterTask(d, t, "blocked")
  \/ Claiming(d, t)
  \/ MarkTask(d, t)
  \/ EnterCoder(d, t)
  \/ Ending(d, t)

Reconcile(t) == ReconcileCoderRun(t, "done") \/ ReconcileCoderRun(t, "blocked")

Next ==
  \/ \E d \in Dispatches : Planning(d)
  \/ \E d \in Dispatches, t \in Tasks : Running(d, t)
  \/ \E t \in Tasks : Reconcile(t) \/ Requeue(t)

Spec == Init /\ [][Next]_vars

(* Somebody keeps calling the dispatcher; a run does not fail to start for   *)
(* ever, and ends; the supervisor reconciles orphaned coder runs.            *)
Fairness ==
  /\ \A d \in Dispatches : WF_vars(Planning(d))
  /\ \A d \in Dispatches, t \in Tasks :
       /\ SF_vars(RegisterTask(d, t, "queued") \/ RegisterTask(d, t, "blocked"))
       /\ WF_vars(Claiming(d, t))
       /\ WF_vars(Ending(d, t))
  /\ \A t \in Tasks : WF_vars(Reconcile(t))

FairSpec == Spec /\ Fairness

-----------------------------------------------------------------------------
(* A plan together with what it saw active stays within every limit of       *)
(* plan_task_admissions: in total, for worker runs, per project and per repo.*)
PlanWithinLimits ==
  \A d \in Dispatches : \A t \in adm[d] :
    /\ Cardinality(InUse(d)) <= MaxActive
    /\ MaxWorkers > 0 => Cardinality(InUse(d)) <= MaxWorkers
    /\ Cardinality(OfProject(InUse(d), t)) <= MaxPerProject
    /\ Cardinality(OfRepo(InUse(d), t)) <= MaxPerRepo

(* No task of a plan touches a repository or a path that another of the plan *)
(* or one it saw active touches; a task that became active between the two   *)
(* reads of the ledger is not admitted again.                                *)
PlanDisjoint ==
  \A d \in Dispatches : \A t \in adm[d] :
    /\ t \notin seen[d]
    /\ \A u \in InUse(d) \ {t} : ~Conflict(t, u)

Held == {t \in Tasks : lease[t] # NoOne}

(* With one dispatch at a time that waits for its runs, no two leases held   *)
(* together are on overlapping paths (file_overlap_reached and               *)
(* repo_overlap_reached do what they are for).                               *)
HeldDisjoint == \A t, u \in Held : t # u => ~Conflict(t, u)

(* docs/CONFIG_SCHEMA.md:178, "maximum total admitted tasks across the       *)
(* workspace": no more leases are held together than max_active_tasks.  It   *)
(* holds for one dispatch at a time that waits; two dispatches, or one after *)
(* another without waiting, break it.                                        *)
HeldWithinLimits == Cardinality(Held) <= MaxActive

(* With one dispatch at a time, a task has at most one coder run that is not *)
(* terminal, though its first run may have died and its lease been reaped    *)
(* (coder_run_active).                                                       *)
OneCoderRun == \A t \in Tasks : coders[t] <= 1

(* docs/CONFIG_SCHEMA.md:185, "fair_round_robin admits tasks across projects *)
(* in a conservative round-robin order": a task that is queued leaves the    *)
(* queue.  It holds while the projects that sort first run dry.              *)
QueuedLeaves == \A t \in Tasks : state[t] = "queued" ~> state[t] # "queued"
=============================================================================
