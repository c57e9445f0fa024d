------------------------- MODULE CoordinationProofs -------------------------
(***************************************************************************)
(* For every set of tasks, runs, processes and hosts, and for every TTL:   *)
(* the ledger is well typed, no task ever has two active leases, a lease   *)
(* that ended keeps its outcome, the ledger implements LeaseContract, and  *)
(* the reapers end no lease whose run beats in time.                       *)
(*                                                                         *)
(* The inductive invariant adds to the types and to OneActiveLease that a  *)
(* run which has not yet come out of claim_task has no lease row, so that  *)
(* the insert of claim_task never meets a row.                             *)
(***************************************************************************)
EXTENDS Coordination, TLAPS

Unclaimed == {"idle", "select", "lookup", "clear", "worker", "claim"}

UnclaimedHasNoLease ==
    \A r \in Runs : pc[r] \in Unclaimed => leases[r].status = "none"

IInv == TypeOK /\ OneActiveLease /\ UnclaimedHasNoLease

-----------------------------------------------------------------------------
(* The operators on the tables *)

\* Reaping keeps the leases table well typed.
LEMMA SetStaleType ==
    ASSUME NEW ls \in LeaseTable, NEW S
    PROVE  SetStale(ls, S) \in LeaseTable
<1>1. Ended("stale") \in [status: LeaseStatuses, left: 0..TTL, hb: 0..StaleAfter]
  BY TimeAssumption DEF Ended, LeaseStatuses, ReleaseStatuses
<1> QED
  BY <1>1 DEF SetStale, LeaseTable

\* Clearing claims keeps the tasks table well typed.
LEMMA ClearTaskClaimsType ==
    ASSUME NEW ts \in TaskTable, NEW S, NEW state \in TaskStates
    PROVE  ClearTaskClaims(ts, S, state) \in TaskTable
<1>1. NoRun \in NullRun
  BY DEF NullRun
<1>2. ASSUME NEW t \in Tasks
      PROVE  /\ [state |-> state, lease |-> NoRun] \in [state: TaskStates \cup {"none"}, lease: NullRun]
             /\ [ts[t] EXCEPT !.state = state] \in [state: TaskStates \cup {"none"}, lease: NullRun]
             /\ ts[t] \in [state: TaskStates \cup {"none"}, lease: NullRun]
  BY <1>1 DEF TaskTable
<1> QED
  BY <1>2 DEF ClearTaskClaims, TaskTable

\* Idling workers keeps the workers table well typed.
LEMMA IdleWorkersType ==
    ASSUME NEW ws \in WorkerTable, NEW W
    PROVE  IdleWorkers(ws, W) \in WorkerTable
<1>1. [lease |-> NoRun, age |-> 0] \in [lease: NullRun, age: 0..StaleAfter]
  BY TimeAssumption DEF NullRun
<1> QED
  BY <1>1 DEF IdleWorkers, WorkerTable

\* What claim_task's own reaping leaves is well typed.
LEMMA ReapedType ==
    ASSUME TypeOK
    PROVE  /\ LeasesAfterExpiry \in LeaseTable
           /\ WorkersAfterExpiry \in WorkerTable
           /\ TasksAfterExpiry \in TaskTable
           /\ LeasesReaped \in LeaseTable
           /\ TasksReaped \in TaskTable
           /\ WorkersReaped \in WorkerTable
<1>1. "stale" \in TaskStates
  BY DEF TaskStates
<1>2. LeasesAfterExpiry \in LeaseTable
  BY SetStaleType DEF TypeOK, LeasesAfterExpiry
<1>3. WorkersAfterExpiry \in WorkerTable
  BY IdleWorkersType DEF TypeOK, WorkersAfterExpiry
<1>4. TasksAfterExpiry \in TaskTable
  BY <1>1, ClearTaskClaimsType DEF TypeOK, TasksAfterExpiry
<1>5. LeasesReaped \in LeaseTable
  BY <1>2, SetStaleType DEF LeasesReaped
<1>6. TasksReaped \in TaskTable
  BY <1>1, <1>4, ClearTaskClaimsType DEF TasksReaped
<1>7. WorkersReaped \in WorkerTable
  BY <1>3, IdleWorkersType DEF WorkersReaped
<1> QED
  BY <1>2, <1>3, <1>4, <1>5, <1>6, <1>7

\* The reapers take only leases that are active.
LEMMA ReapedWereActive ==
    ASSUME NEW ls, NEW ws
    PROVE  Expired(ls) \subseteq Active(ls) /\ SilentLeases(ls, ws) \subseteq Active(ls)
  BY DEF Expired, SilentLeases, SilentOwners, OwnsActive

\* Saturating arithmetic stays in its range.
LEMMA Saturation ==
    /\ MaxLag \in Nat
    /\ \A a, b \in Nat : Least(a, b) \in 0..b
    /\ \A a, b \in Nat : Minus(a, b) \in 0..a
  BY TimeAssumption DEF MaxLag, Least, Minus

\* Writing one column of a task row, or the whole row, keeps the table well typed.
LEMMA TaskRowType ==
    ASSUME NEW ts \in TaskTable, NEW t \in Tasks, NEW s \in TaskStates, NEW l \in NullRun
    PROVE  /\ [ts EXCEPT ![t].state = s] \in TaskTable
           /\ [ts EXCEPT ![t].lease = l] \in TaskTable
           /\ [ts EXCEPT ![t] = [state |-> s, lease |-> l]] \in TaskTable
  BY DEF TaskTable

\* Writing a local of a run keeps the locals well typed.
LEMMA LocalsType ==
    ASSUME NEW lc \in RunLocals, NEW r \in Runs, NEW s \in {"queued", "blocked"},
           NEW l \in NullRun, NEW f \in ReleaseStatuses
    PROVE  /\ [lc EXCEPT ![r].status = s] \in RunLocals
           /\ [lc EXCEPT ![r].seen = l] \in RunLocals
           /\ [lc EXCEPT ![r].final = f] \in RunLocals
  BY DEF RunLocals

\* A heartbeat call that begins, goes on to its second statement or ends is well typed.
LEMMA TouchType ==
    ASSUME NEW tc \in Touches, NEW r \in Runs
    PROVE  /\ [tc EXCEPT ![r] = [at |-> "lease", lag |-> 0]] \in Touches
           /\ [tc EXCEPT ![r].at = "worker"] \in Touches
           /\ [tc EXCEPT ![r] = NoTouch] \in Touches
<1>1. 0 \in 0..MaxLag
  BY Saturation
<1> QED
  BY <1>1 DEF Touches, NoTouch

\* A release that begins, goes on to its last statement or ends is well typed.
LEMMA ReleaseType ==
    ASSUME NEW rl \in Releases, NEW r \in Runs,
           NEW status \in ReleaseStatuses, NEW by \in {"run", "cli"}
    PROVE  /\ [rl EXCEPT ![r] = [at |-> "task", status |-> status, by |-> by]] \in Releases
           /\ [rl EXCEPT ![r].at = "worker"] \in Releases
           /\ [rl EXCEPT ![r] = NoRel] \in Releases
  BY DEF Releases, NoRel, ReleaseStatuses

\* The row of a lease that is granted is well typed.
LEMMA GrantedRowType ==
    ASSUME NEW ls \in LeaseTable, NEW r \in Runs
    PROVE  [ls EXCEPT ![r] = [status |-> "active", left |-> TTL, hb |-> 0]] \in LeaseTable
<1>1. [status |-> "active", left |-> TTL, hb |-> 0]
          \in [status: LeaseStatuses, left: 0..TTL, hb: 0..StaleAfter]
  BY TimeAssumption DEF LeaseStatuses
<1> QED
  BY <1>1 DEF LeaseTable

\* The row of a lease that ends is well typed.
LEMMA EndedRowType ==
    ASSUME NEW ls \in LeaseTable, NEW r \in Runs, NEW status \in ReleaseStatuses
    PROVE  [ls EXCEPT ![r] = Ended(status)] \in LeaseTable
<1>1. Ended(status) \in [status: LeaseStatuses, left: 0..TTL, hb: 0..StaleAfter]
  BY TimeAssumption DEF LeaseStatuses, Ended
<1> QED
  BY <1>1 DEF LeaseTable

\* The row of a lease that beats is well typed.
LEMMA BeatenRowType ==
    ASSUME NEW ls \in LeaseTable, NEW r \in Runs,
           NEW left \in 0..TTL, NEW hb \in 0..StaleAfter
    PROVE  [ls EXCEPT ![r].left = left, ![r].hb = hb] \in LeaseTable
  BY DEF LeaseTable

\* The row of a worker that is seen, with or without a lease, is well typed.
LEMMA WorkerRowType ==
    ASSUME NEW ws \in WorkerTable, NEW w \in Workers, NEW l \in NullRun,
           NEW age \in 0..StaleAfter
    PROVE  [ws EXCEPT ![w] = [lease |-> l, age |-> age]] \in WorkerTable
  BY DEF WorkerTable

-----------------------------------------------------------------------------
(* Types *)

\* The values the actions write are in their types.
LEMMA Values ==
    /\ NoRun \in NullRun
    /\ \A r \in Runs : r \in NullRun /\ TaskOf[r] \in Tasks /\ WorkerOf[r] \in Workers
    /\ {"queued", "claimed", "active", "review", "blocked", "done", "stale"} \subseteq TaskStates
    /\ {"completed", "blocked", "stale"} \subseteq ReleaseStatuses
    /\ PCs = {"idle", "select", "lookup", "clear", "worker", "claim", "markBlocked", "claimed",
              "started", "working", "review", "finishing", "exited", "crashed"}
    /\ 0 \in 0..StaleAfter
    /\ OperatorStates \subseteq TaskStates
  BY ConstantsAssumption, TimeAssumption, BoundsAssumption
  DEF NullRun, TaskStates, ReleaseStatuses, PCs

\* The steps of run_task_intake keep the types.
LEMMA IntakeType ==
    ASSUME TypeOK, NEW r \in Runs, Intake(r)
    PROVE  TypeOK'
<1> USE Values DEF TypeOK
<1>1. ASSUME NEW s \in {"queued", "blocked"}, RegisterTask(r, s)
      PROVE  TypeOK'
  BY <1>1, TaskRowType, LocalsType DEF RegisterTask
<1>2. AfterRegister(r) \in PCs
  BY DEF AfterRegister
<1>3. CASE SelectClaim(r)
  <2>1. tasks[TaskOf[r]].lease \in NullRun
    BY DEF TaskTable
  <2> QED
    BY <1>2, <1>3, <2>1, LocalsType DEF SelectClaim
<1>4. CASE LookupClaim(r)
  BY <1>2, <1>4, LocalsType DEF LookupClaim
<1>5. CASE ClearClaim(r)
  BY <1>2, <1>5, TaskRowType DEF ClearClaim
<1>6. CASE RegisterWorker(r)
  BY <1>6, WorkerRowType DEF RegisterWorker
<1>7. CASE ClaimDependencyBlocked(r)
  BY <1>7 DEF ClaimDependencyBlocked
<1>8. CASE ClaimLeaseExists(r)
  BY <1>8 DEF ClaimLeaseExists
<1>9. CASE ClaimTask(r)
  <2>1. leases' \in LeaseTable
    BY <1>9, ReapedType, GrantedRowType DEF ClaimTask
  <2>2. tasks' \in TaskTable
    BY <1>9, ReapedType, TaskRowType DEF ClaimTask
  <2>3. workers' \in WorkerTable
    BY <1>9, ReapedType, WorkerRowType DEF ClaimTask
  <2> QED
    BY <1>9, <2>1, <2>2, <2>3 DEF ClaimTask
<1>10. CASE MarkTaskBlocked(r)
  BY <1>10, TaskRowType DEF MarkTaskBlocked
<1>11. CASE ExitBeforeStatus(r)
  BY <1>11 DEF ExitBeforeStatus
<1> QED
  BY <1>1, <1>3, <1>4, <1>5, <1>6, <1>7, <1>8, <1>9, <1>10, <1>11 DEF Intake

\* The update that begins a release keeps the types.
LEMMA ReleaseRowType ==
    ASSUME TypeOK, NEW r \in Runs, NEW status \in ReleaseStatuses, NEW by \in {"run", "cli"},
           ReleaseRow(r, status, by)
    PROVE  leases' \in LeaseTable /\ rel' \in Releases
<1>1. CASE r \in Active(leases)
  <2>1. /\ leases' = [leases EXCEPT ![r] = Ended(status)]
        /\ rel' = [rel EXCEPT ![r] = [at |-> "task", status |-> status, by |-> by]]
    BY <1>1 DEF ReleaseRow
  <2>2. leases' \in LeaseTable
    BY <2>1, EndedRowType DEF TypeOK
  <2>3. rel' \in Releases
    BY <2>1, ReleaseType DEF TypeOK
  <2> QED
    BY <2>2, <2>3
<1>2. CASE r \notin Active(leases)
  BY <1>2 DEF ReleaseRow, TypeOK
<1> QED
  BY <1>1, <1>2

\* The phases of a run keep the types.
LEMMA PhasesType ==
    ASSUME TypeOK, NEW r \in Runs, Phases(r)
    PROVE  TypeOK'
<1> USE Values DEF TypeOK
<1>1. CASE StartRun(r)
  BY <1>1 DEF StartRun
<1>2. CASE MarkTaskActive(r)
  BY <1>2, TaskRowType DEF MarkTaskActive, MarkTask
<1>3. CASE MarkTaskReview(r)
  BY <1>3, TaskRowType DEF MarkTaskReview, MarkTask
<1>4. CASE RetryRepair(r)
  BY <1>4 DEF RetryRepair
<1>5. ASSUME NEW final \in {"completed", "blocked"}, MarkTaskDone(r, final)
      PROVE  TypeOK'
  BY <1>5, TaskRowType, LocalsType DEF MarkTaskDone, MarkTask
<1>6. CASE FailRun(r)
  BY <1>6, LocalsType DEF FailRun
<1>7. CASE ReleaseLease(r)
  <2>1. loc[r].final \in ReleaseStatuses
    BY DEF RunLocals
  <2> QED
    BY <1>7, <2>1, ReleaseRowType DEF ReleaseLease
<1> QED
  BY <1>1, <1>2, <1>3, <1>4, <1>5, <1>6, <1>7 DEF Phases

\* Heartbeats keep the types.
LEMMA HeartbeatType ==
    ASSUME TypeOK, NEW r \in Runs, Heartbeat(r)
    PROVE  TypeOK'
<1> USE Values DEF TypeOK
<1>1. touch[r].lag \in Nat
  BY Saturation DEF Touches
<1>2. Minus(TTL, touch[r].lag) \in 0..TTL /\ Least(touch[r].lag, StaleAfter) \in 0..StaleAfter
  BY <1>1, Saturation, TimeAssumption
<1>3. CASE BeginTouch(r)
  BY <1>3, TouchType DEF BeginTouch
<1>4. CASE HeartbeatLease(r)
  <2>1. CASE r \in Active(leases)
    <3>1. leases' \in LeaseTable
      BY <1>2, <1>4, <2>1, BeatenRowType DEF HeartbeatLease
    <3> QED
      BY <1>4, <2>1, <3>1, TouchType DEF HeartbeatLease
  <2>2. CASE r \notin Active(leases)
    BY <1>4, <2>2, TouchType DEF HeartbeatLease
  <2> QED
    BY <2>1, <2>2
<1>5. CASE HeartbeatWorkerRow(r)
  BY <1>2, <1>5, WorkerRowType, TouchType DEF HeartbeatWorkerRow
<1> QED
  BY <1>3, <1>4, <1>5 DEF Heartbeat

\* Releases keep the types.
LEMMA ReleasesType ==
    ASSUME TypeOK, NEW r \in Runs, Release(r)
    PROVE  TypeOK'
<1> USE Values DEF TypeOK
<1>1. CASE CliReleaseLease(r)
  BY <1>1, ReleaseRowType DEF CliReleaseLease
<1>2. CASE ReleaseTask(r)
  <2>1. TaskStateFromLeaseStatus(rel[r].status) \in TaskStates
    BY DEF TaskStateFromLeaseStatus, ReleaseStatuses, Releases
  <2> QED
    BY <1>2, <2>1, ClearTaskClaimsType, ReleaseType DEF ReleaseTask
<1>3. CASE ReleaseWorker(r)
  BY <1>3, IdleWorkersType, ReleaseType DEF ReleaseWorker
<1> QED
  BY <1>1, <1>2, <1>3 DEF Release

\* The operator keeps the types.
LEMMA OperatorType ==
    ASSUME TypeOK, Operator
    PROVE  TypeOK'
<1> USE Values DEF TypeOK
<1>1. op.task \in Tasks /\ op.state \in TaskStates
  BY DEF OperatorCall
<1>2. NoOp(op.task) \in OperatorCall
  BY <1>1 DEF OperatorCall, NoOp
<1>3. ASSUME NEW t \in Tasks, NEW s \in OperatorStates, OperatorRegister(t, s)
      PROVE  TypeOK'
  <2>1. op' \in OperatorCall
    BY <1>3 DEF OperatorRegister, OperatorCall
  <2> QED
    BY <1>3, <2>1, TaskRowType DEF OperatorRegister
<1>4. CASE OperatorReclaim
  <2>1. op' \in OperatorCall
    BY <1>4 DEF OperatorReclaim, OperatorCall
  <2> QED
    BY <1>1, <1>4, <2>1, TaskRowType DEF OperatorReclaim
<1>5. CASE OperatorState
  <2>1. op' \in OperatorCall
    BY <1>2, <1>5 DEF OperatorState, OperatorCall
  <2> QED
    BY <1>1, <1>5, <2>1, TaskRowType DEF OperatorState
<1>6. CASE OperatorLeases
  <2>1. op' \in OperatorCall
    BY <1>6 DEF OperatorLeases, OperatorCall
  <2> QED
    BY <1>6, <2>1, SetStaleType, IdleWorkersType DEF OperatorLeases
<1>7. CASE OperatorUnclaim
  BY <1>1, <1>2, <1>7, TaskRowType DEF OperatorUnclaim
<1> QED
  BY <1>3, <1>4, <1>5, <1>6, <1>7 DEF Operator

\* The death of a process and the passing of time keep the types.
LEMMA EnvironmentType ==
    ASSUME TypeOK, (\E w \in Fallible : Crash(w)) \/ Tick
    PROVE  TypeOK'
<1>1. ASSUME NEW w \in Fallible, Crash(w)
      PROVE  TypeOK'
  <2>1. pc' \in [Runs -> PCs]
    BY <1>1, Values DEF Crash, TypeOK
  <2>2. touch' \in Touches
    BY <1>1, Saturation DEF Crash, TypeOK, Touches, NoTouch
  <2>3. rel' \in Releases
    BY <1>1 DEF Crash, TypeOK, Releases, NoRel, ReleaseStatuses
  <2> QED
    BY <1>1, <2>1, <2>2, <2>3 DEF Crash, TypeOK
<1>2. CASE Tick
  <2>1. leases' \in LeaseTable
    <3>1. ASSUME NEW r \in Runs
          PROVE  [leases[r] EXCEPT !.left = Minus(@, 1), !.hb = Least(@ + 1, StaleAfter)]
                     \in [status: LeaseStatuses, left: 0..TTL, hb: 0..StaleAfter]
      <4>1. leases[r] \in [status: LeaseStatuses, left: 0..TTL, hb: 0..StaleAfter]
        BY DEF TypeOK, LeaseTable
      <4>2. Minus(leases[r].left, 1) \in 0..TTL /\ Least(leases[r].hb + 1, StaleAfter) \in 0..StaleAfter
        BY <4>1, TimeAssumption DEF Minus, Least
      <4> QED
        BY <4>1, <4>2
    <3> QED
      BY <1>2, <3>1 DEF Tick, TypeOK, LeaseTable
  <2>2. workers' \in WorkerTable
    <3>1. ASSUME NEW w \in Workers
          PROVE  [workers[w] EXCEPT !.age = Least(@ + 1, StaleAfter)]
                     \in [lease: NullRun, age: 0..StaleAfter]
      BY TimeAssumption DEF TypeOK, WorkerTable, Least
    <3> QED
      BY <1>2, <3>1 DEF Tick, TypeOK, WorkerTable
  <2>3. touch' \in Touches
    <3>1. ASSUME NEW r \in Runs
          PROVE  [touch[r] EXCEPT !.lag = Least(@ + 1, MaxLag)]
                     \in [at: {"off", "lease", "worker"}, lag: 0..MaxLag]
      BY Saturation DEF TypeOK, Touches, Least
    <3> QED
      BY <1>2, <3>1 DEF Tick, TypeOK, Touches
  <2> QED
    BY <1>2, <2>1, <2>2, <2>3 DEF Tick, TypeOK
<1> QED
  BY <1>1, <1>2

\* Every step keeps the types.
LEMMA TypeStep ==
    ASSUME TypeOK, [Next]_vars
    PROVE  TypeOK'
<1>1. CASE ReapExpiredLeases
  BY <1>1, ReapedType DEF ReapExpiredLeases, TypeOK
<1>2. CASE ReapStaleWorkers
  BY <1>2, Values, SetStaleType, ClearTaskClaimsType, IdleWorkersType
  DEF ReapStaleWorkers, TypeOK
<1>3. CASE UNCHANGED vars
  BY <1>3 DEF vars, TypeOK
<1> QED
  BY <1>1, <1>2, <1>3, IntakeType, PhasesType, HeartbeatType, ReleasesType, OperatorType,
     EnvironmentType
  DEF Next

\* The empty ledger is well typed.
LEMMA TypeInit ==
    ASSUME Init
    PROVE  TypeOK
<1>1. leases \in LeaseTable
  BY TimeAssumption DEF Init, Ended, LeaseTable, LeaseStatuses
<1>2. tasks \in TaskTable /\ workers \in WorkerTable /\ pc \in [Runs -> PCs]
  BY TimeAssumption DEF Init, TaskTable, WorkerTable, NullRun, PCs
<1>3. loc \in RunLocals /\ touch \in Touches /\ rel \in Releases
  BY Saturation
  DEF Init, RunLocals, Touches, Releases, NullRun, ReleaseStatuses, NoTouch, NoRel
<1>4. op \in OperatorCall
  BY DEF Init, OperatorCall, NoOp, TaskStates
<1> QED
  BY <1>1, <1>2, <1>3, <1>4 DEF TypeOK

-----------------------------------------------------------------------------
(* What a step may do to the leases *)

\* Leases that were active end, nothing else happens to the lease statuses.
OnlyEnds(r) ==
    \/ leases'[r].status = leases[r].status
    \/ leases[r].status = "active" /\ leases'[r].status \in ReleaseStatuses

\* Reaping a set of active leases only ends leases.
LEMMA SetStaleOnlyEnds ==
    ASSUME TypeOK, NEW S, S \subseteq Active(leases), leases' = SetStale(leases, S)
    PROVE  \A r \in Runs : OnlyEnds(r)
  BY DEF OnlyEnds, SetStale, Active, Ended, ReleaseStatuses, TypeOK, LeaseTable

\* The guarded update of a release only ends its lease.
LEMMA ReleaseRowOnlyEnds ==
    ASSUME TypeOK, NEW q \in Runs, NEW status \in ReleaseStatuses, NEW by,
           ReleaseRow(q, status, by)
    PROVE  \A r \in Runs : OnlyEnds(r)
<1>1. CASE q \in Active(leases)
  <2>1. leases' = [leases EXCEPT ![q] = Ended(status)] /\ leases[q].status = "active"
    BY <1>1 DEF ReleaseRow, Active
  <2> QED
    BY <2>1 DEF OnlyEnds, Ended, TypeOK, LeaseTable
<1>2. CASE q \notin Active(leases)
  BY <1>2 DEF ReleaseRow, OnlyEnds
<1> QED
  BY <1>1, <1>2

\* Every step but a granted claim only ends leases.
LEMMA StepOnlyEnds ==
    ASSUME TypeOK, [Next]_vars, \A q \in Runs : ~ClaimTask(q)
    PROVE  \A r \in Runs : OnlyEnds(r)
<1>1. CASE UNCHANGED leases
  BY <1>1 DEF OnlyEnds
<1>2. ASSUME NEW q \in Runs, Intake(q)
      PROVE  UNCHANGED leases
  BY <1>2
  DEF Intake, RegisterTask, SelectClaim, LookupClaim, ClearClaim, RegisterWorker,
      ClaimDependencyBlocked, ClaimLeaseExists, MarkTaskBlocked, ExitBeforeStatus
<1>3. ASSUME NEW q \in Runs, Phases(q)
      PROVE  \A r \in Runs : OnlyEnds(r)
  <2>1. CASE ReleaseLease(q)
    <3>1. loc[q].final \in ReleaseStatuses
      BY DEF TypeOK, RunLocals
    <3> QED
      BY <2>1, <3>1, ReleaseRowOnlyEnds DEF ReleaseLease
  <2>2. CASE ~ReleaseLease(q)
    BY <1>1, <1>3, <2>2
    DEF Phases, StartRun, MarkTaskActive, MarkTaskReview, RetryRepair, MarkTaskDone, FailRun
  <2> QED
    BY <2>1, <2>2
<1>4. ASSUME NEW q \in Runs, Heartbeat(q)
      PROVE  \A r \in Runs : OnlyEnds(r)
  <2>1. CASE HeartbeatLease(q) /\ q \in Active(leases)
    <3>1. leases' = [leases EXCEPT ![q].left = Minus(TTL, touch[q].lag),
                                   ![q].hb = Least(touch[q].lag, StaleAfter)]
      BY <2>1 DEF HeartbeatLease
    <3> QED
      BY <3>1 DEF OnlyEnds, TypeOK, LeaseTable
  <2>2. CASE ~(HeartbeatLease(q) /\ q \in Active(leases))
    BY <1>1, <1>4, <2>2 DEF Heartbeat, BeginTouch, HeartbeatLease, HeartbeatWorkerRow
  <2> QED
    BY <2>1, <2>2
<1>5. ASSUME NEW q \in Runs, Release(q)
      PROVE  \A r \in Runs : OnlyEnds(r)
  <2>1. CASE CliReleaseLease(q)
    BY <2>1, Values, ReleaseRowOnlyEnds DEF CliReleaseLease
  <2>2. CASE ~CliReleaseLease(q)
    BY <1>1, <1>5, <2>2 DEF Release, ReleaseTask, ReleaseWorker
  <2> QED
    BY <2>1, <2>2
<1>6. CASE ReapExpiredLeases
  BY <1>6, ReapedWereActive, SetStaleOnlyEnds DEF ReapExpiredLeases, LeasesAfterExpiry
<1>7. CASE ReapStaleWorkers
  BY <1>7, ReapedWereActive, SetStaleOnlyEnds DEF ReapStaleWorkers
<1>8. CASE Operator
  <2>1. CASE OperatorLeases
    BY <2>1, SetStaleOnlyEnds DEF OperatorLeases, Holders
  <2>2. CASE ~OperatorLeases
    BY <1>1, <1>8, <2>2
    DEF Operator, OperatorRegister, OperatorReclaim, OperatorState, OperatorUnclaim
  <2> QED
    BY <2>1, <2>2
<1>9. ASSUME NEW w \in Fallible, Crash(w)
      PROVE  UNCHANGED leases
  BY <1>9 DEF Crash
<1>10. CASE Tick
  BY <1>10 DEF Tick, OnlyEnds, TypeOK, LeaseTable
<1>11. CASE UNCHANGED vars
  BY <1>1, <1>11 DEF vars
<1> QED
  BY <1>1, <1>2, <1>3, <1>4, <1>5, <1>6, <1>7, <1>8, <1>9, <1>10, <1>11 DEF Next

\* A granted claim ends leases that ran out or fell silent, and activates the
\* lease of the run, the only one of its task.
Grants(r) ==
    /\ leases[r].status = "none"
    /\ leases'[r].status = "active"
    /\ \A q \in Runs \ {r} :
          /\ OnlyEnds(q)
          /\ leases'[q].status = "active" => TaskOf[q] # TaskOf[r]

\* claim_task grants.
LEMMA ClaimTaskGrants ==
    ASSUME IInv, NEW r \in Runs, ClaimTask(r)
    PROVE  Grants(r)
<1>1. leases[r].status = "none"
  BY DEF IInv, UnclaimedHasNoLease, Unclaimed, ClaimTask
<1>2. LeasesReaped \in LeaseTable
  BY ReapedType DEF IInv
<1>3. leases'[r].status = "active"
  BY <1>2 DEF ClaimTask, LeaseTable
<1>4. ASSUME NEW q \in Runs \ {r}
      PROVE  OnlyEnds(q)
  <2>1. leases'[q] = LeasesReaped[q]
    BY <1>2 DEF ClaimTask, LeaseTable
  <2>2. SilentAfterExpiry \subseteq Active(LeasesAfterExpiry) /\ Expired(leases) \subseteq Active(leases)
    BY ReapedWereActive DEF SilentAfterExpiry
  <2>3. \/ LeasesReaped[q] = leases[q]
        \/ LeasesReaped[q] = Ended("stale") /\ q \in Active(leases)
    BY <2>2 DEF LeasesReaped, LeasesAfterExpiry, SetStale, Active, Ended
  <2> QED
    BY <2>1, <2>3 DEF OnlyEnds, Active, Ended, ReleaseStatuses
<1>5. ASSUME NEW q \in Runs \ {r}, leases'[q].status = "active"
      PROVE  TaskOf[q] # TaskOf[r]
  BY <1>2, <1>5 DEF ClaimTask, LeaseTable, Active, LeasesOf, Holders
<1> QED
  BY <1>1, <1>3, <1>4, <1>5 DEF Grants

\* So every step only ends leases, or grants one.
LEMMA LeaseStep ==
    ASSUME IInv, [Next]_vars
    PROVE  (\A r \in Runs : OnlyEnds(r)) \/ (\E r \in Runs : Grants(r))
  BY StepOnlyEnds, ClaimTaskGrants DEF IInv

\* A run reaches the points before its claim only from points before its claim.
LEMMA StaysUnclaimed ==
    ASSUME TypeOK, [Next]_vars, NEW r \in Runs, pc'[r] \in Unclaimed
    PROVE  pc[r] \in Unclaimed /\ ~ClaimTask(r)
<1>1. ASSUME NEW q \in Runs, Intake(q)
      PROVE  pc[r] \in Unclaimed
  BY <1>1
  DEF TypeOK, Unclaimed, Intake, RegisterTask, SelectClaim, LookupClaim, ClearClaim, RegisterWorker,
      ClaimDependencyBlocked, ClaimLeaseExists, ClaimTask, MarkTaskBlocked, ExitBeforeStatus
<1>2. ASSUME NEW q \in Runs, Phases(q)
      PROVE  pc[r] \in Unclaimed
  BY <1>2
  DEF TypeOK, Unclaimed, Phases, StartRun, MarkTaskActive, MarkTaskReview, RetryRepair,
      MarkTaskDone, FailRun, ReleaseLease
<1>3. ASSUME NEW w \in Fallible, Crash(w)
      PROVE  pc[r] \in Unclaimed
  BY <1>3 DEF TypeOK, Unclaimed, Crash
<1>4. ASSUME UNCHANGED pc
      PROVE  pc[r] \in Unclaimed
  BY <1>4
<1>5. ASSUME NEW q \in Runs, Heartbeat(q) \/ Release(q)
      PROVE  UNCHANGED pc
  BY <1>5
  DEF Heartbeat, BeginTouch, HeartbeatLease, HeartbeatWorkerRow,
      Release, CliReleaseLease, ReleaseTask, ReleaseWorker
<1>6. ASSUME ReapExpiredLeases \/ ReapStaleWorkers \/ Operator \/ Tick \/ UNCHANGED vars
      PROVE  UNCHANGED pc
  BY <1>6
  DEF ReapExpiredLeases, ReapStaleWorkers, Operator, OperatorRegister, OperatorReclaim,
      OperatorState, OperatorLeases, OperatorUnclaim, Tick, vars
<1>7. ~ClaimTask(r)
  BY DEF ClaimTask, Unclaimed, TypeOK
<1> QED
  BY <1>1, <1>2, <1>3, <1>4, <1>5, <1>6, <1>7 DEF Next

\* The inductive step.
LEMMA InductiveStep ==
    ASSUME IInv, [Next]_vars
    PROVE  IInv'
<1>1. TypeOK'
  BY TypeStep DEF IInv
<1>2. OneActiveLease'
  <2>1. CASE \A r \in Runs : OnlyEnds(r)
    BY <2>1 DEF IInv, OneActiveLease, OnlyEnds, Active, ReleaseStatuses
  <2>2. ASSUME NEW r \in Runs, Grants(r)
        PROVE  OneActiveLease'
    BY <2>2 DEF IInv, OneActiveLease, Grants, OnlyEnds, Active, ReleaseStatuses
  <2> QED
    BY <2>1, <2>2, LeaseStep
<1>3. UnclaimedHasNoLease'
  <2> SUFFICES ASSUME NEW r \in Runs, pc'[r] \in Unclaimed
               PROVE  leases'[r].status = "none"
    BY DEF UnclaimedHasNoLease
  <2>1. leases[r].status = "none" /\ ~ClaimTask(r)
    BY StaysUnclaimed DEF IInv, UnclaimedHasNoLease
  <2>2. ASSUME NEW q \in Runs, ClaimTask(q)
        PROVE  OnlyEnds(r)
    BY <2>1, <2>2, ClaimTaskGrants DEF Grants
  <2>3. OnlyEnds(r)
    BY <2>2, StepOnlyEnds DEF IInv
  <2> QED
    BY <2>1, <2>3 DEF OnlyEnds
<1> QED
  BY <1>1, <1>2, <1>3 DEF IInv

\* The invariant holds in the empty ledger.
LEMMA InductiveInit ==
    ASSUME Init
    PROVE  IInv
<1>1. OneActiveLease /\ UnclaimedHasNoLease
  BY DEF Init, OneActiveLease, UnclaimedHasNoLease, Active, Ended
<1> QED
  BY <1>1, TypeInit DEF IInv

-----------------------------------------------------------------------------
(* Theorems *)

\* The inductive invariant holds in every reachable state of the ledger.
THEOREM Invariance == Spec => []IInv
  BY InductiveInit, InductiveStep, PTL DEF Spec

\* The three tables and the calls in flight are always well typed: the saturated
\* clocks stay in their ranges and every column holds a value of its kind.
THEOREM Typing == Spec => []TypeOK
<1>1. IInv => TypeOK
  BY DEF IInv
<1> QED
  BY <1>1, Invariance, PTL

\* No interleaving of claim_task with heartbeats, releases, reapers, operator
\* calls and crashes gives a task two active leases.
THEOREM MutualExclusion == Spec => []OneActiveLease
<1>1. IInv => OneActiveLease
  BY DEF IInv
<1> QED
  BY <1>1, Invariance, PTL

\* A lease that was released or reaped keeps its outcome: heartbeat_lease and
\* release_lease, which may arrive at any later time, leave it alone.
THEOREM Finality == Spec => LeaseStatusIsFinal
<1>1. ASSUME IInv, [Next]_vars
      PROVE  [\A r \in Runs : leases[r].status \in ReleaseStatuses
                                 => leases'[r].status = leases[r].status]_vars
  BY <1>1, LeaseStep DEF Grants, OnlyEnds, ReleaseStatuses
<1> QED
  BY <1>1, Invariance, PTL DEF Spec, LeaseStatusIsFinal

\* A task that has no row after claim_task's reaping had none before.
LEMMA ReapingKeepsAbsence ==
    ASSUME TypeOK, NEW u \in Tasks, TasksReaped[u].state = "none"
    PROVE  tasks[u].state = "none"
<1>1. TasksAfterExpiry[u].state = "none"
  BY ReapedType DEF TasksReaped, ClearTaskClaims, TaskTable
<1> QED
  BY <1>1 DEF TypeOK, TasksAfterExpiry, ClearTaskClaims, TaskTable

\* claim_task grants a dependent task only while its dependencies are done in the
\* ledger it leaves, or in a ledger that knows no other task.
THEOREM DependencyGate == Spec => ClaimAfterDependencies
<1>1. ASSUME IInv, [Next]_vars, NEW r \in Runs,
             leases[r].status = "none", leases'[r].status = "active"
      PROVE  \/ \A d \in Deps[TaskOf[r]] : tasks'[d].state = "done"
             \/ \A u \in Tasks \ {TaskOf[r]} : tasks[u].state = "none"
  <2>1. ~OnlyEnds(r)
    BY <1>1 DEF OnlyEnds
  <2>2. PICK q \in Runs : ClaimTask(q)
    BY <1>1, <2>1, StepOnlyEnds DEF IInv
  <2>3. q = r
    BY <1>1, <2>1, <2>2, ClaimTaskGrants DEF Grants
  <2>4. ~DependencyBlocked(TasksReaped, TaskOf[r])
    BY <2>2, <2>3 DEF ClaimTask
  <2>5. Deps[TaskOf[r]] \subseteq Tasks
    BY ConstantsAssumption
  <2>6. TasksReaped \in TaskTable /\ TypeOK
    BY <1>1, ReapedType DEF IInv
  <2>7. CASE \A d \in Deps[TaskOf[r]] : d # TaskOf[r] /\ TasksReaped[d].state = "done"
    <3>1. \A d \in Deps[TaskOf[r]] : tasks'[d] = TasksReaped[d]
      BY <2>2, <2>3, <2>5, <2>6, <2>7 DEF ClaimTask, TaskTable
    <3> QED
      BY <2>7, <3>1
  <2>8. CASE ~\A d \in Deps[TaskOf[r]] : d # TaskOf[r] /\ TasksReaped[d].state = "done"
    <3>1. \A u \in Tasks \ {TaskOf[r]} : TasksReaped[u].state = "none"
      BY <2>4, <2>8 DEF DependencyBlocked
    <3> QED
      BY <2>6, <3>1, ReapingKeepsAbsence
  <2> QED
    BY <2>7, <2>8
<1>2. ASSUME IInv, [Next]_vars
      PROVE  [\A r \in Runs :
                  /\ leases[r].status = "none"
                  /\ leases'[r].status = "active"
                  => \/ \A d \in Deps[TaskOf[r]] : tasks'[d].state = "done"
                     \/ \A u \in Tasks \ {TaskOf[r]} : tasks[u].state = "none"]_vars
  BY <1>1, <1>2
<1> QED
  BY <1>2, Invariance, PTL DEF Spec, ClaimAfterDependencies

\* Every step of the ledger is a step of the lease contract, or none.
LEMMA ContractStep ==
    ASSUME IInv, [Next]_vars
    PROVE  [Contract!Next]_([r \in Runs |-> leases[r].status])
<1> DEFINE status == [r \in Runs |-> leases[r].status]
           Ends == {q \in Runs : leases[q].status = "active" /\ leases'[q].status # "active"}
           out == [q \in Ends |-> leases'[q].status]
<1>1. Contract!Held = Active(leases)
  BY DEF Contract!Held, Active
<1>2. Ends \in SUBSET Contract!Held
  BY <1>1 DEF Active
<1>3. CASE \A r \in Runs : OnlyEnds(r)
  <2>1. out \in [Ends -> Contract!Outcomes]
    BY <1>3 DEF OnlyEnds, ReleaseStatuses, Contract!Outcomes
  <2>2. status' = Contract!Ending(Ends, out)
    BY <1>3 DEF OnlyEnds, ReleaseStatuses, Contract!Ending
  <2> QED
    BY <1>2, <2>1, <2>2 DEF Contract!Next, Contract!End
<1>4. ASSUME NEW r \in Runs, Grants(r)
      PROVE  Contract!Next
  <2>1. out \in [Ends -> Contract!Outcomes]
    BY <1>4 DEF Grants, OnlyEnds, ReleaseStatuses, Contract!Outcomes
  <2>2. status' = [Contract!Ending(Ends, out) EXCEPT ![r] = "active"]
    BY <1>4 DEF Grants, OnlyEnds, ReleaseStatuses, Contract!Ending
  <2>3. \A q \in Contract!Held \ Ends : TaskOf[q] # TaskOf[r]
    BY <1>1, <1>4 DEF Grants, OnlyEnds, ReleaseStatuses, Active
  <2>4. status[r] = "none"
    BY <1>4 DEF Grants
  <2> QED
    BY <1>2, <2>1, <2>2, <2>3, <2>4 DEF Contract!Next, Contract!Grant
<1> QED
  BY <1>3, <1>4, LeaseStep

\* The ledger implements the lease contract: a lease is granted once, only to a
\* task without another holder, and ends once.
THEOREM Refinement == Spec => KeepsContract
<1>1. Init => Contract!Init
  BY DEF Init, Ended, Contract!Init
<1> QED
  BY <1>1, ContractStep, Invariance, PTL DEF Spec, KeepsContract, Contract!Spec

-----------------------------------------------------------------------------
(* The dead-host rule and runs that beat *)

Gone == {"exited", "crashed"}

\* The worker row that names the lease of a live run was seen at least as lately
\* as the lease, unless the heartbeat is between the two rows.
RowFollows(r) ==
    r \in Active(leases) /\ workers[WorkerOf[r]].lease = r =>
        \/ pc[r] \in Gone
        \/ touch[r].at = "worker"
        \/ workers[WorkerOf[r]].age <= leases[r].hb

\* What the heartbeat will write to the worker row is no older than what it wrote
\* to the lease; and nobody beats before the claim.
TouchFollows(r) ==
    /\ pc[r] \in Unclaimed => touch[r].at = "off"
    /\ touch[r].at = "worker" /\ r \in Active(leases)
          => Least(touch[r].lag, StaleAfter) <= leases[r].hb

\* A release that has begun has ended its lease.
ReleaseEnded(r) == rel[r].at # "off" => leases[r].status \in ReleaseStatuses

FreshInv == IInv /\ \A r \in Runs : RowFollows(r) /\ TouchFollows(r) /\ ReleaseEnded(r)

\* A step that leaves the lease of a run as it is or ends it, that leaves the
\* heartbeat and the exit of the run alone, and after which its worker row names
\* it only if it did before, keeps what FreshInv says of the run.
LEMMA Undisturbed ==
    ASSUME TypeOK, NEW r \in Runs, RowFollows(r), TouchFollows(r),
           leases'[r] = leases[r] \/ leases'[r].status # "active",
           touch'[r] = touch[r],
           pc[r] \in Gone => pc'[r] \in Gone,
           pc'[r] \in Unclaimed => pc[r] \in Unclaimed,
           workers'[WorkerOf[r]] = workers[WorkerOf[r]] \/ workers'[WorkerOf[r]].lease # r
    PROVE  RowFollows(r)' /\ TouchFollows(r)'
  BY DEF RowFollows, TouchFollows, Active

\* A step of the main thread never comes back from the exit.
LEMMA GoneStays ==
    ASSUME TypeOK, [Next]_vars, NEW r \in Runs, pc[r] \in Gone
    PROVE  pc'[r] \in Gone
<1>1. ASSUME NEW q \in Runs, Intake(q)
      PROVE  pc'[r] \in Gone
  BY <1>1
  DEF TypeOK, Gone, Intake, RegisterTask, SelectClaim, LookupClaim, ClearClaim, RegisterWorker,
      ClaimDependencyBlocked, ClaimLeaseExists, ClaimTask, MarkTaskBlocked, ExitBeforeStatus
<1>2. ASSUME NEW q \in Runs, Phases(q)
      PROVE  pc'[r] \in Gone
  BY <1>2
  DEF TypeOK, Gone, Phases, StartRun, MarkTaskActive, MarkTaskReview, RetryRepair,
      MarkTaskDone, FailRun, ReleaseLease
<1>3. ASSUME NEW w \in Fallible, Crash(w)
      PROVE  pc'[r] \in Gone
  BY <1>3 DEF TypeOK, Gone, Crash
<1>4. ASSUME UNCHANGED pc
      PROVE  pc'[r] \in Gone
  BY <1>4
<1>5. ASSUME NEW q \in Runs, Heartbeat(q) \/ Release(q)
      PROVE  UNCHANGED pc
  BY <1>5
  DEF Heartbeat, BeginTouch, HeartbeatLease, HeartbeatWorkerRow,
      Release, CliReleaseLease, ReleaseTask, ReleaseWorker
<1>6. ASSUME ReapExpiredLeases \/ ReapStaleWorkers \/ Operator \/ Tick \/ UNCHANGED vars
      PROVE  UNCHANGED pc
  BY <1>6
  DEF ReapExpiredLeases, ReapStaleWorkers, Operator, OperatorRegister, OperatorReclaim,
      OperatorState, OperatorLeases, OperatorUnclaim, Tick, vars
<1> QED
  BY <1>1, <1>2, <1>3, <1>4, <1>5, <1>6 DEF Next

\* Reaping and idling leave a row as it is, or end the lease and let the worker
\* row forget its lease.
LEMMA ReapingLeavesOrEnds ==
    ASSUME TypeOK, NEW r \in Runs, NEW ls \in LeaseTable, NEW ws \in WorkerTable, NEW S, NEW W
    PROVE  /\ SetStale(ls, S)[r] = ls[r] \/ SetStale(ls, S)[r].status # "active"
           /\ \A w \in Workers :
                 \/ IdleWorkers(ws, W)[w] = ws[w]
                 \/ IdleWorkers(ws, W)[w].lease # r
  BY ConstantsAssumption DEF SetStale, Ended, IdleWorkers, LeaseTable, WorkerTable

\* claim_task: the lease that is granted is fresh in both rows, and the reaping it
\* does on the way leaves the others as they are or ends them.
LEMMA ClaimFresh ==
    ASSUME FreshInv, NEW q \in Runs, ClaimTask(q), NEW r \in Runs
    PROVE  RowFollows(r)' /\ TouchFollows(r)'
<1>1. TypeOK /\ RowFollows(r) /\ TouchFollows(r) /\ WorkerOf[r] \in Workers
  BY Values DEF FreshInv, IInv
<1>2. /\ LeasesAfterExpiry \in LeaseTable /\ LeasesReaped \in LeaseTable
      /\ WorkersAfterExpiry \in WorkerTable /\ WorkersReaped \in WorkerTable
  BY <1>1, ReapedType
<1>3. CASE r = q
  <2>1. touch'[r] = touch[r] /\ touch[r].at = "off"
    BY <1>1, <1>3 DEF ClaimTask, TouchFollows, Unclaimed
  <2>2. leases'[r].hb = 0
    BY <1>2, <1>3 DEF ClaimTask, LeaseTable
  <2>3. workers'[WorkerOf[r]].age = 0
    BY <1>1, <1>2, <1>3 DEF ClaimTask, WorkerTable
  <2> QED
    BY <2>1, <2>2, <2>3 DEF RowFollows, TouchFollows
<1>4. CASE r # q
  <2>1. leases'[r] = LeasesReaped[r]
    BY <1>2, <1>4 DEF ClaimTask, LeaseTable
  <2>2. leases'[r] = leases[r] \/ leases'[r].status # "active"
    <3>1. LeasesReaped[r] = LeasesAfterExpiry[r] \/ LeasesReaped[r].status # "active"
      BY <1>1, <1>2, ReapingLeavesOrEnds DEF LeasesReaped
    <3>2. LeasesAfterExpiry[r] = leases[r] \/ LeasesAfterExpiry[r].status # "active"
      BY <1>1, ReapingLeavesOrEnds DEF LeasesAfterExpiry, TypeOK
    <3> QED
      BY <2>1, <3>1, <3>2
  <2>3. workers'[WorkerOf[r]] = WorkersReaped[WorkerOf[r]] \/ workers'[WorkerOf[r]].lease = q
    BY <1>1, <1>2 DEF ClaimTask, WorkerTable
  <2>4. workers'[WorkerOf[r]] = workers[WorkerOf[r]] \/ workers'[WorkerOf[r]].lease # r
    <3>1. \/ WorkersReaped[WorkerOf[r]] = WorkersAfterExpiry[WorkerOf[r]]
          \/ WorkersReaped[WorkerOf[r]].lease # r
      BY <1>1, <1>2, ReapingLeavesOrEnds DEF WorkersReaped
    <3>2. \/ WorkersAfterExpiry[WorkerOf[r]] = workers[WorkerOf[r]]
          \/ WorkersAfterExpiry[WorkerOf[r]].lease # r
      BY <1>1, ReapingLeavesOrEnds DEF WorkersAfterExpiry, TypeOK
    <3> QED
      BY <1>4, <2>3, <3>1, <3>2
  <2>5. pc'[r] = pc[r] /\ touch'[r] = touch[r]
    BY <1>1, <1>4 DEF ClaimTask, TypeOK
  <2> QED
    BY <1>1, <2>2, <2>4, <2>5, Undisturbed
<1> QED
  BY <1>3, <1>4

\* A heartbeat writes to the worker row what it wrote to the lease.
LEMMA BeatFresh ==
    ASSUME FreshInv, NEW q \in Runs, Heartbeat(q), NEW r \in Runs
    PROVE  RowFollows(r)' /\ TouchFollows(r)'
<1>1. TypeOK /\ RowFollows(r) /\ TouchFollows(r) /\ WorkerOf[r] \in Workers /\ WorkerOf[q] \in Workers
  BY Values DEF FreshInv, IInv
<1>2. UNCHANGED pc
  BY DEF Heartbeat, BeginTouch, HeartbeatLease, HeartbeatWorkerRow
<1>3. CASE r # q
  <2>1. touch'[r] = touch[r]
    BY <1>1, <1>3 DEF Heartbeat, BeginTouch, HeartbeatLease, HeartbeatWorkerRow, TypeOK, Touches
  <2>2. leases'[r] = leases[r]
    BY <1>1, <1>3 DEF Heartbeat, BeginTouch, HeartbeatLease, HeartbeatWorkerRow, TypeOK, LeaseTable
  <2>3. workers'[WorkerOf[r]] = workers[WorkerOf[r]] \/ workers'[WorkerOf[r]].lease # r
    BY <1>1, <1>3 DEF Heartbeat, BeginTouch, HeartbeatLease, HeartbeatWorkerRow, TypeOK, WorkerTable
  <2> QED
    BY <1>1, <1>2, <2>1, <2>2, <2>3, Undisturbed
<1>4. CASE r = q /\ BeginTouch(q)
  <2>1. touch[r].at = "off" /\ touch'[r].at = "lease" /\ pc[r] \in Owning
    BY <1>1, <1>4 DEF BeginTouch, TypeOK, Touches
  <2> QED
    BY <1>1, <1>4, <2>1 DEF BeginTouch, RowFollows, TouchFollows, Owning, Unclaimed
<1>5. CASE r = q /\ HeartbeatLease(q)
  <2>1. pc[r] \notin Unclaimed
    BY <1>1, <1>5 DEF HeartbeatLease, TouchFollows
  <2>2. CASE r \in Active(leases)
    <3>1. touch'[r].at = "worker" /\ touch'[r].lag = touch[r].lag
      BY <1>1, <1>5, <2>2 DEF HeartbeatLease, TypeOK, Touches
    <3>2. leases'[r].hb = Least(touch[r].lag, StaleAfter)
      BY <1>1, <1>5, <2>2 DEF HeartbeatLease, TypeOK, LeaseTable
    <3>3. Least(touch[r].lag, StaleAfter) \in Nat
      <4>1. touch[r].lag \in Nat
        BY <1>1, Saturation DEF TypeOK, Touches
      <4> QED
        BY <4>1, TimeAssumption DEF Least
    <3> QED
      BY <1>2, <2>1, <3>1, <3>2, <3>3 DEF RowFollows, TouchFollows
  <2>3. CASE r \notin Active(leases)
    BY <1>2, <1>5, <2>1, <2>3 DEF HeartbeatLease, RowFollows, TouchFollows, Active
  <2> QED
    BY <2>2, <2>3
<1>6. CASE r = q /\ HeartbeatWorkerRow(q)
  <2>1. touch'[r].at = "off"
    BY <1>1, <1>6 DEF HeartbeatWorkerRow, TypeOK, Touches, NoTouch
  <2>2. workers'[WorkerOf[r]].age = Least(touch[r].lag, StaleAfter) /\ UNCHANGED leases
    BY <1>1, <1>6 DEF HeartbeatWorkerRow, TypeOK, WorkerTable
  <2> QED
    BY <1>1, <1>6, <2>1, <2>2 DEF HeartbeatWorkerRow, RowFollows, TouchFollows, Active
<1> QED
  BY <1>3, <1>4, <1>5, <1>6 DEF Heartbeat

\* Time passes alike for the lease, the worker row and the reading in flight.
LEMMA TickFresh ==
    ASSUME FreshInv, Tick, NEW r \in Runs
    PROVE  RowFollows(r)' /\ TouchFollows(r)'
<1>1. TypeOK /\ RowFollows(r) /\ TouchFollows(r) /\ WorkerOf[r] \in Workers /\ r # NoRun
  BY Values, ConstantsAssumption DEF FreshInv, IInv
<1>2. CASE r \in Active(leases)
  <2>1. leases[r].hb \in 0..StaleAfter /\ leases'[r].hb = Least(leases[r].hb + 1, StaleAfter)
    BY <1>1, <1>2 DEF Tick, TypeOK, LeaseTable
  <2>2. /\ workers[WorkerOf[r]].age \in 0..StaleAfter
        /\ workers'[WorkerOf[r]].lease = workers[WorkerOf[r]].lease
        /\ workers[WorkerOf[r]].lease = r
              => workers'[WorkerOf[r]].age = Least(workers[WorkerOf[r]].age + 1, StaleAfter)
    BY <1>1 DEF Tick, TypeOK, WorkerTable
  <2>3. /\ touch'[r].at = touch[r].at /\ touch[r].lag \in 0..MaxLag
        /\ touch[r].at = "worker" => touch'[r].lag = Least(touch[r].lag + 1, MaxLag)
    BY <1>1 DEF Tick, TypeOK, Touches
  <2>4. workers[WorkerOf[r]].lease = r /\ workers[WorkerOf[r]].age <= leases[r].hb
          => workers'[WorkerOf[r]].age <= leases'[r].hb
    BY <2>1, <2>2, TimeAssumption DEF Least
  <2>5. touch[r].at = "worker" => Least(touch'[r].lag, StaleAfter) <= leases'[r].hb
    <3>1. touch[r].at = "worker" => Least(touch[r].lag, StaleAfter) <= leases[r].hb
      BY <1>1, <1>2 DEF TouchFollows
    <3> QED
      BY <2>1, <2>3, <3>1, TimeAssumption DEF Least, MaxLag
  <2> QED
    BY <1>1, <1>2, <2>2, <2>3, <2>4, <2>5 DEF RowFollows, TouchFollows, Tick
<1>3. CASE r \notin Active(leases)
  <2>1. leases'[r] = leases[r] /\ touch'[r].at = touch[r].at
    BY <1>1, <1>3 DEF Tick, TypeOK, LeaseTable, Touches
  <2> QED
    BY <1>1, <1>3, <2>1 DEF RowFollows, TouchFollows, Active, Tick
<1> QED
  BY <1>2, <1>3

\* A process that dies takes its heartbeats with it, and its runs are gone.
LEMMA CrashFresh ==
    ASSUME FreshInv, NEW w \in Fallible, Crash(w), NEW r \in Runs
    PROVE  RowFollows(r)' /\ TouchFollows(r)'
<1>1. TypeOK /\ RowFollows(r) /\ TouchFollows(r)
  BY DEF FreshInv, IInv
<1>2. UNCHANGED <<leases, workers>>
  BY DEF Crash
<1>3. CASE WorkerOf[r] = w /\ pc[r] # "idle"
  <2>1. pc'[r] \in Gone /\ touch'[r].at = "off"
    BY <1>1, <1>3 DEF Crash, TypeOK, Gone, Live, PCs, NoTouch
  <2> QED
    BY <2>1 DEF RowFollows, TouchFollows, Gone, Unclaimed
<1>4. CASE ~(WorkerOf[r] = w /\ pc[r] # "idle")
  <2>1. pc'[r] = pc[r] /\ touch'[r] = touch[r]
    BY <1>1, <1>4 DEF Crash, TypeOK
  <2> QED
    BY <1>1, <1>2, <2>1, Undisturbed
<1> QED
  BY <1>3, <1>4

\* A step that is no claim, no heartbeat, no crash and no tick leaves the heartbeats
\* alone, and the rows of a run as they are or ended.
LEMMA OthersLeaveOrEnd ==
    ASSUME TypeOK, [Next]_vars, NEW r \in Runs,
           \A q \in Runs : ~ClaimTask(q) /\ ~Heartbeat(q),
           \A w \in Fallible : ~Crash(w), ~Tick
    PROVE  /\ leases'[r] = leases[r] \/ leases'[r].status # "active"
           /\ touch'[r] = touch[r]
           /\ workers'[WorkerOf[r]] = workers[WorkerOf[r]] \/ workers'[WorkerOf[r]].lease # r
<1>0. leases \in LeaseTable /\ workers \in WorkerTable /\ WorkerOf[r] \in Workers /\ r # NoRun
  BY Values, ConstantsAssumption DEF TypeOK
<1>1. ASSUME UNCHANGED <<leases, workers, touch>>
      PROVE  /\ leases'[r] = leases[r] \/ leases'[r].status # "active"
             /\ touch'[r] = touch[r]
             /\ workers'[WorkerOf[r]] = workers[WorkerOf[r]] \/ workers'[WorkerOf[r]].lease # r
  BY <1>1
<1> USE <1>0
<1>2. ASSUME NEW q \in Runs, Intake(q)
      PROVE  /\ UNCHANGED <<leases, touch>>
             /\ workers'[WorkerOf[r]] = workers[WorkerOf[r]] \/ workers'[WorkerOf[r]].lease # r
  BY <1>2
  DEF Intake, RegisterTask, SelectClaim, LookupClaim, ClearClaim, RegisterWorker,
      ClaimDependencyBlocked, ClaimLeaseExists, MarkTaskBlocked, ExitBeforeStatus, WorkerTable
<1>3. ASSUME NEW q \in Runs, NEW status \in ReleaseStatuses, NEW by, ReleaseRow(q, status, by)
      PROVE  leases'[r] = leases[r] \/ leases'[r].status # "active"
  BY <1>3 DEF ReleaseRow, Ended, LeaseTable, ReleaseStatuses
<1>4. ASSUME NEW q \in Runs, Phases(q)
      PROVE  /\ UNCHANGED <<workers, touch>>
             /\ leases'[r] = leases[r] \/ leases'[r].status # "active"
  <2>1. CASE ReleaseLease(q)
    <3>1. loc[q].final \in ReleaseStatuses
      BY DEF TypeOK, RunLocals
    <3> QED
      BY <1>3, <2>1, <3>1 DEF ReleaseLease
  <2>2. CASE ~ReleaseLease(q)
    BY <1>4, <2>2
    DEF Phases, StartRun, MarkTaskActive, MarkTaskReview, RetryRepair, MarkTaskDone, FailRun
  <2> QED
    BY <2>1, <2>2
<1>5. ASSUME NEW q \in Runs, Release(q)
      PROVE  /\ UNCHANGED touch
             /\ leases'[r] = leases[r] \/ leases'[r].status # "active"
             /\ workers'[WorkerOf[r]] = workers[WorkerOf[r]] \/ workers'[WorkerOf[r]].lease # r
  <2>1. CASE CliReleaseLease(q)
    BY <1>3, <2>1, Values DEF CliReleaseLease
  <2>2. CASE ReleaseTask(q)
    BY <2>2 DEF ReleaseTask
  <2>3. CASE ReleaseWorker(q)
    BY <2>3, ReapingLeavesOrEnds DEF ReleaseWorker
  <2> QED
    BY <1>5, <2>1, <2>2, <2>3 DEF Release
<1>6. CASE ReapExpiredLeases
  BY <1>6, ReapingLeavesOrEnds DEF ReapExpiredLeases, LeasesAfterExpiry, WorkersAfterExpiry
<1>7. CASE ReapStaleWorkers
  BY <1>7, ReapingLeavesOrEnds DEF ReapStaleWorkers
<1>8. CASE Operator
  <2>1. CASE OperatorLeases
    BY <2>1, ReapingLeavesOrEnds DEF OperatorLeases
  <2>2. CASE ~OperatorLeases
    BY <1>8, <2>2
    DEF Operator, OperatorRegister, OperatorReclaim, OperatorState, OperatorUnclaim
  <2> QED
    BY <2>1, <2>2
<1>9. CASE UNCHANGED vars
  BY <1>1, <1>9 DEF vars
<1> QED
  BY <1>2, <1>4, <1>5, <1>6, <1>7, <1>8, <1>9 DEF Next

\* Every release begins by ending its lease, and an ended lease stays ended.
LEMMA ReleaseEndedStep ==
    ASSUME IInv, [Next]_vars, NEW r \in Runs, ReleaseEnded(r)
    PROVE  ReleaseEnded(r)'
<1>1. leases[r].status \in ReleaseStatuses => leases'[r].status \in ReleaseStatuses
  BY LeaseStep DEF Grants, OnlyEnds, ReleaseStatuses
<1>2. rel \in Releases /\ leases \in LeaseTable /\ loc \in RunLocals
  BY DEF IInv, TypeOK
<1>3. ASSUME NEW q \in Runs, NEW status \in ReleaseStatuses, NEW by, ReleaseRow(q, status, by)
      PROVE  rel'[r] = rel[r] \/ leases'[r].status \in ReleaseStatuses
  BY <1>2, <1>3 DEF ReleaseRow, Releases, LeaseTable, Ended
<1>4. rel'[r].at # "off" => rel[r].at # "off" \/ leases'[r].status \in ReleaseStatuses
  <2>1. ASSUME NEW q \in Runs, Intake(q) \/ Heartbeat(q)
        PROVE  UNCHANGED rel
    BY <2>1
    DEF Intake, RegisterTask, SelectClaim, LookupClaim, ClearClaim, RegisterWorker,
        ClaimDependencyBlocked, ClaimLeaseExists, ClaimTask, MarkTaskBlocked, ExitBeforeStatus,
        Heartbeat, BeginTouch, HeartbeatLease, HeartbeatWorkerRow
  <2>2. ASSUME NEW q \in Runs, Phases(q)
        PROVE  rel'[r] = rel[r] \/ leases'[r].status \in ReleaseStatuses
    <3>1. loc[q].final \in ReleaseStatuses
      BY <1>2 DEF RunLocals
    <3> QED
      BY <1>3, <2>2, <3>1
      DEF Phases, StartRun, MarkTaskActive, MarkTaskReview, RetryRepair, MarkTaskDone, FailRun,
          ReleaseLease
  <2>3. ASSUME NEW q \in Runs, CliReleaseLease(q)
        PROVE  rel'[r] = rel[r] \/ leases'[r].status \in ReleaseStatuses
    BY <1>3, <2>3, Values DEF CliReleaseLease
  <2>4. ASSUME NEW q \in Runs, ReleaseTask(q) \/ ReleaseWorker(q)
        PROVE  rel'[r].at # "off" => rel[r].at # "off"
    BY <1>2, <2>4 DEF ReleaseTask, ReleaseWorker, NoRel, Releases
  <2>5. ASSUME NEW w \in Fallible, Crash(w)
        PROVE  rel'[r].at # "off" => rel[r].at # "off"
    BY <2>5 DEF Crash, NoRel
  <2>6. ASSUME ReapExpiredLeases \/ ReapStaleWorkers \/ Operator \/ Tick \/ UNCHANGED vars
        PROVE  UNCHANGED rel
    BY <2>6
    DEF ReapExpiredLeases, ReapStaleWorkers, Operator, OperatorRegister, OperatorReclaim,
        OperatorState, OperatorLeases, OperatorUnclaim, Tick, vars
  <2> QED
    BY <2>1, <2>2, <2>3, <2>4, <2>5, <2>6 DEF Next, Release
<1> QED
  BY <1>1, <1>4 DEF ReleaseEnded

\* The inductive step for the freshness of worker rows.
LEMMA FreshStep ==
    ASSUME FreshInv, [Next]_vars
    PROVE  FreshInv'
<1>1. IInv'
  BY InductiveStep DEF FreshInv
<1>2. ASSUME NEW r \in Runs
      PROVE  RowFollows(r)' /\ TouchFollows(r)'
  <2>1. CASE \E q \in Runs : ClaimTask(q) \/ Heartbeat(q)
    BY <2>1, ClaimFresh, BeatFresh
  <2>2. CASE \E w \in Fallible : Crash(w)
    BY <2>2, CrashFresh
  <2>3. CASE Tick
    BY <2>3, TickFresh
  <2>4. CASE /\ \A q \in Runs : ~ClaimTask(q) /\ ~Heartbeat(q)
             /\ \A w \in Fallible : ~Crash(w)
             /\ ~Tick
    <3>1. TypeOK /\ RowFollows(r) /\ TouchFollows(r)
      BY DEF FreshInv, IInv
    <3>2. pc[r] \in Gone => pc'[r] \in Gone
      BY <3>1, GoneStays
    <3>3. pc'[r] \in Unclaimed => pc[r] \in Unclaimed
      BY <3>1, StaysUnclaimed
    <3> QED
      BY <2>4, <3>1, <3>2, <3>3, OthersLeaveOrEnd, Undisturbed
  <2> QED
    BY <2>1, <2>2, <2>3, <2>4
<1>3. \A r \in Runs : ReleaseEnded(r)'
  BY ReleaseEndedStep DEF FreshInv
<1> QED
  BY <1>1, <1>2, <1>3 DEF FreshInv

\* The reapers spare a lease with time left whose heartbeat is fresh and whose
\* worker row was seen as lately.
LEMMA ReapersSpare ==
    ASSUME NEW ls, NEW ws \in WorkerTable, NEW r \in Runs, r \in SilentLeases(ls, ws),
           ls[r].hb < StaleAfter, ls[r].hb \in Nat
    PROVE  ws[WorkerOf[r]].lease = r /\ ~(ws[WorkerOf[r]].age <= ls[r].hb)
<1>1. PICK w \in SilentOwners(ls, ws) : r = ws[w].lease
  BY DEF SilentLeases
<1>2. w = WorkerOf[r] /\ ws[w].age = StaleAfter
  BY <1>1 DEF SilentOwners, OwnsActive, StaleRows
<1> QED
  BY <1>1, <1>2, TimeAssumption

\* A lease of a live run with a fresh heartbeat and time left is reaped only while
\* its heartbeat is between the lease and the worker row, by whichever reaper and
\* for any hosts and processes.
THEOREM BeatingRunsKeepLease == Spec => FreshLeaseKept
<1>1. ASSUME Init
      PROVE  FreshInv
  <2>1. \A r \in Runs : RowFollows(r) /\ TouchFollows(r) /\ ReleaseEnded(r)
    BY <1>1, ConstantsAssumption
    DEF Init, RowFollows, TouchFollows, ReleaseEnded, Active, Ended, NoTouch, NoRel
  <2> QED
    BY <1>1, <2>1, InductiveInit DEF FreshInv
<1>2. ASSUME FreshInv, [Next]_vars, NEW r \in Active(leases),
             leases'[r].status = "stale", leases[r].left > 0, leases[r].hb < StaleAfter,
             op' = op, rel' = rel
      PROVE  pc[r] \in Gone \/ touch[r].at = "worker"
  <2>1. /\ TypeOK /\ RowFollows(r) /\ r \in Runs /\ leases \in LeaseTable /\ workers \in WorkerTable
        /\ leases[r].status = "active" /\ leases[r].hb \in Nat /\ leases[r].left \in Nat
    BY <1>2, TimeAssumption DEF FreshInv, IInv, Active, TypeOK, LeaseTable
  <2>2. r \notin Expired(leases)
    BY <1>2, <2>1 DEF Expired
  <2>3. ASSUME r \in SilentLeases(leases, workers)
        PROVE  pc[r] \in Gone \/ touch[r].at = "worker"
    BY <1>2, <2>1, <2>3, ReapersSpare DEF RowFollows
  <2>4. CASE ReapExpiredLeases
    BY <1>2, <2>1, <2>2, <2>4 DEF ReapExpiredLeases, LeasesAfterExpiry, SetStale
  <2>5. CASE ReapStaleWorkers
    BY <1>2, <2>1, <2>3, <2>5 DEF ReapStaleWorkers, SetStale
  <2>6. ASSUME NEW q \in Runs, ClaimTask(q)
        PROVE  pc[r] \in Gone \/ touch[r].at = "worker"
    <3>1. LeasesReaped \in LeaseTable
      BY <2>1, ReapedType
    <3>2. LeasesAfterExpiry[r] = leases[r]
      BY <2>1, <2>2 DEF LeasesAfterExpiry, SetStale
    <3>3. r \in SilentAfterExpiry
      BY <1>2, <2>1, <2>6, <3>1, <3>2 DEF ClaimTask, LeasesReaped, SetStale, LeaseTable
    <3>4. WorkersAfterExpiry \in WorkerTable
      BY <2>1, ReapedType
    <3>5. /\ WorkersAfterExpiry[WorkerOf[r]].lease = r
          /\ ~(WorkersAfterExpiry[WorkerOf[r]].age <= leases[r].hb)
      BY <1>2, <2>1, <3>2, <3>3, <3>4, ReapersSpare DEF SilentAfterExpiry
    <3>6. WorkersAfterExpiry[WorkerOf[r]] = workers[WorkerOf[r]]
      BY <2>1, <3>5, Values, ReapingLeavesOrEnds DEF WorkersAfterExpiry
    <3> QED
      BY <1>2, <2>1, <3>5, <3>6 DEF RowFollows
  <2>7. ASSUME NEW q \in Runs, NEW status \in ReleaseStatuses, NEW by, ReleaseRow(q, status, by)
        PROVE  leases'[r].status = "active"
    <3>1. CASE q \in Active(leases)
      <4>1. rel[q].at = "off" /\ rel \in Releases
        BY <1>2, <2>1, <3>1 DEF FreshInv, ReleaseEnded, Active, ReleaseStatuses, TypeOK, Releases
      <4>2. rel'[q].at = "task"
        BY <2>7, <3>1, <4>1 DEF ReleaseRow, Releases
      <4> QED
        BY <1>2, <4>1, <4>2
    <3>2. CASE q \notin Active(leases)
      BY <2>1, <2>7, <3>2 DEF ReleaseRow
    <3> QED
      BY <3>1, <3>2
  <2>8. CASE Operator
    <3>1. ~OperatorLeases
      BY <1>2, <2>1 DEF OperatorLeases, TypeOK, OperatorCall
    <3> QED
      BY <1>2, <2>1, <2>8, <3>1
      DEF Operator, OperatorRegister, OperatorReclaim, OperatorState, OperatorUnclaim
  <2>9. CASE Tick
    BY <1>2, <2>1, <2>9 DEF Tick, LeaseTable
  <2>10. ASSUME NEW w \in Fallible, Crash(w)
         PROVE  UNCHANGED leases
    BY <2>10 DEF Crash
  <2>11. ASSUME NEW q \in Runs, Heartbeat(q)
         PROVE  leases'[r].status = "active"
    BY <2>1, <2>11 DEF Heartbeat, BeginTouch, HeartbeatLease, HeartbeatWorkerRow, LeaseTable
  <2>12. ASSUME NEW q \in Runs, Intake(q), ~ClaimTask(q)
         PROVE  UNCHANGED leases
    BY <2>12
    DEF Intake, RegisterTask, SelectClaim, LookupClaim, ClearClaim, RegisterWorker,
        ClaimDependencyBlocked, ClaimLeaseExists, MarkTaskBlocked, ExitBeforeStatus
  <2>13. ASSUME NEW q \in Runs, Phases(q)
         PROVE  leases'[r].status = "active"
    <3>1. loc[q].final \in ReleaseStatuses
      BY <2>1 DEF TypeOK, RunLocals
    <3> QED
      BY <2>1, <2>7, <2>13, <3>1
      DEF Phases, StartRun, MarkTaskActive, MarkTaskReview, RetryRepair, MarkTaskDone, FailRun,
          ReleaseLease
  <2>14. ASSUME NEW q \in Runs, Release(q)
         PROVE  leases'[r].status = "active"
    BY <2>1, <2>7, <2>14, Values DEF Release, CliReleaseLease, ReleaseTask, ReleaseWorker
  <2>15. CASE UNCHANGED vars
    BY <1>2, <2>1, <2>15 DEF vars
  <2> QED
    BY <1>2, <2>1, <2>4, <2>5, <2>6, <2>8, <2>9, <2>10, <2>11, <2>12, <2>13, <2>14, <2>15 DEF Next
<1>3. ASSUME FreshInv, [Next]_vars
      PROVE  [\A r \in Active(leases) :
                  /\ leases'[r].status = "stale"
                  /\ leases[r].left > 0
                  /\ leases[r].hb < StaleAfter
                  /\ op' = op /\ rel' = rel
                  => \/ pc[r] \in {"exited", "crashed"}
                     \/ touch[r].at = "worker"]_vars
  BY <1>2, <1>3 DEF Gone
<1> QED
  BY <1>1, <1>3, FreshStep, PTL DEF Spec, FreshLeaseKept
=============================================================================
