--------------------------- MODULE SchedulerProofs ---------------------------
(* What one plan admits is within the limits and free of overlap, for any    *)
(* number of dispatches; and, for one dispatch at a time, so is what the     *)
(* runs it starts hold together.                                             *)
EXTENDS Scheduler, FiniteSetTheorems, TLAPS

(* The part of the type invariant the plan needs.                            *)
PlanType ==
  /\ at \in [Dispatches -> {"idle", "active", "coders", "plan", "runs"}]
  /\ queue \in [Dispatches -> SUBSET Tasks]
  /\ seen \in [Dispatches -> SUBSET Tasks]
  /\ slots \in [Dispatches -> Nat]
  /\ turn \in [Dispatches -> Nat]
  /\ adm \in [Dispatches -> SUBSET Tasks]

(* A dispatch has admitted nothing before it has counted its slots.          *)
Fresh == \A d \in Dispatches : at[d] \in {"idle", "active", "coders"} => adm[d] = {}

(* The slots are what the tasks seen active leave.                           *)
SlotsRemain ==
  \A d \in Dispatches : at[d] \in {"plan", "runs"} /\ slots[d] > 0 =>
      /\ Cardinality(seen[d]) + slots[d] <= MaxActive
      /\ MaxWorkers > 0 => Cardinality(seen[d]) + slots[d] <= MaxWorkers

SlotsRespected == \A d \in Dispatches : Cardinality(adm[d]) <= slots[d] \/ adm[d] = {}

(* The limits for a task's own project and repository.                       *)
SharesRespected ==
  \A d \in Dispatches : \A t \in adm[d] :
    /\ Cardinality(OfProject(InUse(d), t)) <= MaxPerProject
    /\ Cardinality(OfRepo(InUse(d), t)) <= MaxPerRepo

PlanInv ==
  PlanType /\ Fresh /\ SlotsRemain /\ SlotsRespected /\ SharesRespected /\ PlanDisjoint

-----------------------------------------------------------------------------
(* Sets of tasks are finite and their size is a number.                      *)
LEMMA Sizes ==
  ASSUME NEW S \in SUBSET Tasks
  PROVE  IsFiniteSet(S) /\ Cardinality(S) \in Nat
BY SchedulerAssumption, FS_Subset, FS_CardinalityType

(* Adding a task adds one at most, and exactly one if it is new.             *)
LEMMA OneMore ==
  ASSUME NEW S \in SUBSET Tasks, NEW t \in Tasks
  PROVE  /\ Cardinality(S \union {t}) <= Cardinality(S) + 1
         /\ t \notin S => Cardinality(S \union {t}) = Cardinality(S) + 1
<1>1. IsFiniteSet(S) /\ Cardinality(S) \in Nat
  BY Sizes
<1>2. CASE t \in S
  <2>1. S \union {t} = S
    BY <1>2
  <2>2. Cardinality(S \union {t}) = Cardinality(S)
    BY <2>1
  <2> QED BY <1>1, <1>2, <2>2, SMT
<1>3. CASE t \notin S
  <2>1. Cardinality(S \union {t}) = Cardinality(S) + 1
    BY <1>1, <1>3, FS_AddElement
  <2> QED BY <1>1, <1>3, <2>1, SMT
<1> QED BY <1>2, <1>3

(* Two sets of tasks with nothing in common add up.                          *)
LEMMA Apart ==
  ASSUME NEW S \in SUBSET Tasks, NEW T \in SUBSET Tasks, S \intersect T = {}
  PROVE  Cardinality(S \union T) = Cardinality(S) + Cardinality(T)
<1>1. IsFiniteSet(S) /\ IsFiniteSet(T) /\ Cardinality(S) \in Nat /\ Cardinality(T) \in Nat
  BY Sizes
<1>2. Cardinality(S \intersect T) = 0
  BY FS_EmptySet
<1>3. Cardinality(S \union T) = Cardinality(S) + Cardinality(T) - Cardinality(S \intersect T)
  BY <1>1, FS_Union
<1> QED BY <1>1, <1>2, <1>3

(* Overlap does not depend on the order of the paths.                        *)
LEMMA OverlapSymmetric ==
  ASSUME NEW l \in Seq(STRING), NEW r \in Seq(STRING), PathsOverlap(l, r)
  PROVE  PathsOverlap(r, l)
<1>1. Lesser(Len(l), Len(r)) = Lesser(Len(r), Len(l))
  BY DEF Lesser
<1> QED BY <1>1 DEF PathsOverlap

(* A path overlaps itself.                                                   *)
LEMMA OverlapReflexive ==
  ASSUME NEW l \in Seq(STRING) \ {<< >>}
  PROVE  PathsOverlap(l, l)
BY DEF PathsOverlap

(* Conflict does not depend on the order of the tasks.                       *)
LEMMA ConflictSymmetric ==
  ASSUME NEW t \in Tasks, NEW u \in Tasks, Conflict(t, u)
  PROVE  Conflict(u, t)
<1>1. CASE ScopesOf[t] = {} \/ ScopesOf[u] = {}
  BY <1>1 DEF Conflict
<1>2. CASE \E l \in ScopesOf[t], r \in ScopesOf[u] : PathsOverlap(l, r)
  <2>1. PICK l \in ScopesOf[t], r \in ScopesOf[u] : PathsOverlap(l, r)
    BY <1>2
  <2>2. l \in Seq(STRING) /\ r \in Seq(STRING)
    BY SchedulerAssumption
  <2>3. PathsOverlap(r, l)
    BY <2>1, <2>2, OverlapSymmetric
  <2> QED BY <2>3 DEF Conflict
<1> QED BY <1>1, <1>2 DEF Conflict

(* A task conflicts with itself.                                             *)
LEMMA ConflictReflexive ==
  ASSUME NEW t \in Tasks
  PROVE  Conflict(t, t)
<1>1. CASE ScopesOf[t] = {}
  BY <1>1 DEF Conflict
<1>2. CASE ScopesOf[t] # {}
  <2>1. PICK l \in ScopesOf[t] : TRUE
    BY <1>2
  <2>2. l \in Seq(STRING) \ {<< >>}
    BY SchedulerAssumption
  <2>3. PathsOverlap(l, l)
    BY <2>2, OverlapReflexive
  <2> QED BY <2>3 DEF Conflict
<1> QED BY <1>1, <1>2

(* The slots that remain are a number and leave the limits what is in use.   *)
LEMMA SlotsBounded ==
  ASSUME NEW a \in Nat, NEW c \in Nat
  PROVE  /\ RemainingSlots(a, c) \in Nat
         /\ RemainingSlots(a, c) > 0 =>
              /\ a + RemainingSlots(a, c) <= MaxActive
              /\ MaxWorkers > 0 => a + RemainingSlots(a, c) <= MaxWorkers
BY SchedulerAssumption DEF RemainingSlots, Less, Lesser, Greater

(* The number of coder runs is a number.                                     *)
LEMMA CoderRefsCounted == Cardinality(CoderRefs) \in Nat
<1>1. MaxCoders \in Nat /\ IsFiniteSet(Tasks)
  BY SchedulerAssumption
<1>2. IsFiniteSet(1..MaxCoders)
  BY <1>1, FS_Interval
<1>3. IsFiniteSet(Tasks \X (1..MaxCoders))
  BY <1>1, <1>2, FS_Product
<1>4. CoderRefs \subseteq Tasks \X (1..MaxCoders)
  BY DEF CoderRefs
<1> QED BY <1>3, <1>4, FS_Subset, FS_CardinalityType

-----------------------------------------------------------------------------
(* Idle dispatches satisfy the invariant.                                    *)
LEMMA PlanInit == Init => PlanInv
<1> SUFFICES ASSUME Init PROVE PlanInv
  OBVIOUS
<1>1. PlanType /\ Fresh /\ SlotsRemain
  BY DEF Init, PlanType, Fresh, SlotsRemain
<1>2. \A d \in Dispatches : adm[d] = {}
  BY DEF Init
<1> QED BY <1>1, <1>2 DEF PlanInv, SlotsRespected, SharesRespected, PlanDisjoint

(* The three reads: nothing is admitted yet.                                 *)
LEMMA ReadStep ==
  ASSUME PlanInv, NEW d \in Dispatches, ListQueued(d) \/ ListActive(d) \/ ListCoders(d)
  PROVE  PlanInv'
<1> USE DEF PlanInv
<1>1. adm' = adm /\ adm[d] = {}
  BY DEF ListQueued, ListActive, ListCoders, Fresh
<1>2. PlanType'
  <2>1. CASE ListQueued(d)
    <3>1. PICK S \in SUBSET Tasks : queue' = [queue EXCEPT ![d] = S]
      BY <2>1 DEF ListQueued, Kept, InState
    <3> QED BY <2>1, <3>1 DEF ListQueued, PlanType
  <2>2. CASE ListActive(d)
    <3>1. PICK S \in SUBSET Tasks : seen' = [seen EXCEPT ![d] = S]
      BY <2>2 DEF ListActive, Counted, Kept, InState
    <3> QED BY <2>2, <3>1 DEF ListActive, PlanType
  <2>3. CASE ListCoders(d)
    <3>1. PICK S \in SUBSET Tasks : queue' = [queue EXCEPT ![d] = S]
      BY <2>3 DEF ListCoders, Admissible, PlanType
    <3>2. Cardinality(seen[d]) \in Nat
      BY Sizes DEF PlanType
    <3>3. RemainingSlots(Cardinality(seen[d]), Cardinality(CoderRefs)) \in Nat
      BY <3>2, CoderRefsCounted, SlotsBounded
    <3> QED BY <2>3, <3>1, <3>3 DEF ListCoders, PlanType
  <2> QED BY <2>1, <2>2, <2>3
<1>3. \A e \in Dispatches : e # d => at'[e] = at[e] /\ seen'[e] = seen[e] /\ slots'[e] = slots[e]
  BY DEF ListQueued, ListActive, ListCoders, PlanType
<1>4. Fresh'
  BY <1>1, <1>3 DEF Fresh
<1>5. SlotsRemain'
  <2> SUFFICES ASSUME NEW e \in Dispatches, at'[e] \in {"plan", "runs"}, slots'[e] > 0
               PROVE  /\ Cardinality(seen'[e]) + slots'[e] <= MaxActive
                      /\ MaxWorkers > 0 => Cardinality(seen'[e]) + slots'[e] <= MaxWorkers
    BY DEF SlotsRemain
  <2>1. CASE e # d
    BY <1>3, <2>1 DEF SlotsRemain
  <2>2. CASE e = d
    <3>1. ListCoders(d)
      BY <2>2 DEF ListQueued, ListActive, PlanType
    <3>2. Cardinality(seen[d]) \in Nat
      BY Sizes DEF PlanType
    <3>3. seen' = seen /\ slots'[d] = RemainingSlots(Cardinality(seen[d]), Cardinality(CoderRefs))
      BY <3>1 DEF ListCoders, PlanType
    <3> QED BY <2>2, <3>2, <3>3, CoderRefsCounted, SlotsBounded
  <2> QED BY <2>1, <2>2
<1>6. SlotsRespected'
  BY <1>1, <1>3 DEF SlotsRespected
<1>7. SharesRespected' /\ PlanDisjoint'
  BY <1>1, <1>3 DEF SharesRespected, PlanDisjoint, InUse, OfProject, OfRepo
<1> QED BY <1>2, <1>4, <1>5, <1>6, <1>7

(* A candidate is dropped, or admitted because it fits.                      *)
LEMMA ConsiderStep ==
  ASSUME PlanInv, NEW d \in Dispatches, NEW t \in Tasks, Consider(d, t)
  PROVE  PlanInv'
<1> USE DEF PlanInv
<1>1. /\ at' = at /\ seen' = seen /\ slots' = slots
      /\ at[d] = "plan" /\ Cardinality(adm[d]) < slots[d]
      /\ \A e \in Dispatches : e # d => adm'[e] = adm[e]
  BY DEF Consider, Candidate, PlanType
<1>2. PlanType'
  <2>1. ProjectOf[t] \in Nat
    BY SchedulerAssumption
  <2> QED BY <2>1 DEF Consider, PlanType
<1>3. Fresh' /\ SlotsRemain'
  BY <1>1 DEF Fresh, SlotsRemain
<1>4. CASE ~Fits(d, t)
  <2>1. adm' = adm
    BY <1>4 DEF Consider, PlanType
  <2> QED BY <1>1, <1>2, <1>3, <2>1
          DEF SlotsRespected, SharesRespected, PlanDisjoint, InUse, OfProject, OfRepo
<1>5. CASE Fits(d, t)
  <2>1. adm'[d] = adm[d] \union {t}
    BY <1>5 DEF Consider, PlanType
  <2>2. adm[d] \in SUBSET Tasks /\ seen[d] \in SUBSET Tasks /\ InUse(d) \in SUBSET Tasks
    BY DEF PlanType, InUse
  <2>3. InUse(d)' = InUse(d) \union {t} /\ \A e \in Dispatches : e # d => InUse(e)' = InUse(e)
    BY <1>1, <2>1 DEF InUse
  <2>4. t \notin InUse(d)
    BY <1>5, ConflictReflexive DEF Fits
  <2>5. SlotsRespected'
    <3>1. Cardinality(adm[d] \union {t}) = Cardinality(adm[d]) + 1
      BY <2>2, <2>4, OneMore DEF InUse
    <3>2. Cardinality(adm[d]) \in Nat /\ slots[d] \in Nat
      BY <2>2, Sizes DEF PlanType
    <3>3. Cardinality(adm'[d]) <= slots'[d]
      BY <1>1, <2>1, <3>1, <3>2
    <3> QED BY <1>1, <3>3 DEF SlotsRespected
  <2>6. SharesRespected'
    <3> SUFFICES ASSUME NEW e \in Dispatches, NEW u \in adm'[e]
                 PROVE  /\ Cardinality(OfProject(InUse(e)', u)) <= MaxPerProject
                        /\ Cardinality(OfRepo(InUse(e)', u)) <= MaxPerRepo
      BY DEF SharesRespected, OfProject, OfRepo
    <3>1. CASE e # d
      BY <1>1, <2>3, <3>1 DEF SharesRespected
    <3>2. CASE e = d
      <4> u \in Tasks
        BY <2>1, <2>2, <3>2
      <4>1. OfProject(InUse(d), t) \in SUBSET Tasks /\ OfRepo(InUse(d), t) \in SUBSET Tasks
        BY <2>2 DEF OfProject, OfRepo
      <4>2. /\ Cardinality(OfProject(InUse(d), t)) \in Nat
            /\ Cardinality(OfRepo(InUse(d), t)) \in Nat
        BY <4>1, Sizes
      <4>3. /\ Cardinality(OfProject(InUse(d), t) \union {t}) <= MaxPerProject
            /\ Cardinality(OfRepo(InUse(d), t) \union {t}) <= MaxPerRepo
        <5>1. /\ Cardinality(OfProject(InUse(d), t)) < MaxPerProject
              /\ Cardinality(OfRepo(InUse(d), t)) < MaxPerRepo
          BY <1>5 DEF Fits
        <5>2. /\ Cardinality(OfProject(InUse(d), t) \union {t})
                    = Cardinality(OfProject(InUse(d), t)) + 1
              /\ Cardinality(OfRepo(InUse(d), t) \union {t})
                    = Cardinality(OfRepo(InUse(d), t)) + 1
          BY <2>4, <4>1, OneMore DEF OfProject, OfRepo
        <5>3. MaxPerProject \in Nat /\ MaxPerRepo \in Nat
          BY SchedulerAssumption
        <5> QED BY <4>2, <5>1, <5>2, <5>3
      <4>4. Cardinality(OfProject(InUse(d) \union {t}, u)) <= MaxPerProject
        <5>1. CASE ProjectOf[u] = ProjectOf[t]
          <6>1. OfProject(InUse(d) \union {t}, u) = OfProject(InUse(d), t) \union {t}
            BY <5>1 DEF OfProject
          <6> QED BY <4>3, <6>1
        <5>2. CASE ProjectOf[u] # ProjectOf[t]
          <6>1. OfProject(InUse(d) \union {t}, u) = OfProject(InUse(d), u)
            BY <5>2 DEF OfProject
          <6>2. u \in adm[d]
            BY <2>1, <3>2, <5>2
          <6> QED BY <6>1, <6>2 DEF SharesRespected
        <5> QED BY <5>1, <5>2
      <4>5. Cardinality(OfRepo(InUse(d) \union {t}, u)) <= MaxPerRepo
        <5>1. CASE RepoOf[u] = RepoOf[t]
          <6>1. OfRepo(InUse(d) \union {t}, u) = OfRepo(InUse(d), t) \union {t}
            BY <5>1 DEF OfRepo
          <6> QED BY <4>3, <6>1
        <5>2. CASE RepoOf[u] # RepoOf[t]
          <6>1. OfRepo(InUse(d) \union {t}, u) = OfRepo(InUse(d), u)
            BY <5>2 DEF OfRepo
          <6>2. u \in adm[d]
            BY <2>1, <3>2, <5>2
          <6> QED BY <6>1, <6>2 DEF SharesRespected
        <5> QED BY <5>1, <5>2
      <4> QED BY <2>3, <3>2, <4>4, <4>5
    <3> QED BY <3>1, <3>2
  <2>7. PlanDisjoint'
    <3> SUFFICES ASSUME NEW e \in Dispatches, NEW u \in adm'[e]
                 PROVE  /\ u \notin seen'[e]
                        /\ \A v \in InUse(e)' \ {u} : ~Conflict(u, v)
      BY DEF PlanDisjoint, Conflict
    <3>1. CASE e # d
      BY <1>1, <2>3, <3>1 DEF PlanDisjoint
    <3>2. CASE e = d /\ u = t
      BY <1>1, <1>5, <2>3, <2>4, <3>2 DEF Fits, InUse
    <3>3. CASE e = d /\ u # t
      <4>1. u \in adm[d] /\ u \in Tasks /\ u \in InUse(d)
        BY <2>1, <2>2, <3>3 DEF InUse
      <4>2. ~Conflict(t, u)
        BY <1>5, <4>1 DEF Fits
      <4>3. ~Conflict(u, t)
        BY <4>1, <4>2, ConflictSymmetric
      <4> QED BY <1>1, <2>3, <3>3, <4>1, <4>3 DEF PlanDisjoint
    <3> QED BY <3>1, <3>2, <3>3
  <2> QED BY <1>2, <1>3, <2>5, <2>6, <2>7
<1> QED BY <1>4, <1>5

(* Launching keeps the plan; the end of the dispatch forgets it.             *)
LEMMA LaunchStep ==
  ASSUME PlanInv, NEW d \in Dispatches, Launch(d) \/ EndDispatch(d)
  PROVE  PlanInv'
<1> USE DEF PlanInv
<1>1. PlanType'
  BY DEF Launch, EndDispatch, PlanType
<1>2. /\ \A e \in Dispatches : e # d => /\ at'[e] = at[e] /\ seen'[e] = seen[e]
                                       /\ slots'[e] = slots[e] /\ adm'[e] = adm[e]
      /\ \/ at[d] = "plan" /\ at'[d] = "runs" /\ seen' = seen /\ slots' = slots /\ adm' = adm
         \/ at'[d] = "idle" /\ adm'[d] = {}
  BY DEF Launch, EndDispatch, PlanType
<1>3. Fresh' /\ SlotsRemain' /\ SlotsRespected'
  BY <1>2 DEF Fresh, SlotsRemain, SlotsRespected
<1>4. \A e \in Dispatches : adm'[e] = {} \/ (adm'[e] = adm[e] /\ seen'[e] = seen[e])
  BY <1>2
<1>5. SharesRespected'
  BY <1>4 DEF SharesRespected, InUse, OfProject, OfRepo
<1>6. PlanDisjoint'
  BY <1>4 DEF PlanDisjoint, InUse, Conflict
<1> QED BY <1>1, <1>3, <1>5, <1>6

(* What leaves the plans alone leaves the invariant alone.                   *)
LEMMA PlanKept ==
  ASSUME PlanInv, UNCHANGED plan
  PROVE  PlanInv'
<1>1. at' = at /\ queue' = queue /\ seen' = seen /\ slots' = slots /\ turn' = turn /\ adm' = adm
  BY DEF plan
<1> QED BY <1>1 DEF PlanInv, PlanType, Fresh, SlotsRemain, SlotsRespected, SharesRespected,
                    PlanDisjoint, InUse, OfProject, OfRepo, Conflict

(* The inductive step for the plans.                                         *)
LEMMA PlanNext == PlanInv /\ [Next]_vars => PlanInv'
<1> SUFFICES ASSUME PlanInv, [Next]_vars PROVE PlanInv'
  OBVIOUS
<1>1. ASSUME NEW d \in Dispatches, Planning(d) PROVE PlanInv'
  BY <1>1, ReadStep, ConsiderStep, LaunchStep DEF Planning
<1>2. ASSUME NEW d \in Dispatches, NEW t \in Tasks, Running(d, t) PROVE PlanInv'
  <2>1. UNCHANGED plan
    BY <1>2 DEF Running, StartFails, RegisterTask, Claiming, ClaimDependencyBlocked,
                ClaimLeaseExists, ClaimTask, MarkTask, EnterCoder, Ending, Finish, Lapse
  <2> QED BY <2>1, PlanKept
<1>3. ASSUME NEW t \in Tasks, Reconcile(t) \/ Requeue(t) PROVE PlanInv'
  <2>1. UNCHANGED plan
    BY <1>3 DEF Reconcile, ReconcileCoderRun, Requeue
  <2> QED BY <2>1, PlanKept
<1>4. CASE UNCHANGED vars
  <2>1. UNCHANGED plan
    BY <1>4 DEF vars, plan
  <2> QED BY <2>1, PlanKept
<1> QED BY <1>1, <1>2, <1>3, <1>4 DEF Next

(* Every plan keeps the invariant, in every execution.                       *)
THEOREM PlanInvariance == Spec => []PlanInv
BY PlanInit, PlanNext, PTL DEF Spec

(* No plan admits a task whose repository or paths another task of the plan, *)
(* or one the plan saw active, touches: plan_task_admissions, for any number *)
(* of dispatches, tasks, projects and limits.                                *)
THEOREM NoOverlap == Spec => []PlanDisjoint
<1>1. PlanInv => PlanDisjoint
  BY DEF PlanInv
<1> QED BY <1>1, PlanInvariance, PTL

(* The invariant implies the limits.                                         *)
LEMMA WithinLimits == PlanInv => PlanWithinLimits
<1> SUFFICES ASSUME PlanInv, NEW d \in Dispatches, NEW t \in adm[d]
             PROVE  /\ Cardinality(InUse(d)) <= MaxActive
                    /\ MaxWorkers > 0 => Cardinality(InUse(d)) <= MaxWorkers
                    /\ Cardinality(OfProject(InUse(d), t)) <= MaxPerProject
                    /\ Cardinality(OfRepo(InUse(d), t)) <= MaxPerRepo
  BY DEF PlanWithinLimits
<1> USE DEF PlanInv
<1>1. adm[d] \in SUBSET Tasks /\ seen[d] \in SUBSET Tasks /\ slots[d] \in Nat
  BY DEF PlanType
<1>2. adm[d] \intersect seen[d] = {}
  BY DEF PlanDisjoint
<1>3. Cardinality(InUse(d)) = Cardinality(seen[d]) + Cardinality(adm[d])
  BY <1>1, <1>2, Apart DEF InUse
<1>4. Cardinality(seen[d]) \in Nat /\ Cardinality(adm[d]) \in Nat
  BY <1>1, Sizes
<1>5. Cardinality(adm[d]) # 0
  BY <1>1, Sizes, FS_EmptySet
<1>6. at[d] \in {"plan", "runs"} /\ Cardinality(adm[d]) <= slots[d]
  BY DEF Fresh, SlotsRespected, PlanType
<1>7. /\ Cardinality(seen[d]) + slots[d] <= MaxActive
      /\ MaxWorkers > 0 => Cardinality(seen[d]) + slots[d] <= MaxWorkers
  BY <1>1, <1>4, <1>5, <1>6 DEF SlotsRemain
<1>8. MaxActive \in Nat /\ MaxWorkers \in Nat
  BY SchedulerAssumption
<1> QED BY <1>1, <1>3, <1>4, <1>6, <1>7, <1>8 DEF SharesRespected

(* Every plan stays within max_active_tasks, max_concurrent_worker_runs and  *)
(* the limits per project and per repository, counting what it saw active.   *)
THEOREM Limits == Spec => []PlanWithinLimits
BY WithinLimits, PlanInvariance, PTL

-----------------------------------------------------------------------------
(* Who holds a lease is working on it, and works because it was admitted.    *)
RunType == lease \in [Tasks -> Dispatches \union {NoOne}] /\ run \in [Dispatches -> [Tasks -> Stages]]

HoldersWork ==
  \A t \in Tasks : lease[t] # NoOne => run[lease[t]][t] \in {"working", "coder"}

RunsAdmitted ==
  \A d \in Dispatches, t \in Tasks : run[d][t] # "none" => at[d] = "runs" /\ t \in adm[d]

RunInv == PlanInv /\ RunType /\ HoldersWork /\ RunsAdmitted

(* Nothing runs at first.                                                    *)
LEMMA RunInit == Init => RunInv
BY PlanInit DEF Init, RunInv, RunType, HoldersWork, RunsAdmitted, Stages

(* The steps of a run change that run, the task's lease, and no plan.        *)
LEMMA RunningStep ==
  ASSUME RunInv, NEW d \in Dispatches, NEW t \in Tasks, Running(d, t)
  PROVE  (RunType /\ HoldersWork /\ RunsAdmitted)'
<1> USE DEF RunInv
<1>1. /\ at' = at /\ adm' = adm /\ run[d][t] # "none"
      /\ \E s \in Stages : run' = [run EXCEPT ![d][t] = s]
      /\ \/ lease' = [lease EXCEPT ![t] = NoOne]
         \/ lease' = lease /\ (lease[t] = d => run'[d][t] \in {"working", "coder"})
         \/ lease' = [lease EXCEPT ![t] = d] /\ run'[d][t] \in {"working", "coder"}
  <2> USE DEF plan, Stage, Stages, RunType
  <2>1. CASE StartFails(d, t)
    BY <2>1, SchedulerAssumption DEF StartFails, ledger, HoldersWork
  <2>2. ASSUME NEW s \in {"queued", "blocked"}, RegisterTask(d, t, s)
        PROVE  <1>1!1 /\ <1>1!2 /\ <1>1!3
    BY <2>2, SchedulerAssumption DEF RegisterTask, HoldersWork
  <2>3. CASE Claiming(d, t)
    BY <2>3, SchedulerAssumption
       DEF Claiming, ClaimDependencyBlocked, ClaimLeaseExists, ClaimTask, ledger, HoldersWork
  <2>4. CASE MarkTask(d, t)
    <3>1. run' = run /\ run[d][t] \in {"working", "coder"}
      BY <2>4 DEF MarkTask
    <3>2. run' = [run EXCEPT ![d][t] = run[d][t]] /\ run[d][t] \in Stages
      BY <3>1
    <3> QED BY <2>4, <3>1, <3>2 DEF MarkTask
  <2>5. CASE EnterCoder(d, t)
    BY <2>5 DEF EnterCoder
  <2>6. CASE Ending(d, t)
    BY <2>6 DEF Ending, Finish, Lapse
  <2> QED BY <2>1, <2>2, <2>3, <2>4, <2>5, <2>6 DEF Running
<1>2. PICK s \in Stages : run' = [run EXCEPT ![d][t] = s]
  BY <1>1
<1>3. RunType'
  BY <1>1, <1>2 DEF RunType
<1>4. \A u \in Tasks : lease'[u] # NoOne => run'[lease'[u]][u] \in {"working", "coder"}
  <2> SUFFICES ASSUME NEW u \in Tasks, lease'[u] # NoOne
               PROVE  run'[lease'[u]][u] \in {"working", "coder"}
    OBVIOUS
  <2>1. CASE u # t
    BY <1>1, <1>2, <2>1 DEF HoldersWork, RunType
  <2>2. CASE u = t
    BY <1>1, <1>2, <2>2 DEF HoldersWork, RunType
  <2> QED BY <2>1, <2>2
<1>5. RunsAdmitted'
  BY <1>1, <1>2 DEF RunsAdmitted, RunType
<1> QED BY <1>3, <1>4, <1>5 DEF HoldersWork

(* The steps of a dispatch keep what is known of its runs.                   *)
LEMMA PlanningStep ==
  ASSUME RunInv, NEW d \in Dispatches, Planning(d)
  PROVE  (RunType /\ HoldersWork /\ RunsAdmitted)'
<1> USE DEF RunInv
<1>1. CASE Launch(d)
  <2>1. \A t \in Tasks : run[d][t] = "none" /\ lease[t] # d
    BY <1>1, SchedulerAssumption DEF Launch, RunsAdmitted, HoldersWork
  <2>2. lease' = lease /\ adm' = adm /\ at'[d] = "runs"
        /\ \A e \in Dispatches : e # d => at'[e] = at[e] /\ run'[e] = run[e]
    BY <1>1 DEF Launch, ledger, PlanType, PlanInv, RunType
  <2>3. RunType'
    BY <1>1, <2>2 DEF Launch, RunType, Stages
  <2>4. HoldersWork'
    BY <2>1, <2>2 DEF HoldersWork, RunType
  <2>5. RunsAdmitted'
    <3>1. \A t \in Tasks : run'[d][t] # "none" => t \in adm[d]
      BY <1>1 DEF Launch, RunType
    <3> QED BY <2>2, <3>1 DEF RunsAdmitted
  <2> QED BY <2>3, <2>4, <2>5
<1>2. CASE ~Launch(d)
  <2>1. (run' = run /\ lease' = lease /\ at[d] # "runs") \/ EndDispatch(d)
    BY <1>2 DEF Planning, ListQueued, ListActive, ListCoders, Consider, Candidate, ledger
  <2>2. run' = run /\ lease' = lease
    BY <2>1 DEF EndDispatch, ledger
  <2>3. \A t \in Tasks : run[d][t] = "none"
    BY <2>1 DEF EndDispatch, RunsAdmitted
  <2>4. \A e \in Dispatches : e # d => at'[e] = at[e] /\ adm'[e] = adm[e]
    BY <1>2 DEF Planning, ListQueued, ListActive, ListCoders, Consider, EndDispatch, PlanType, PlanInv
  <2> QED BY <2>2, <2>3, <2>4 DEF RunType, HoldersWork, RunsAdmitted
<1> QED BY <1>1, <1>2

(* The inductive step for plans and runs together.                           *)
LEMMA RunNext == RunInv /\ [Next]_vars => RunInv'
<1> SUFFICES ASSUME RunInv, [Next]_vars PROVE RunInv'
  OBVIOUS
<1>1. PlanInv'
  BY PlanNext DEF RunInv
<1>2. ASSUME NEW t \in Tasks, Reconcile(t) \/ Requeue(t)
      PROVE  (RunType /\ HoldersWork /\ RunsAdmitted)'
  <2>1. lease' = lease /\ run' = run /\ at' = at /\ adm' = adm
    BY <1>2 DEF Reconcile, ReconcileCoderRun, Requeue, plan
  <2> QED BY <2>1 DEF RunInv, RunType, HoldersWork, RunsAdmitted
<1>3. CASE UNCHANGED vars
  <2>1. lease' = lease /\ run' = run /\ at' = at /\ adm' = adm
    BY <1>3 DEF vars
  <2> QED BY <1>1, <2>1 DEF RunInv, RunType, HoldersWork, RunsAdmitted
<1> QED BY <1>1, <1>2, <1>3, RunningStep, PlanningStep DEF Next, RunInv

(* One dispatch at a time: what is held was admitted by its plan.            *)
LEMMA HeldAdmitted ==
  ASSUME RunInv, NEW d, Dispatches = {d}
  PROVE  Held \subseteq adm[d] /\ Held \in SUBSET Tasks
BY SchedulerAssumption DEF RunInv, RunType, HoldersWork, RunsAdmitted, Held

(* With one dispatch at a time that waits for its runs, no two of the leases *)
(* held together overlap.                                                    *)
THEOREM NoOverlapHeld ==
  ASSUME NEW d, Dispatches = {d}
  PROVE  Spec => []HeldDisjoint
<1>1. RunInv => HeldDisjoint
  <2> SUFFICES ASSUME RunInv, NEW t \in Held, NEW u \in Held, t # u
               PROVE  ~Conflict(t, u)
    BY DEF HeldDisjoint
  <2>1. t \in adm[d] /\ u \in adm[d]
    BY HeldAdmitted
  <2> QED BY <2>1 DEF RunInv, PlanInv, PlanDisjoint, InUse
<1> QED BY <1>1, RunInit, RunNext, PTL DEF Spec

(* With one dispatch at a time that waits for its runs, no more leases are   *)
(* held together than max_active_tasks allows.                               *)
THEOREM LimitHeld ==
  ASSUME NEW d, Dispatches = {d}
  PROVE  Spec => []HeldWithinLimits
<1>1. RunInv => HeldWithinLimits
  <2> SUFFICES ASSUME RunInv PROVE Cardinality(Held) <= MaxActive
    BY DEF HeldWithinLimits
  <2>1. adm[d] \in SUBSET Tasks /\ InUse(d) \in SUBSET Tasks /\ MaxActive \in Nat \ {0}
    BY SchedulerAssumption DEF RunInv, PlanInv, PlanType, InUse
  <2>2. Held \subseteq InUse(d)
    BY HeldAdmitted DEF InUse
  <2>3. Cardinality(Held) <= Cardinality(InUse(d))
    BY <2>1, <2>2, Sizes, FS_Subset
  <2>4. CASE adm[d] = {}
    <3>1. Held = {}
      BY <2>4, HeldAdmitted
    <3> QED BY <2>1, <3>1, FS_EmptySet
  <2>5. CASE adm[d] # {}
    <3>1. PICK t \in adm[d] : TRUE
      BY <2>5
    <3>2. Cardinality(InUse(d)) <= MaxActive
      BY <3>1, WithinLimits DEF RunInv, PlanWithinLimits
    <3>3. Cardinality(Held) \in Nat /\ Cardinality(InUse(d)) \in Nat
      BY <2>1, <2>2, Sizes
    <3> QED BY <2>1, <2>3, <3>2, <3>3
  <2> QED BY <2>4, <2>5
<1> QED BY <1>1, RunInit, RunNext, PTL DEF Spec

-----------------------------------------------------------------------------
(* A task has at least the coder runs that runs of it wait for, so that the  *)
(* count of a run that ends does not go below zero.                          *)
Coding(t) == {d \in Dispatches : run[d][t] = "coder"}

CodersCounted ==
  /\ coders \in [Tasks -> Nat]
  /\ \A t \in Tasks : Cardinality(Coding(t)) <= coders[t]

TypeInv == RunInv /\ state \in [Tasks -> States] /\ CodersCounted

(* Sets of dispatches are finite, and one more or less counts for one.       *)
LEMMA DispatchSizes ==
  ASSUME NEW S \in SUBSET Dispatches, NEW d \in Dispatches
  PROVE  /\ Cardinality(S) \in Nat
         /\ Cardinality(S \union {d}) <= Cardinality(S) + 1
         /\ Cardinality(S \ {d}) = IF d \in S THEN Cardinality(S) - 1 ELSE Cardinality(S)
<1>1. IsFiniteSet(S)
  BY SchedulerAssumption, FS_Subset
<1>2. Cardinality(S) \in Nat
  BY <1>1, FS_CardinalityType
<1>3. Cardinality(S \union {d}) = IF d \in S THEN Cardinality(S) ELSE Cardinality(S) + 1
  BY <1>1, FS_AddElement
<1>4. Cardinality(S \ {d}) = IF d \in S THEN Cardinality(S) - 1 ELSE Cardinality(S)
  BY <1>1, FS_RemoveElement
<1> QED BY <1>2, <1>3, <1>4

(* What a step of a run does to the runs of a task that are with a coder.    *)
LEMMA CodingStep ==
  ASSUME RunType, NEW d \in Dispatches, NEW t \in Tasks, NEW s \in Stages, Stage(d, t, s)
  PROVE  /\ \A u \in Tasks : u # t => Coding(u)' = Coding(u)
         /\ Coding(t)' = IF s = "coder" THEN Coding(t) \union {d} ELSE Coding(t) \ {d}
<1>1. \A e \in Dispatches, u \in Tasks : run'[e][u] = IF e = d /\ u = t THEN s ELSE run[e][u]
  BY DEF Stage, RunType
<1> QED BY <1>1 DEF Coding

(* The steps of a run keep the states and the count of coder runs.           *)
LEMMA RunningTypes ==
  ASSUME TypeInv, NEW d \in Dispatches, NEW t \in Tasks, Running(d, t)
  PROVE  (state \in [Tasks -> States] /\ CodersCounted)'
<1> USE DEF TypeInv, RunInv
<1>n. /\ \A u \in Tasks : coders[u] \in Nat /\ Cardinality(Coding(u)) \in Nat
      /\ \A u \in Tasks : Cardinality(Coding(u)) <= coders[u]
      /\ \A s \in {"none", "starting", "registered", "working", "coder"} : s \in Stages
  <2>1. \A u \in Tasks : Coding(u) \in SUBSET Dispatches
    BY DEF Coding
  <2> QED BY <2>1, DispatchSizes DEF CodersCounted, Stages
<1>c. /\ Cardinality(Coding(t) \union {d}) <= Cardinality(Coding(t)) + 1
      /\ Cardinality(Coding(t) \union {d}) \in Nat
      /\ Cardinality(Coding(t) \ {d}) <= Cardinality(Coding(t))
      /\ Cardinality(Coding(t) \ {d}) \in Nat
      /\ run[d][t] = "coder" => Cardinality(Coding(t) \ {d}) + 1 = Cardinality(Coding(t))
  <2>1. Coding(t) \in SUBSET Dispatches /\ Coding(t) \union {d} \in SUBSET Dispatches
        /\ Coding(t) \ {d} \in SUBSET Dispatches /\ (run[d][t] = "coder" => d \in Coding(t))
    BY DEF Coding
  <2>2. /\ Cardinality(Coding(t)) \in Nat
        /\ Cardinality(Coding(t) \union {d}) <= Cardinality(Coding(t)) + 1
        /\ Cardinality(Coding(t) \ {d}) =
             IF d \in Coding(t) THEN Cardinality(Coding(t)) - 1 ELSE Cardinality(Coding(t))
    BY <2>1, DispatchSizes
  <2>3. Cardinality(Coding(t) \union {d}) \in Nat /\ Cardinality(Coding(t) \ {d}) \in Nat
    BY <2>1, DispatchSizes
  <2> HIDE DEF TypeInv, RunInv
  <2> QED BY <2>1, <2>2, <2>3
<1>1. state' \in [Tasks -> States]
  BY DEF Running, StartFails, RegisterTask, Claiming, ClaimDependencyBlocked, ClaimLeaseExists,
         ClaimTask, MarkTask, EnterCoder, Ending, Finish, Lapse, ledger, States
<1>2. CASE StartFails(d, t) \/ RegisterTask(d, t, "queued") \/ RegisterTask(d, t, "blocked")
           \/ Claiming(d, t) \/ Lapse(d, t)
  <2>1. coders' = coders /\ \E s \in Stages : s # "coder" /\ Stage(d, t, s)
    BY <1>2, <1>n DEF StartFails, RegisterTask, Claiming, ClaimDependencyBlocked, ClaimLeaseExists,
                ClaimTask, Lapse, ledger
  <2>2. /\ \A u \in Tasks : u # t => Coding(u)' = Coding(u)
        /\ Coding(t)' = Coding(t) \ {d}
    BY <2>1, CodingStep
  <2>3. ASSUME NEW u \in Tasks PROVE Cardinality(Coding(u)') <= coders'[u]
    <3>1. CASE u = t
      <4>1. Cardinality(Coding(t)') = Cardinality(Coding(t) \ {d})
        BY <2>2
      <4> QED BY <3>1, <4>1, <1>n, <1>c, <2>1
    <3>2. CASE u # t
      <4>1. Cardinality(Coding(u)') = Cardinality(Coding(u))
        BY <2>2, <3>2
      <4> QED BY <4>1, <1>n, <2>1
    <3> QED BY <3>1, <3>2
  <2> QED BY <1>1, <2>1, <2>3 DEF CodersCounted
<1>3. CASE MarkTask(d, t)
  <2>1. coders' = coders /\ run' = run
    BY <1>3 DEF MarkTask
  <2> QED BY <1>1, <2>1 DEF CodersCounted, Coding
<1>4. CASE EnterCoder(d, t)
  <2>1. coders' = [coders EXCEPT ![t] = @ + 1] /\ Stage(d, t, "coder")
    BY <1>4 DEF EnterCoder
  <2>2. /\ \A u \in Tasks : u # t => Coding(u)' = Coding(u)
        /\ Coding(t)' = Coding(t) \union {d}
    BY <2>1, <1>n, CodingStep
  <2>3. coders' \in [Tasks -> Nat]
    BY <2>1 DEF CodersCounted
  <2>4. \A u \in Tasks : coders'[u] = IF u = t THEN coders[u] + 1 ELSE coders[u]
    BY <2>1 DEF CodersCounted
  <2>5. ASSUME NEW u \in Tasks PROVE Cardinality(Coding(u)') <= coders'[u]
    <3>1. CASE u = t
      <4>1. Cardinality(Coding(t)') = Cardinality(Coding(t) \union {d})
        BY <2>2
      <4> QED BY <3>1, <4>1, <1>n, <1>c, <2>4
    <3>2. CASE u # t
      <4>1. Cardinality(Coding(u)') = Cardinality(Coding(u))
        BY <2>2, <3>2
      <4> QED BY <3>2, <4>1, <1>n, <2>4
    <3> QED BY <3>1, <3>2
  <2> QED BY <1>1, <2>3, <2>5 DEF CodersCounted
<1>5. ASSUME NEW s \in {"done", "blocked"}, Finish(d, t, s) PROVE CodersCounted'
  <2>1. /\ coders' = [coders EXCEPT ![t] = IF run[d][t] = "coder" THEN @ - 1 ELSE @]
        /\ Stage(d, t, "none")
    BY <1>5 DEF Finish
  <2>2. /\ \A u \in Tasks : u # t => Coding(u)' = Coding(u)
        /\ Coding(t)' = Coding(t) \ {d}
    BY <2>1, <1>n, CodingStep
  <2>3. \A u \in Tasks : coders'[u] = IF u = t /\ run[d][t] = "coder" THEN coders[u] - 1 ELSE coders[u]
    BY <2>1 DEF CodersCounted
  <2>4. ASSUME NEW u \in Tasks PROVE Cardinality(Coding(u)') <= coders'[u] /\ coders'[u] \in Nat
    <3>1. CASE u = t
      <4>1. Cardinality(Coding(t)') = Cardinality(Coding(t) \ {d})
        BY <2>2
      <4> QED BY <3>1, <4>1, <1>n, <1>c, <2>3
    <3>2. CASE u # t
      <4>1. Cardinality(Coding(u)') = Cardinality(Coding(u))
        BY <2>2, <3>2
      <4> QED BY <3>2, <4>1, <1>n, <2>3
    <3> QED BY <3>1, <3>2
  <2>5. coders' \in [Tasks -> Nat]
    BY <2>1, <2>4 DEF CodersCounted
  <2> QED BY <2>4, <2>5 DEF CodersCounted
<1> QED BY <1>1, <1>2, <1>3, <1>4, <1>5 DEF Running, Ending

(* The inductive step of the types.                                          *)
LEMMA TypeNext == TypeInv /\ [Next]_vars => TypeInv'
<1> SUFFICES ASSUME TypeInv, [Next]_vars PROVE TypeInv'
  OBVIOUS
<1>1. RunInv'
  BY RunNext DEF TypeInv
<1>2. ASSUME NEW d \in Dispatches, Planning(d) PROVE (state \in [Tasks -> States] /\ CodersCounted)'
  <2>1. state' = state /\ coders' = coders
    BY <1>2 DEF Planning, ListQueued, ListActive, ListCoders, Consider, Launch, EndDispatch, ledger
  <2>2. \A t \in Tasks : Coding(t)' = Coding(t)
    <3>1. CASE Launch(d)
      <4>1. \A t \in Tasks : run[d][t] = "none"
        BY <3>1 DEF Launch, TypeInv, RunInv, RunsAdmitted
      <4>2. \A e \in Dispatches, t \in Tasks :
              IF e = d THEN run'[e][t] \in {"starting", "none"} ELSE run'[e][t] = run[e][t]
        BY <3>1 DEF Launch, TypeInv, RunInv, RunType
      <4> QED BY <4>1, <4>2 DEF Coding
    <3>2. CASE ~Launch(d)
      <4>1. run' = run
        BY <1>2, <3>2 DEF Planning, ListQueued, ListActive, ListCoders, Consider, EndDispatch
      <4> QED BY <4>1 DEF Coding
    <3> QED BY <3>1, <3>2
  <2> QED BY <2>1, <2>2 DEF TypeInv, CodersCounted
<1>3. ASSUME NEW t \in Tasks, Reconcile(t) PROVE (state \in [Tasks -> States] /\ CodersCounted)'
  <2>1. /\ Orphaned(t) /\ coders' = [coders EXCEPT ![t] = @ - 1] /\ run' = run
        /\ \E s \in {"done", "blocked"} : state' = [state EXCEPT ![t] = s]
    BY <1>3 DEF Reconcile, ReconcileCoderRun
  <2>2. /\ Cardinality(Coding(t)) < coders[t]
        /\ \A u \in Tasks : Coding(u)' = Coding(u) /\ Coding(u) \in SUBSET Dispatches
    BY <2>1 DEF Orphaned, Coding
  <2>3. \A u \in Tasks : coders[u] \in Nat /\ Cardinality(Coding(u)) <= coders[u]
    BY DEF TypeInv, CodersCounted
  <2>4. \A u \in Tasks : Cardinality(Coding(u)) \in Nat
    <3>1. \A u \in Tasks : IsFiniteSet(Coding(u))
      BY <2>2, SchedulerAssumption, FS_Subset
    <3> QED BY <3>1, FS_CardinalityType
  <2>5. \A u \in Tasks : coders'[u] = IF u = t THEN coders[u] - 1 ELSE coders[u]
    BY <2>1 DEF TypeInv, CodersCounted
  <2>6. \A u \in Tasks : Cardinality(Coding(u)) <= coders'[u] /\ coders'[u] \in Nat
    BY <2>2, <2>3, <2>4, <2>5
  <2>7. coders' \in [Tasks -> Nat]
    BY <2>1, <2>6 DEF TypeInv, CodersCounted
  <2>8. state' \in [Tasks -> States]
    BY <2>1 DEF TypeInv, States
  <2> QED BY <2>2, <2>6, <2>7, <2>8 DEF CodersCounted
<1>4. ASSUME NEW t \in Tasks, Requeue(t) PROVE (state \in [Tasks -> States] /\ CodersCounted)'
  BY <1>4 DEF Requeue, TypeInv, CodersCounted, Coding, States
<1>5. ASSUME UNCHANGED vars PROVE (state \in [Tasks -> States] /\ CodersCounted)'
  BY <1>5 DEF vars, TypeInv, CodersCounted, Coding
<1>6. (state \in [Tasks -> States] /\ CodersCounted)'
  BY <1>2, <1>3, <1>4, <1>5, RunningTypes DEF Next
<1> QED BY <1>1, <1>6 DEF TypeInv

(* Nothing runs at first.                                                    *)
LEMMA TypeInit == Init => TypeInv
<1> SUFFICES ASSUME Init PROVE TypeInv
  OBVIOUS
<1>1. \A t \in Tasks : Coding(t) = {}
  BY DEF Init, Coding
<1>2. CodersCounted
  BY <1>1, FS_EmptySet DEF Init, CodersCounted
<1> QED BY <1>2, RunInit DEF Init, TypeInv, States

(* The variables keep their kinds: slots and counts of coder runs never go   *)
(* below zero, for any number of interleaved dispatches, more active tasks   *)
(* than slots, and coder runs that outlive their run (max(0, ...) in         *)
(* plan_task_admissions).                                                    *)
THEOREM Typing == Spec => []TypeOK
<1>1. TypeInv => TypeOK
  BY DEF TypeInv, TypeOK, RunInv, PlanInv, PlanType, RunType, CodersCounted
<1> QED BY <1>1, TypeInit, TypeNext, PTL DEF Spec

-----------------------------------------------------------------------------
(* One dispatch at a time: what its plan may still admit has no coder run,   *)
(* nor has a run that has not come to its own.                               *)
NoCoderYet(d) ==
  \A t \in Tasks :
    /\ at[d] = "plan" /\ t \in queue[d] \union adm[d] => coders[t] = 0
    /\ run[d][t] \in {"starting", "registered", "working"} => coders[t] = 0

CoderInv(d) == TypeInv /\ NoCoderYet(d) /\ OneCoderRun

(* The inductive step, for the only dispatch there is.                       *)
LEMMA CoderStep ==
  ASSUME NEW d, Dispatches = {d}, CoderInv(d), [Next]_vars
  PROVE  CoderInv(d)'
<1> USE DEF CoderInv
<1>t. TypeInv'
  BY TypeNext
<1>d. /\ coders \in [Tasks -> Nat]
      /\ run \in [Dispatches -> [Tasks -> Stages]]
      /\ queue \in [Dispatches -> SUBSET Tasks] /\ adm \in [Dispatches -> SUBSET Tasks]
      /\ at \in [Dispatches -> {"idle", "active", "coders", "plan", "runs"}]
  BY DEF TypeInv, CodersCounted, RunInv, RunType, PlanInv, PlanType
<1>1. CASE ListQueued(d) \/ ListActive(d) \/ EndDispatch(d)
  <2>1. coders' = coders /\ run' = run /\ at'[d] # "plan"
    BY <1>1, <1>d DEF ListQueued, ListActive, EndDispatch, ledger
  <2> QED BY <1>t, <2>1 DEF NoCoderYet, OneCoderRun
<1>2. CASE ListCoders(d)
  <2>1. coders' = coders /\ run' = run /\ adm' = adm /\ adm[d] = {}
    BY <1>2 DEF ListCoders, ledger, TypeInv, RunInv, PlanInv, Fresh
  <2>2. \A t \in queue'[d] : t \in Tasks /\ coders[t] = 0
    BY <1>2, <1>d DEF ListCoders, Admissible, CoderTasks
  <2> QED BY <1>t, <2>1, <2>2 DEF NoCoderYet, OneCoderRun
<1>3. ASSUME NEW t \in Tasks, Consider(d, t) PROVE CoderInv(d)'
  <2>1. /\ coders' = coders /\ run' = run /\ at' = at /\ t \in queue[d]
        /\ queue'[d] \subseteq queue[d] /\ adm'[d] \subseteq adm[d] \union {t}
    BY <1>3, <1>d DEF Consider, Candidate, ledger
  <2> QED BY <1>t, <2>1 DEF NoCoderYet, OneCoderRun
<1>4. CASE Launch(d)
  <2>1. /\ coders' = coders /\ at[d] = "plan" /\ at'[d] = "runs"
        /\ \A t \in Tasks : run'[d][t] = IF t \in adm[d] THEN "starting" ELSE "none"
    BY <1>4, <1>d DEF Launch, ledger
  <2> QED BY <1>t, <2>1 DEF NoCoderYet, OneCoderRun
<1>5. ASSUME NEW t \in Tasks, Running(d, t) PROVE CoderInv(d)'
  <2>1. /\ at' = at /\ queue' = queue /\ adm' = adm /\ at[d] = "runs"
        /\ \A u \in Tasks : u # t => run'[d][u] = run[d][u] /\ coders'[u] = coders[u]
    <3>1. run[d][t] # "none"
      BY <1>5 DEF Running, StartFails, RegisterTask, Claiming, ClaimDependencyBlocked, ClaimLeaseExists,
             ClaimTask, MarkTask, EnterCoder, Ending, Finish, Lapse
    <3>2. at[d] = "runs"
      BY <3>1 DEF TypeInv, RunInv, RunsAdmitted
    <3> QED BY <1>5, <1>d, <3>2 DEF Running, StartFails, RegisterTask, Claiming, ClaimDependencyBlocked,
             ClaimLeaseExists, ClaimTask, MarkTask, EnterCoder, Ending, Finish, Lapse, Stage, ledger, plan
  <2>2. /\ run'[d][t] \in {"starting", "registered", "working"} => coders'[t] = 0
        /\ coders'[t] <= 1
    <3>1. /\ run[d][t] \in {"starting", "registered", "working"} => coders[t] = 0
          /\ coders[t] \in Nat /\ coders[t] <= 1
      BY <1>d DEF NoCoderYet, OneCoderRun
    <3>2. CASE EnterCoder(d, t)
      BY <1>d, <3>1, <3>2 DEF EnterCoder, Stage
    <3>3. ASSUME NEW s \in {"done", "blocked"}, Finish(d, t, s) PROVE <2>2!1 /\ <2>2!2
      BY <1>d, <3>1, <3>3 DEF Finish, Stage
    <3>4. CASE Lapse(d, t)
      BY <1>d, <3>1, <3>4 DEF Lapse, Stage
    <3>5. CASE StartFails(d, t) \/ RegisterTask(d, t, "queued") \/ RegisterTask(d, t, "blocked")
               \/ Claiming(d, t) \/ MarkTask(d, t)
      BY <1>d, <3>1, <3>5 DEF StartFails, RegisterTask, Claiming, ClaimDependencyBlocked, ClaimLeaseExists,
             ClaimTask, MarkTask, Stage, ledger
    <3> QED BY <1>5, <3>2, <3>3, <3>4, <3>5 DEF Running, Ending
  <2> QED BY <1>t, <2>1, <2>2 DEF NoCoderYet, OneCoderRun
<1>6. ASSUME NEW t \in Tasks, Reconcile(t) \/ Requeue(t) PROVE CoderInv(d)'
  <2>1. /\ run' = run /\ at' = at /\ queue' = queue /\ adm' = adm
        /\ \A u \in Tasks : coders'[u] = coders[u] \/ coders'[u] = coders[u] - 1
    BY <1>6, <1>d DEF Reconcile, ReconcileCoderRun, Requeue, plan
  <2>2. coders' \in [Tasks -> Nat]
    BY <1>t DEF TypeInv, CodersCounted
  <2> QED BY <1>d, <1>t, <2>1, <2>2 DEF NoCoderYet, OneCoderRun
<1>7. CASE UNCHANGED vars
  BY <1>t, <1>7 DEF vars, NoCoderYet, OneCoderRun
<1> QED BY <1>1, <1>2, <1>3, <1>4, <1>5, <1>6, <1>7 DEF Next, Planning

(* With one dispatch at a time a task has at most one coder run that is not  *)
(* terminal, also after runs of it died and it was queued again              *)
(* (coder_run_active in plan_task_admissions).                               *)
THEOREM CoderOnce ==
  ASSUME NEW d, Dispatches = {d}
  PROVE  Spec => []OneCoderRun
<1>1. Init => CoderInv(d)
  BY TypeInit DEF Init, CoderInv, NoCoderYet, OneCoderRun
<1>2. CoderInv(d) /\ [Next]_vars => CoderInv(d)'
  BY CoderStep
<1>3. CoderInv(d) => OneCoderRun
  BY DEF CoderInv
<1> QED BY <1>1, <1>2, <1>3, PTL DEF Spec
=============================================================================
