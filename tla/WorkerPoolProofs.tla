--------------------------- MODULE WorkerPoolProofs ---------------------------
(* Theorems about WorkerPool, for any plans, limits, demands, edits and      *)
(* answers: the types, with the lock of the two files; that an attempt given *)
(* up before its last check copies nothing; and that a subtask counts as     *)
(* completed only with its primary source target in the checkout.            *)
EXTENDS WorkerPool, TLAPS

-----------------------------------------------------------------------------
(* The reasons that the definitions name.                                    *)
LEMMA Named ==
  /\ {"", "WORKER_REPORTED_BLOCKER", "WORKER_NO_PROGRESS", "WORKER_CORRUPT_DIFF",
      "WORKER_VERIFIABLE_DIFF_MISALIGNED_TEST", "WORKER_PRIMARY_SOURCE_TARGET_MISSING",
      "WORKER_CARRIED_DIFF_READY_FOR_VERIFICATION", "WORKER_INHERITED_OVERLAY_NO_FRESH_CHANGES"}
       \subseteq ResultReasons
  /\ {"TERMINALIZED_WITH_REMAINING_BLOCKERS", "TERMINALIZED_MISSING_CONTRACT_TOKENS",
      "TERMINALIZED_MISSING_PRODUCTION_ANCHORS", "TERMINALIZED_UNVERIFIED_TEST_ONLY_DIFF"}
       \subseteq ResultReasons
  /\ {"SELF_REFERENTIAL_TEST_ONLY_DIFF", "TARGET_FILES_UNCHANGED", "NO_FILESYSTEM_CHANGES",
      "IGNORED_PATH_CHANGES", "ENGINE_TOOL_LOOP_STALLED_NO_DIFF"} \subseteq ResultReasons
  /\ {"CARRY_FORWARD_PATCH_APPLY_FAILED", "WORKER_RESULT_AFTER_RUN_TERMINAL",
      "WORKER_RESULT_AFTER_RETRY_SUPERSEDED"} \subseteq ResultReasons
  /\ GuardReasons \subseteq ResultReasons /\ NoChangeReasons \subseteq ResultReasons
  /\ EngineReasons \subseteq ResultReasons /\ "WORKER_VERIFIABLE_DIFF_WEAK_TEST" \in ResultReasons
  BY DEF ResultReasons, GuardReasons, OfPair

(* Results, and what the guards and the verdict make of them.                *)
LEMMA ResultIs ==
  ASSUME NEW r \in Results
  PROVE  /\ r.rc \in {0, 1} /\ r.reason \in ResultReasons /\ r.patch \in BOOLEAN /\ r.diff \subseteq DiffFeatures
  BY DEF Results

LEMMA FailedIs ==
  ASSUME NEW x \in ResultReasons, NEW p \in BOOLEAN, NEW d \in SUBSET DiffFeatures
  PROVE  Failed(x, p, d) \in Results /\ Failed(x, p, d).rc = 1 /\ Failed(x, p, d).diff = d
  BY DEF Failed, Results

LEMMA DoneIs ==
  ASSUME NEW d \in SUBSET DiffFeatures
  PROVE  Done(d) \in Results /\ Done(d).rc = 0 /\ Done(d).diff = d
  BY Named DEF Done, Results

(* The changes of a result.                                                  *)
LEMMA EditReason ==
  ASSUME NEW r \in Results, NEW x \in ResultReasons
  PROVE  LET e == [r EXCEPT !.reason = x]
         IN  e \in Results /\ e.rc = r.rc /\ e.diff = r.diff
  BY DEF Results

LEMMA EditFail ==
  ASSUME NEW r \in Results, NEW x \in ResultReasons
  PROVE  LET e == [r EXCEPT !.rc = 1, !.reason = x]
         IN  e \in Results /\ e.rc = 1 /\ e.diff = r.diff
  BY DEF Results

LEMMA EditDiff ==
  ASSUME NEW r \in Results, NEW d \in SUBSET DiffFeatures
  PROVE  LET e == [r EXCEPT !.diff = d]
         IN  e \in Results /\ e.rc = r.rc /\ e.diff = d
  BY DEF Results

LEMMA PreservedIs ==
  ASSUME NEW r \in Results, NEW t \in SUBSET DiffFeatures
  PROVE  Preserved(r, t) \in Results /\ Preserved(r, t).rc = r.rc /\ Preserved(r, t).diff = t
<1>1. (r.patch \/ Files(t) # {}) \in BOOLEAN
  OBVIOUS
<1> QED BY <1>1 DEF Preserved, Results

LEMMA CarriedIs == \A s : Carried(s) \subseteq DiffFeatures /\ Files(Carried(s)) = Carried(s)
  BY DEF Carried, DiffFeatures, FileFeatures, Files

LEMMA ValidationIs ==
  ASSUME NEW d \in SUBSET DiffFeatures, NEW s
  PROVE  Validation(d, s) \subseteq DiffFeatures /\ Validation(d, s) \subseteq d \union Carried(s)
  BY CarriedIs DEF Validation

LEMMA AbortResultIs ==
  ASSUME NEW x \in ResultReasons, NEW d \in SUBSET DiffFeatures, NEW s
  PROVE  AbortResult(x, d, s) \in Results /\ AbortResult(x, d, s).rc = 1
<1>1. CASE x \in NoChangeReasons
  <2> DEFINE c == IF x = "WORKER_REPAIR_NO_CHANGE" THEN Carried(s) ELSE {}
  <2>1. AbortResult(x, d, s) \in {Failed(x, TRUE, c), Failed(x, FALSE, c)}
    <3>1. CASE x = "WORKER_REPAIR_NO_CHANGE" /\ Uses(s)
      BY <1>1, <3>1 DEF AbortResult
    <3>2. CASE ~(x = "WORKER_REPAIR_NO_CHANGE" /\ Uses(s))
      BY <1>1, <3>2 DEF AbortResult
    <3> QED BY <3>1, <3>2
  <2>2. c \in SUBSET DiffFeatures /\ TRUE \in BOOLEAN /\ FALSE \in BOOLEAN
    BY CarriedIs
  <2> HIDE DEF c
  <2>3. CASE AbortResult(x, d, s) = Failed(x, TRUE, c)
    BY <2>2, <2>3 DEF Failed, Results
  <2>4. CASE AbortResult(x, d, s) = Failed(x, FALSE, c)
    BY <2>2, <2>4 DEF Failed, Results
  <2> QED BY <2>1, <2>3, <2>4
<1>2. CASE x \notin NoChangeReasons
  <2> DEFINE c == IF x \in OfPair THEN Validation(d, s) ELSE d
  <2>1. AbortResult(x, d, s) = Failed(x, TRUE, c)
    BY <1>2 DEF AbortResult
  <2>2. c \in SUBSET DiffFeatures /\ TRUE \in BOOLEAN
    BY ValidationIs
  <2> HIDE DEF c
  <2> QED BY <2>1, <2>2 DEF Failed, Results
<1> QED BY <1>1, <1>2

LEMMA AttachSnapshotIs ==
  ASSUME NEW r \in Results, NEW d \in SUBSET DiffFeatures
  PROVE  /\ AttachSnapshot(r, d) \in Results /\ AttachSnapshot(r, d).rc = r.rc
         /\ r.rc = 0 => AttachSnapshot(r, d) = r
<1>1. [r EXCEPT !.patch = TRUE, !.diff = d] \in Results /\ [r EXCEPT !.patch = TRUE, !.diff = d].rc = r.rc
  BY DEF Results
<1> QED BY <1>1 DEF AttachSnapshot

LEMMA TargetedIs ==
  ASSUME NEW r \in Results, NEW s
  PROVE  /\ Targeted(r, s) \in Results
         /\ Targeted(r, s).rc = 0 => r.rc = 0 /\ OnTarget(r.diff, s)
<1>1. LET e == [r EXCEPT !.rc = 1, !.reason = "WORKER_PRIMARY_SOURCE_TARGET_MISSING"]
      IN  e \in Results /\ e.rc = 1
  BY Named, EditFail
<1> QED BY <1>1 DEF Targeted

LEMMA GuardIs ==
  ASSUME NEW d, NEW s, NEW late
  PROVE  Guard(d, s, late) \in {"", "keep"} \union GuardReasons
<1>1. CASE Files(d) = {} \/ "stale" \in d
  BY <1>1 DEF Guard
<1>2. CASE ~(Files(d) = {} \/ "stale" \in d)
  BY <1>2 DEF Guard, GuardReasons, OfPair, Rechecked
<1> QED BY <1>1, <1>2

LEMMA NoChangeIs ==
  ASSUME NEW d, NEW s, NEW late, NEW says
  PROVE  NoChange(d, s, late, says) \in {""} \union NoChangeReasons
  BY DEF NoChange, NoChangeReasons

(* What Record is given when ACA does not take the worktree itself.          *)
LEMMA VerdictIs ==
  ASSUME NEW r \in Results, NEW d, NEW s, ~Takes(r, d, s)
  PROVE  LET v == Verdict(r, d, s, FALSE)
         IN  v \in Results /\ (v.rc = 0 => r.rc = 0 /\ OnTarget(r.diff, s))
<1>1. Rejection(d) \in ResultReasons
  BY Named DEF Rejection
<1> DEFINE e == [r EXCEPT !.reason = Rejection(d)]
<1>2. e \in Results /\ e.rc = r.rc /\ e.diff = r.diff
  BY <1>1, EditReason
<1>3. Verdict(r, d, s, FALSE) \in {Targeted(e, s), Targeted(r, s)}
  BY DEF Verdict
<1> HIDE DEF e
<1> QED BY <1>2, <1>3, TargetedIs

(* A result that ACA takes is a failed one.                                  *)
LEMMA TakesFailed ==
  ASSUME NEW r, NEW d, NEW s, Takes(r, d, s)
  PROVE  r.rc # 0
  BY DEF Takes, Reviewable, ReviewableProduction

-----------------------------------------------------------------------------
(* The judgement of an answer: its result names no files but those           *)
(* of the answer, of the worktree and of the carried patch.                  *)
LEMMA TerminalizedIs ==
  ASSUME NEW r \in Results, NEW t \in SUBSET DiffFeatures, NEW s, NEW note
  PROVE  LET e == Terminalized(r, t, s, note)
         IN  e \in Results /\ e.diff \subseteq r.diff \union t
<1>1. ASSUME NEW x \in ResultReasons
      PROVE  Preserved(Failed(x, r.patch, t), t) \in Results
             /\ Preserved(Failed(x, r.patch, t), t).diff = t
  BY PreservedIs, FailedIs, ResultIs
<1> DEFINE b == [r EXCEPT !.reason = "TERMINALIZED_WITH_REMAINING_BLOCKERS", !.diff = t]
<1>2. b \in Results /\ b.diff = t
  BY Named DEF Results
<1>3. Terminalized(r, t, s, note) \in
        {r, b, Preserved(Failed("TERMINALIZED_MISSING_CONTRACT_TOKENS", r.patch, t), t),
         Preserved(Failed("TERMINALIZED_MISSING_PRODUCTION_ANCHORS", r.patch, t), t),
         Preserved(Failed("TERMINALIZED_UNVERIFIED_TEST_ONLY_DIFF", r.patch, t), t), Done(t)}
  BY DEF Terminalized
<1> HIDE DEF b
<1>4. /\ "TERMINALIZED_MISSING_CONTRACT_TOKENS" \in ResultReasons
      /\ "TERMINALIZED_MISSING_PRODUCTION_ANCHORS" \in ResultReasons
      /\ "TERMINALIZED_UNVERIFIED_TEST_ONLY_DIFF" \in ResultReasons
  BY Named
<1> QED BY <1>1, <1>2, <1>3, <1>4, DoneIs

LEMMA RecoveredIs ==
  ASSUME NEW r \in Results, NEW t \in SUBSET DiffFeatures
  PROVE  LET e == Recovered(r, t)
         IN  e \in Results /\ e.diff \subseteq r.diff \union t
<1> DEFINE c == [r EXCEPT !.reason = "WORKER_CORRUPT_DIFF"]
<1>1. c \in Results /\ c.rc = r.rc /\ c.diff = r.diff
  BY Named, EditReason
<1>2. Recovered(r, t) \in {r, c, Preserved(r, t), Done(t)}
  BY DEF Recovered
<1> HIDE DEF c
<1> QED BY <1>1, <1>2, PreservedIs, DoneIs

LEMMA ReasonIs ==
  ASSUME NEW r \in Results, NEW t, NEW s
  PROVE  Reason(r, t, s) \in ResultReasons
<1>1. r.reason \in ResultReasons
  BY ResultIs
<1> QED BY <1>1, Named DEF Reason

LEMMA CoercedIs ==
  ASSUME NEW r \in Results, NEW t \in SUBSET DiffFeatures, NEW s
  PROVE  LET e == Coerced(r, t, s)
         IN  e \in Results /\ e.diff \subseteq r.diff \union t
<1> DEFINE kept   == IF r.rc # 0 /\ "selfref" \in t THEN Preserved(r, t) ELSE r
           c      == [r EXCEPT !.rc = 1, !.reason = "WORKER_CORRUPT_DIFF"]
           failed == [kept EXCEPT !.rc = 1, !.reason = Reason(r, t, s)]
<1>1. kept \in Results /\ kept.diff \subseteq r.diff \union t
  BY PreservedIs
<1>2. c \in Results /\ c.rc = 1 /\ c.diff = r.diff
  BY Named, EditFail
<1>3. Coerced(r, t, s) \in {c, Recovered(kept, t), Done({}), kept, Preserved(failed, t), failed}
  BY DEF Coerced
<1> HIDE DEF kept
<1>4. failed \in Results /\ failed.rc = 1 /\ failed.diff = kept.diff
  BY <1>1, ReasonIs, EditFail
<1> HIDE DEF c, failed
<1>5. CASE Coerced(r, t, s) = c \/ Coerced(r, t, s) = failed
  BY <1>5, <1>1, <1>2, <1>4
<1>6. CASE Coerced(r, t, s) = Recovered(kept, t)
  BY <1>6, <1>1, RecoveredIs
<1>7. CASE Coerced(r, t, s) = Done({}) \/ Coerced(r, t, s) = kept
  BY <1>7, <1>1, DoneIs
<1>8. CASE Coerced(r, t, s) = Preserved(failed, t)
  BY <1>8, <1>4, PreservedIs
<1> QED BY <1>3, <1>5, <1>6, <1>7, <1>8

LEMMA JudgedIs ==
  ASSUME NEW r \in Results, NEW f \in SUBSET DiffFeatures, NEW s, NEW note
  PROVE  LET e == Judged(r, f, s, note)
         IN  e \in Results /\ e.diff \subseteq r.diff \union f \union Carried(s)
<1> DEFINE t == f \union Carried(s)
           a == Terminalized(r, t, s, note)
           b == Coerced(a, t, s)
<1>1. t \in SUBSET DiffFeatures
  BY CarriedIs
<1>2. CASE OnlyCarried(r, f, s)
  <2>1. Judged(r, f, s, note) = Inherited(s)
    BY <1>2 DEF Judged
  <2>2. Inherited(s) \in Results /\ Inherited(s).diff \subseteq Carried(s)
    <3>1. Carried(s) \in SUBSET DiffFeatures /\ {} \in SUBSET DiffFeatures
      BY CarriedIs
    <3>2. Inherited(s) \in {Failed("WORKER_CARRIED_DIFF_READY_FOR_VERIFICATION", TRUE, Carried(s)),
                           Failed("WORKER_INHERITED_OVERLAY_NO_FRESH_CHANGES", FALSE, {})}
      BY DEF Inherited
    <3>3. /\ "WORKER_CARRIED_DIFF_READY_FOR_VERIFICATION" \in ResultReasons
          /\ "WORKER_INHERITED_OVERLAY_NO_FRESH_CHANGES" \in ResultReasons
          /\ TRUE \in BOOLEAN /\ FALSE \in BOOLEAN
      BY Named
    <3> QED BY <3>1, <3>2, <3>3, FailedIs
  <2> QED BY <2>1, <2>2
<1>3. CASE ~OnlyCarried(r, f, s)
  <2>1. Judged(r, f, s, note) = RecoveredIfTargeted(b, t, s)
    BY <1>3 DEF Judged
  <2> HIDE DEF t
  <2>2. a \in Results /\ a.diff \subseteq r.diff \union t
    BY <1>1, TerminalizedIs
  <2> HIDE DEF a
  <2>3. b \in Results /\ b.diff \subseteq r.diff \union t
    BY <1>1, <2>2, CoercedIs
  <2> HIDE DEF b
  <2>4. RecoveredIfTargeted(b, t, s) \in {b, Recovered(b, t)}
    BY DEF RecoveredIfTargeted
  <2>5. t = f \union Carried(s)
    BY DEF t
  <2>6. Recovered(b, t) \in Results /\ Recovered(b, t).diff \subseteq b.diff \union t
    BY <1>1, <2>3, RecoveredIs
  <2>7. RecoveredIfTargeted(b, t, s) \in Results
        /\ RecoveredIfTargeted(b, t, s).diff \subseteq r.diff \union t
    BY <2>3, <2>4, <2>6
  <2> QED BY <2>1, <2>5, <2>7
<1> QED BY <1>2, <1>3

-----------------------------------------------------------------------------
(* The types, in full: the local variables of the threads, the attempts that *)
(* a plan has, and who holds the lock.                                       *)
Marks    == [Workers -> {0} \union Rounds]
WorkRec  == [pc : ThreadSteps, tree : SUBSET DiffFeatures, res : Results, again : BOOLEAN,
             marks : Marks]
WatchRec == [pc : {"idle", "act", "list", "write", "done"}, diff : SUBSET DiffFeatures,
             reason : ResultReasons \union {"keep"}, marks : Marks]
PoolRec  == [pc : {"loop", "review", "copy"}, at : Attempts \union {None}, res : Results,
             gave : BOOLEAN, told : BOOLEAN, late : BOOLEAN]
Recorded == [reason : ResultReasons, gave : BOOLEAN, sure : BOOLEAN,
             status : {"completed", "failed", "tolerated"}]
IsReal(a) == a \in Attempts /\ a[1] \in DOMAIN plan.rounds /\ a[2] \in DOMAIN plan.rounds[a[1]]

DispatchOK ==
  /\ plan \in Plans /\ round \in DOMAIN plan.rounds
  /\ stage \in {"pool", "over"}
PoolOK ==
  /\ pool \in PoolRec
  /\ pool.pc # "loop" => IsReal(pool.at)
WatchOK ==
  /\ watch \in [Strikers -> WatchRec]
  /\ watch[PoolThread].pc # "idle" => pool.pc = "review"
  /\ watch[PoolThread].reason = ""
  /\ \A a \in Attempts : watch[<<"snap", a>>].pc # "idle" \/ watch[<<"beat", a>>].pc # "idle" => IsReal(a)
ThreadsOK ==
  /\ fut \in [Attempts -> {"none", "queued", "running", "cancelled"}]
  /\ work \in [Attempts -> WorkRec]
  /\ \A a \in Attempts : fut[a] # "none" \/ work[a].pc # "none" => IsReal(a)
LockOK ==
  /\ lock \in Attempts \union {None}
  /\ lock # None => work[lock].pc \in {"marked", "cleared"}
  /\ \A a \in Attempts : work[a].pc \in {"marked", "cleared"} => lock = a
TablesOK ==
  /\ taken \subseteq Attempts /\ started \subseteq Attempts
  /\ active \in Marks /\ cancelled \subseteq Attempts
  /\ aborts \in [Attempts -> Results]
  /\ snap \in [Attempts -> SUBSET DiffFeatures]
  /\ events \in [Workers \X Subtasks -> Results \union {NoResult}]
  /\ results \in [Subtasks -> Recorded \union {NoResult}]
  /\ checkout \in [Subtasks -> SUBSET DiffFeatures]
  /\ struck \subseteq Attempts /\ synced \subseteq Attempts

TypeInv == DispatchOK /\ PoolOK /\ WatchOK /\ ThreadsOK /\ LockOK /\ TablesOK

(* The attempts of a plan.                                                   *)
LEMMA PlansIs ==
  ASSUME NEW p \in Plans
  PROVE  /\ 1 \in DOMAIN p.rounds /\ DOMAIN p.rounds = 1 .. Len(p.rounds)
         /\ DOMAIN p.rounds \subseteq Rounds
         /\ \A r \in DOMAIN p.rounds : /\ DOMAIN p.rounds[r] \subseteq Workers
                                       /\ \A i \in DOMAIN p.rounds[r] : p.rounds[r][i] \in Subtasks
         /\ 0 \notin DOMAIN p.rounds
<1>1. p.rounds \in Seq(Seq(Subtasks)) /\ p.rounds # <<>>
  BY WorkerPoolAssumption
<1>2. DOMAIN p.rounds = 1 .. Len(p.rounds) /\ Len(p.rounds) \in Nat
  BY <1>1
<1>3. Len(p.rounds) # 0
  BY <1>1
<1>4. 1 \in DOMAIN p.rounds /\ 0 \notin DOMAIN p.rounds
  BY <1>2, <1>3
<1>5. \A r \in DOMAIN p.rounds : \A i \in DOMAIN p.rounds[r] : p.rounds[r][i] \in Subtasks
  BY <1>1
<1>6. DOMAIN p.rounds \subseteq Rounds /\ \A r \in DOMAIN p.rounds : DOMAIN p.rounds[r] \subseteq Workers
  BY DEF Rounds, Workers
<1> QED BY <1>2, <1>4, <1>5, <1>6

LEMMA NoneIs == 0 \notin Rounds /\ None \notin Attempts
<1>1. 0 \notin Rounds
  BY PlansIs DEF Rounds
<1> QED BY <1>1 DEF None, Attempts

LEMMA RealIs ==
  ASSUME plan \in Plans, NEW a, IsReal(a)
  PROVE  /\ SubtaskOf(a) \in Subtasks /\ Demand(a) \subseteq Demands
         /\ EditsOf[SubtaskOf(a)] \in SUBSET SUBSET DiffFeatures
         /\ a[1] \in Rounds /\ a[2] \in Workers /\ a = <<a[1], a[2]>>
<1>1. SubtaskOf(a) \in Subtasks
  BY PlansIs DEF IsReal, SubtaskOf
<1>2. a[1] \in Rounds /\ a[2] \in Workers /\ a = <<a[1], a[2]>>
  BY DEF IsReal, Attempts
<1> QED BY <1>1, <1>2, WorkerPoolAssumption DEF Demand

LEMMA InRoundIs ==
  ASSUME plan \in Plans, NEW r \in DOMAIN plan.rounds, NEW a \in InRound(r)
  PROVE  IsReal(a)
  BY PlansIs DEF InRound, IsReal, Attempts

LEMMA CurrentIs ==
  ASSUME DispatchOK
  PROVE  \A a \in Current : IsReal(a)
  BY InRoundIs DEF DispatchOK, Current

LEMMA SubmittedIs ==
  ASSUME plan \in Plans, NEW r \in DOMAIN plan.rounds
  PROVE  \A a \in Submitted(r, plan) : IsReal(a)
<1>1. \A a \in Submitted(r, plan) : a \in InRound(r)
  BY DEF Submitted, InRound
<1> QED BY <1>1, InRoundIs

(* The empty records.                                                        *)
LEMMA EmptyIs ==
  /\ NoAbort \in Results /\ NoAbort.rc = 0 /\ NoAbort.diff = {}
  /\ NoWork \in WorkRec /\ NoWork.pc = "none" /\ NoWork.marks \in Marks
  /\ Ended \in WorkRec /\ Ended.pc = "done" /\ Ended.res = NoAbort
  /\ Idle \in WatchRec /\ Idle.pc = "idle" /\ Idle.reason = ""
<1>1. NoAbort \in Results /\ NoAbort.rc = 0 /\ NoAbort.diff = {}
  BY DoneIs DEF NoAbort
<1>2. [w \in Workers |-> 0] \in Marks
  BY DEF Marks
<1>3. NoWork \in WorkRec /\ NoWork.pc = "none" /\ NoWork.marks \in Marks /\ NoWork.res = NoAbort
  BY <1>1, <1>2 DEF NoWork, WorkRec, ThreadSteps
<1>4. Ended \in WorkRec /\ Ended.pc = "done" /\ Ended.res = NoAbort
  BY <1>3 DEF Ended, WorkRec, ThreadSteps
<1>5. Idle \in WatchRec /\ Idle.pc = "idle" /\ Idle.reason = ""
  BY <1>2, Named DEF Idle, WatchRec
<1> QED BY <1>1, <1>2, <1>3, <1>4, <1>5

LEMMA TypeInit == Init => TypeInv
<1> SUFFICES ASSUME Init PROVE TypeInv
  OBVIOUS
<1>p. plan \in Plans /\ round = 1 /\ 1 \in DOMAIN plan.rounds
  BY PlansIs DEF Init
<1>1. DispatchOK
  BY <1>p DEF Init, DispatchOK
<1>2. PoolOK
  BY EmptyIs DEF Init, PoolOK, PoolRec
<1>3. WatchOK
  <2>1. watch = [x \in Strikers |-> Idle]
    BY DEF Init
  <2>2. \A x \in Strikers : watch[x] = Idle
    BY <2>1
  <2>3. PoolThread \in Strikers /\ \A a \in Attempts : <<"snap", a>> \in Strikers /\ <<"beat", a>> \in Strikers
    BY DEF Strikers, Guards
  <2> QED BY <2>1, <2>2, <2>3, EmptyIs DEF WatchOK
<1>4. ThreadsOK
  <2>1. \A a \in Attempts : fut[a] # "none" => a \in Submitted(1, plan)
    BY DEF Init
  <2> QED BY <2>1, <1>p, SubmittedIs, EmptyIs DEF Init, ThreadsOK
<1>5. LockOK
  BY EmptyIs DEF Init, LockOK
<1>6. TablesOK
  <2>1. active \in Marks
    BY DEF Init, Marks
  <2> QED BY <2>1, EmptyIs DEF Init, TablesOK
<1> QED BY <1>1, <1>2, <1>3, <1>4, <1>5, <1>6 DEF TypeInv

LEMMA TypeInvImplies == TypeInv => TypeOK
<1> SUFFICES ASSUME TypeInv PROVE TypeOK
  OBVIOUS
<1> USE DEF TypeInv
<1>1. plan \in Plans /\ round \in Rounds /\ stage \in {"pool", "over"}
  BY PlansIs DEF DispatchOK
<1>2. pool.pc \in {"loop", "review", "copy"} /\ pool.at \in Attempts \union {None} /\ pool.res \in Results
  BY DEF PoolOK, PoolRec
<1>3. \A a \in Attempts : work[a].pc \in ThreadSteps /\ work[a].res \in Results
  BY DEF ThreadsOK, WorkRec
<1>4. \A x \in Strikers : watch[x].pc \in {"idle", "act", "list", "write", "done"}
  BY DEF WatchOK, WatchRec
<1>5. \A k \in Workers \X Subtasks : events[k] = NoResult \/ events[k] \in Results
  BY DEF TablesOK
<1> QED BY <1>1, <1>2, <1>3, <1>4, <1>5 DEF TypeOK, ThreadsOK, LockOK, TablesOK, Marks

-----------------------------------------------------------------------------
(* A step of the thread of attempt a.                                        *)
LEMMA AnswersIs ==
  ASSUME NEW r \in Answers
  PROVE  r \in Results /\ r.diff = {}
<1>1. Done({}) \in Results /\ Done({}).diff = {}
  BY DoneIs
<1>2. LET e == [Done({}) EXCEPT !.reason = "WORKER_REPORTED_BLOCKER"]
      IN  e \in Results /\ e.diff = {}
  BY <1>1, Named, EditReason
<1>3. \A x \in EngineReasons : Failed(x, FALSE, {}) \in Results /\ Failed(x, FALSE, {}).diff = {}
  BY Named DEF Failed, Results
<1> QED BY <1>1, <1>2, <1>3 DEF Answers

(* The thread of one attempt moves.                                          *)
OneMoves(a) ==
  /\ work' \in [Attempts -> WorkRec]
  /\ \A b \in Attempts : b # a => work'[b] = work[b]

LEMMA OneMovesIs ==
  ASSUME ThreadsOK, NEW a \in Attempts, NEW w \in WorkRec, work' = [work EXCEPT ![a] = w]
  PROVE  OneMoves(a) /\ work'[a] = w
  BY DEF ThreadsOK, OneMoves

(* How its record changes.                                                   *)
LEMMA EditStep ==
  ASSUME NEW w \in WorkRec, NEW s \in ThreadSteps
  PROVE  LET e == [w EXCEPT !.pc = s]
         IN  e \in WorkRec /\ e.pc = s /\ e.res = w.res /\ e.tree = w.tree
  BY DEF WorkRec

LEMMA EditTree ==
  ASSUME NEW w \in WorkRec, NEW d \in SUBSET DiffFeatures
  PROVE  LET e == [w EXCEPT !.tree = d]
         IN  e \in WorkRec /\ e.pc = w.pc /\ e.res = w.res
  BY DEF WorkRec

LEMMA EditAgain ==
  ASSUME NEW w \in WorkRec
  PROVE  LET e == [w EXCEPT !.again = TRUE]
         IN  e \in WorkRec /\ e.pc = w.pc /\ e.res = w.res /\ e.tree = w.tree
  BY DEF WorkRec

LEMMA LateIs ==
  ASSUME TypeInv, NEW a \in Attempts, NEW r \in Results, LateResult(a, r)
  PROVE  OneMoves(a) /\ work'[a].pc = "clear" /\ work'[a].res.rc = 1
<1>t. work[a] \in WorkRec /\ work \in [Attempts -> WorkRec]
  BY DEF TypeInv, ThreadsOK
<1>s. "clear" \in ThreadSteps
  BY DEF ThreadSteps
<1> DEFINE x == IF Terminal THEN "WORKER_RESULT_AFTER_RUN_TERMINAL"
                ELSE "WORKER_RESULT_AFTER_RETRY_SUPERSEDED"
           e == [r EXCEPT !.rc = 1, !.reason = x]
           w == [work[a] EXCEPT !.pc = "clear", !.res = e]
<1>1. x \in ResultReasons
  BY Named
<1>3. work' = [work EXCEPT ![a] = w]
  BY <1>t DEF LateResult
<1> HIDE DEF x
<1>2. e \in Results /\ e.rc = 1
  BY <1>1, EditFail
<1> HIDE DEF e
<1>4. w \in WorkRec /\ w.pc = "clear" /\ w.res = e
  BY <1>2, <1>t, <1>s DEF WorkRec
<1> HIDE DEF w
<1> QED BY <1>2, <1>3, <1>4, OneMovesIs DEF TypeInv

(* An answer, and what has been judged when the thread goes to its last      *)
(* check.                                                                    *)
LEMMA AnswerIs ==
  ASSUME TypeInv, NEW a \in Attempts, IsReal(a), Answer(a)
  PROVE  /\ OneMoves(a) /\ work[a].pc = "prompt"
         /\ \/ work'[a].pc = "prompt"
            \/ work'[a].pc = "clear" /\ work'[a].res.rc = 1
            \/ /\ work'[a].pc = "last"
               /\ work'[a].res.diff \subseteq work'[a].tree \union Carried(Demand(a))
<1>t. work[a] \in WorkRec /\ work \in [Attempts -> WorkRec] /\ work[a].tree \in SUBSET DiffFeatures
      /\ plan \in Plans
  BY DEF TypeInv, ThreadsOK, WorkRec, DispatchOK
<1>s. {"last", "clear"} \subseteq ThreadSteps
  BY DEF ThreadSteps
<1>1. PICK r \in MayAnswer :
       IF Terminal \/ (~IsCurrent(a) /\ ~work[a].again)
       THEN LateResult(a, r)
       ELSE \E note \in MayNote, seed \in {{}} \union EditsOf[SubtaskOf(a)] :
              LET res == Judged(r, work[a].tree, Demand(a), note)
              IN work' = [work EXCEPT ![a] =
                   IF Seeds(res, work[a].tree, Demand(a)) /\ ~@.again /\ Files(seed) # {}
                   THEN [@ EXCEPT !.pc = "last", !.tree = seed, !.res = Done(seed)]
                   ELSE IF Retries(res) /\ ~@.again
                   THEN [@ EXCEPT !.again = TRUE]
                   ELSE [@ EXCEPT !.pc = "last", !.res = res]]
  BY DEF Answer
<1>2. work[a].pc = "prompt"
  BY DEF Answer
<1>r. r \in Results /\ r.diff = {}
  BY AnswersIs, WorkerPoolAssumption
<1>3. CASE LateResult(a, r)
  BY <1>2, <1>3, <1>r, LateIs
<1>4. CASE ~LateResult(a, r)
  <2>1. PICK note \in MayNote, seed \in {{}} \union EditsOf[SubtaskOf(a)] :
          work' = [work EXCEPT ![a] =
                   IF Seeds(Judged(r, work[a].tree, Demand(a), note), work[a].tree, Demand(a)) /\ ~@.again /\ Files(seed) # {}
                   THEN [@ EXCEPT !.pc = "last", !.tree = seed, !.res = Done(seed)]
                   ELSE IF Retries(Judged(r, work[a].tree, Demand(a), note)) /\ ~@.again
                   THEN [@ EXCEPT !.again = TRUE]
                   ELSE [@ EXCEPT !.pc = "last", !.res = Judged(r, work[a].tree, Demand(a), note)]]
    BY <1>1, <1>4
  <2> DEFINE res == Judged(r, work[a].tree, Demand(a), note)
             w1 == [work[a] EXCEPT !.pc = "last", !.tree = seed, !.res = Done(seed)]
             w2 == [work[a] EXCEPT !.again = TRUE]
             w3 == [work[a] EXCEPT !.pc = "last", !.res = res]
  <2>2. \E w \in {w1, w2, w3} : work' = [work EXCEPT ![a] = w]
    <3> DEFINE w == IF Seeds(res, work[a].tree, Demand(a)) /\ ~work[a].again /\ Files(seed) # {}
                    THEN w1 ELSE IF Retries(res) /\ ~work[a].again THEN w2 ELSE w3
    <3>1. w \in {w1, w2, w3}
      OBVIOUS
    <3>2. work' = [work EXCEPT ![a] = w]
      BY <2>1, <1>t
    <3> QED BY <3>1, <3>2
  <2>3. res \in Results /\ res.diff \subseteq work[a].tree \union Carried(Demand(a))
    BY <1>r, <1>t, JudgedIs
  <2>4. seed \in SUBSET DiffFeatures
    BY <1>t, RealIs
  <2> HIDE DEF res
  <2>5. w1 \in WorkRec /\ w1.pc = "last" /\ w1.res.diff = seed /\ w1.tree = seed
    <3>1. Done(seed) \in Results /\ Done(seed).diff = seed
      BY <2>4, DoneIs
    <3> DEFINE y == Done(seed)
    <3>2. y \in Results /\ y.diff = seed
      BY <3>1
    <3>3. w1 = [work[a] EXCEPT !.pc = "last", !.tree = seed, !.res = y]
      OBVIOUS
    <3> HIDE DEF y, w1
    <3>4. w1 \in WorkRec /\ w1.pc = "last" /\ w1.res = y /\ w1.tree = seed
      BY <1>t, <1>s, <2>4, <3>2, <3>3 DEF WorkRec
    <3> QED BY <3>2, <3>4
  <2>6. w2 \in WorkRec /\ w2.pc = "prompt"
    BY <1>t, <1>2, EditAgain
  <2>7. w3 \in WorkRec /\ w3.pc = "last" /\ w3.res = res /\ w3.tree = work[a].tree
    BY <1>t, <1>s, <2>3 DEF WorkRec
  <2> HIDE DEF w1, w2, w3
  <2>8. PICK w \in {w1, w2, w3} : work' = [work EXCEPT ![a] = w]
    BY <2>2
  <2>9. OneMoves(a) /\ work'[a] = w
    BY <2>5, <2>6, <2>7, <2>8, OneMovesIs DEF TypeInv
  <2> QED BY <1>2, <2>3, <2>5, <2>6, <2>7, <2>8, <2>9
<1> QED BY <1>3, <1>4

(* The last check.                                                           *)
LEMMA LastCheckIs ==
  ASSUME TypeInv, NEW a \in Attempts, LastCheck(a)
  PROVE  /\ OneMoves(a) /\ work[a].pc = "last"
         /\ \/ work'[a].pc = "clear" /\ work'[a].res.rc # 0
            \/ /\ work'[a].pc = "sync" /\ work'[a].res = work[a].res /\ work'[a].tree = work[a].tree
               /\ work[a].res.rc = 0 /\ a \notin cancelled
<1>t. work[a] \in WorkRec /\ work \in [Attempts -> WorkRec] /\ work[a].res \in Results
  BY DEF TypeInv, ThreadsOK, WorkRec
<1>s. {"sync", "clear"} \subseteq ThreadSteps
  BY DEF ThreadSteps
<1>1. CASE LateResult(a, work[a].res)
  <2>1. OneMoves(a) /\ work'[a].pc = "clear" /\ work'[a].res.rc = 1
    BY <1>1, <1>t, LateIs
  <2> QED BY <2>1 DEF LastCheck
<1>2. ASSUME NEW s \in {"sync", "clear"}, Goto(a, s),
             s = "sync" => work[a].res.rc = 0 /\ a \notin cancelled,
             s = "clear" => work[a].res.rc # 0
      PROVE  /\ OneMoves(a)
             /\ \/ work'[a].pc = "clear" /\ work'[a].res.rc # 0
                \/ /\ work'[a].pc = "sync" /\ work'[a].res = work[a].res /\ work'[a].tree = work[a].tree
                   /\ work[a].res.rc = 0 /\ a \notin cancelled
  <2> DEFINE w == [work[a] EXCEPT !.pc = s]
  <2>1. w \in WorkRec /\ w.pc = s /\ w.res = work[a].res /\ w.tree = work[a].tree
    BY <1>2, <1>t, <1>s, EditStep
  <2>2. work' = [work EXCEPT ![a] = w]
    BY <1>2, <1>t DEF Goto
  <2> HIDE DEF w
  <2>3. OneMoves(a) /\ work'[a] = w
    BY <2>1, <2>2, OneMovesIs DEF TypeInv
  <2> QED BY <1>2, <2>1, <2>3
<1>3. work[a].pc = "last"
  BY DEF LastCheck
<1>4. \/ LateResult(a, work[a].res)
      \/ Goto(a, "sync") /\ work[a].res.rc = 0 /\ a \notin cancelled
      \/ Goto(a, "clear") /\ work[a].res.rc # 0
  BY DEF LastCheck, IsCurrent
<1> QED BY <1>1, <1>2, <1>3, <1>4

(* The copy of the worktree.                                                 *)
LEMMA SyncIs ==
  ASSUME TypeInv, NEW a \in Attempts, IsReal(a), Sync(a)
  PROVE  /\ OneMoves(a) /\ work[a].pc = "sync" /\ work'[a].pc = "clear"
         /\ work'[a].res \in Results /\ work'[a].res.rc = work[a].res.rc
         /\ work'[a].res.diff = work[a].res.diff \union work[a].tree
         /\ checkout' = [checkout EXCEPT ![SubtaskOf(a)] = @ \union work[a].tree]
         /\ checkout' \in [Subtasks -> SUBSET DiffFeatures]
         /\ \A s \in Subtasks : checkout[s] \subseteq checkout'[s]
         /\ work[a].tree \subseteq checkout'[SubtaskOf(a)]
<1>t. work[a] \in WorkRec /\ work \in [Attempts -> WorkRec] /\ work[a].res \in Results
      /\ work[a].tree \in SUBSET DiffFeatures /\ work[a].res.diff \subseteq DiffFeatures
      /\ checkout \in [Subtasks -> SUBSET DiffFeatures] /\ plan \in Plans
  BY DEF TypeInv, ThreadsOK, WorkRec, TablesOK, DispatchOK, Results
<1>s. "clear" \in ThreadSteps
  BY DEF ThreadSteps
<1> DEFINE d == work[a].res.diff \union work[a].tree
           e == [work[a].res EXCEPT !.diff = d]
           w == [work[a] EXCEPT !.pc = "clear", !.res = e]
<1>1. work' = [work EXCEPT ![a] = w]
  BY <1>t DEF Sync, WorkRec, Results
<1>2. d \in SUBSET DiffFeatures
  BY <1>t
<1>3. e \in Results /\ e.rc = work[a].res.rc /\ e.diff = d
  BY <1>2, <1>t, EditDiff
<1> HIDE DEF e
<1>4. w \in WorkRec /\ w.pc = "clear" /\ w.res = e
  BY <1>3, <1>t, <1>s DEF WorkRec
<1> HIDE DEF w
<1>5. OneMoves(a) /\ work'[a] = w
  BY <1>1, <1>4, OneMovesIs DEF TypeInv
<1>6. checkout' = [checkout EXCEPT ![SubtaskOf(a)] = @ \union work[a].tree] /\ SubtaskOf(a) \in Subtasks
  BY <1>t, RealIs DEF Sync
<1>7. /\ checkout' \in [Subtasks -> SUBSET DiffFeatures]
      /\ \A s \in Subtasks : checkout[s] \subseteq checkout'[s]
      /\ work[a].tree \subseteq checkout'[SubtaskOf(a)]
  BY <1>6, <1>t
<1>8. work[a].pc = "sync"
  BY DEF Sync
<1> QED BY <1>3, <1>4, <1>5, <1>6, <1>7, <1>8

(* The rest of the thread, before and after.                                 *)
LEMMA StartIs ==
  ASSUME TypeInv, NEW a \in Attempts, Start(a)
  PROVE  OneMoves(a) /\ work[a].pc = "none" /\ work'[a].pc = "setup" /\ IsReal(a)
<1>t. work[a] \in WorkRec /\ work \in [Attempts -> WorkRec]
  BY DEF TypeInv, ThreadsOK
<1>s. "setup" \in ThreadSteps
  BY DEF ThreadSteps
<1> DEFINE w == [work[a] EXCEPT !.pc = "setup"]
<1>1. work' = [work EXCEPT ![a] = w]
  BY <1>t DEF Start, Goto
<1>2. w \in WorkRec /\ w.pc = "setup"
  BY <1>t, <1>s, EditStep
<1> HIDE DEF w
<1>3. OneMoves(a) /\ work'[a] = w
  BY <1>1, <1>2, OneMovesIs DEF TypeInv
<1>4. work[a].pc = "none" /\ IsReal(a)
  BY DEF Start, TypeInv, ThreadsOK
<1> QED BY <1>2, <1>3, <1>4

LEMMA SetupFailsIs ==
  ASSUME TypeInv, NEW a \in Attempts, SetupFails(a)
  PROVE  /\ OneMoves(a) /\ work[a].pc = "setup" /\ work'[a].pc = "done"
         /\ work'[a].res = NoAbort \/ work'[a].res.rc = 1
<1>1. PICK r \in {"", "CARRY_FORWARD_PATCH_APPLY_FAILED"} :
        work' = [work EXCEPT ![a] = IF a \in taken THEN Ended
                                    ELSE [Ended EXCEPT !.res = Failed(r, FALSE, {})]]
  BY DEF SetupFails
<1> DEFINE e == Failed(r, FALSE, {})
           v == [Ended EXCEPT !.res = e]
<1>2. e \in Results /\ e.rc = 1
  BY Named DEF Failed, Results
<1> HIDE DEF e
<1>3. v \in WorkRec /\ v.pc = "done" /\ v.res = e
  BY <1>2, EmptyIs DEF WorkRec
<1>4. \E w \in {Ended, v} : work' = [work EXCEPT ![a] = w]
  <2>1. v = [Ended EXCEPT !.res = Failed(r, FALSE, {})]
    BY DEF e
  <2> HIDE DEF v
  <2> QED BY <1>1, <2>1
<1> HIDE DEF v
<1>5. PICK w \in {Ended, v} : work' = [work EXCEPT ![a] = w]
  BY <1>4
<1>6. w \in WorkRec /\ w.pc = "done" /\ (w.res = NoAbort \/ w.res.rc = 1)
  BY <1>2, <1>3, <1>5, EmptyIs
<1>7. OneMoves(a) /\ work'[a] = w
  BY <1>5, <1>6, OneMovesIs DEF TypeInv
<1>8. work[a].pc = "setup"
  BY DEF SetupFails
<1> QED BY <1>6, <1>7, <1>8

LEMMA LoadIs ==
  ASSUME TypeInv, NEW a \in Attempts, Load(a)
  PROVE  /\ OneMoves(a) /\ work'[a].res = work[a].res
         /\ \/ work[a].pc = "setup" /\ work'[a].pc = "marked"
            \/ work[a].pc = "clear" /\ work'[a].pc = "cleared"
<1>t. work[a] \in WorkRec /\ work \in [Attempts -> WorkRec] /\ active \in Marks
  BY DEF TypeInv, ThreadsOK, TablesOK
<1>s. {"marked", "cleared"} \subseteq ThreadSteps
  BY DEF ThreadSteps
<1> DEFINE x == IF work[a].pc = "setup" THEN "marked" ELSE "cleared"
           w == [work[a] EXCEPT !.pc = x, !.marks = active]
<1>1. work' = [work EXCEPT ![a] = w]
  BY <1>t DEF Load, WorkRec
<1>2. x \in ThreadSteps
  BY <1>s
<1>3. \/ work[a].pc = "setup" /\ x = "marked"
      \/ work[a].pc = "clear" /\ x = "cleared"
  BY DEF Load
<1> HIDE DEF x
<1>4. w \in WorkRec /\ w.pc = x /\ w.res = work[a].res
  BY <1>2, <1>t DEF WorkRec
<1> HIDE DEF w
<1>5. OneMoves(a) /\ work'[a] = w
  BY <1>1, <1>4, OneMovesIs DEF TypeInv
<1> QED BY <1>3, <1>4, <1>5

LEMMA MarkIs ==
  ASSUME TypeInv, NEW a \in Attempts, IsReal(a), Mark(a)
  PROVE  OneMoves(a) /\ work[a].pc = "marked" /\ work'[a].pc = "prompt" /\ active' \in Marks
<1>t. work[a] \in WorkRec /\ work \in [Attempts -> WorkRec] /\ work[a].marks \in Marks /\ plan \in Plans
  BY DEF TypeInv, ThreadsOK, WorkRec, DispatchOK
<1>s. "prompt" \in ThreadSteps /\ NoWork.marks \in Marks
  BY EmptyIs DEF ThreadSteps
<1> DEFINE m == NoWork.marks
           w == [work[a] EXCEPT !.pc = "prompt", !.marks = m]
<1>1. work' = [work EXCEPT ![a] = w]
  BY <1>t DEF Mark, WorkRec
<1> HIDE DEF m
<1>2. w \in WorkRec /\ w.pc = "prompt"
  BY <1>s, <1>t DEF WorkRec, m
<1> HIDE DEF w
<1>3. OneMoves(a) /\ work'[a] = w
  BY <1>1, <1>2, OneMovesIs DEF TypeInv
<1>4. active' \in Marks
  BY <1>t, RealIs DEF Mark, Marks
<1>5. work[a].pc = "marked"
  BY DEF Mark
<1> QED BY <1>2, <1>3, <1>4, <1>5

LEMMA ClearIs ==
  ASSUME TypeInv, NEW a \in Attempts, IsReal(a), Clear(a)
  PROVE  /\ OneMoves(a) /\ work[a].pc = "cleared" /\ work'[a].pc = "done" /\ active' \in Marks
         /\ work'[a].res = NoAbort \/ work'[a].res = work[a].res
<1>t. work[a] \in WorkRec /\ work \in [Attempts -> WorkRec] /\ work[a].marks \in Marks /\ plan \in Plans
      /\ active \in Marks
  BY DEF TypeInv, ThreadsOK, WorkRec, DispatchOK, TablesOK
<1>s. "done" \in ThreadSteps /\ NoWork.marks \in Marks
  BY EmptyIs DEF ThreadSteps
<1> DEFINE m == NoWork.marks
           v == [work[a] EXCEPT !.pc = "done", !.marks = m]
           w == IF a \in taken THEN Ended ELSE v
<1>1. work' = [work EXCEPT ![a] = w]
  BY <1>t DEF Clear, WorkRec
<1> HIDE DEF m
<1>2. v \in WorkRec /\ v.pc = "done" /\ v.res = work[a].res
  BY <1>s, <1>t DEF WorkRec, m
<1> HIDE DEF v
<1>3. w \in WorkRec /\ w.pc = "done" /\ (w.res = NoAbort \/ w.res = work[a].res)
  BY <1>2, EmptyIs
<1> HIDE DEF w
<1>4. OneMoves(a) /\ work'[a] = w
  BY <1>1, <1>3, OneMovesIs DEF TypeInv
<1>5. active' \in Marks
  BY <1>t, RealIs DEF Clear, Marks
<1>6. work[a].pc = "cleared"
  BY DEF Clear
<1> QED BY <1>3, <1>4, <1>5, <1>6

LEMMA EditIs ==
  ASSUME TypeInv, NEW a \in Attempts, IsReal(a), Edit(a)
  PROVE  OneMoves(a) /\ work[a].pc = "prompt" /\ work'[a].pc = "prompt"
<1>t. work[a] \in WorkRec /\ work \in [Attempts -> WorkRec] /\ plan \in Plans
  BY DEF TypeInv, ThreadsOK, DispatchOK
<1>1. PICK d \in EditsOf[SubtaskOf(a)] : work' = [work EXCEPT ![a].tree = d]
  BY DEF Edit
<1> DEFINE w == [work[a] EXCEPT !.tree = d]
<1>2. d \in SUBSET DiffFeatures
  BY <1>t, RealIs
<1>3. work[a].pc = "prompt"
  BY DEF Edit
<1>4. work' = [work EXCEPT ![a] = w]
  BY <1>1, <1>t
<1>5. w \in WorkRec /\ w.pc = "prompt"
  BY <1>2, <1>3, <1>t, EditTree
<1> HIDE DEF w
<1>6. OneMoves(a) /\ work'[a] = w
  BY <1>4, <1>5, OneMovesIs DEF TypeInv
<1> QED BY <1>3, <1>5, <1>6

(* The lock when it is left alone, taken and given back.                     *)
LEMMA LockKept ==
  ASSUME LockOK, NEW a \in Attempts, OneMoves(a), lock' = lock,
         work[a].pc \notin {"marked", "cleared"}, work'[a].pc \notin {"marked", "cleared"}
  PROVE  LockOK'
<1>1. None \notin Attempts
  BY NoneIs
<1> QED BY <1>1 DEF LockOK, OneMoves

LEMMA LockTaken ==
  ASSUME LockOK, NEW a \in Attempts, OneMoves(a), lock = None, lock' = a,
         work'[a].pc \in {"marked", "cleared"}
  PROVE  LockOK'
<1>1. None \notin Attempts
  BY NoneIs
<1> QED BY <1>1 DEF LockOK, OneMoves

LEMMA LockReleased ==
  ASSUME LockOK, NEW a \in Attempts, OneMoves(a), lock' = None,
         work[a].pc \in {"marked", "cleared"}, work'[a].pc \notin {"marked", "cleared"}
  PROVE  LockOK'
<1>1. None \notin Attempts
  BY NoneIs
<1> QED BY <1>1 DEF LockOK, OneMoves

LEMMA ThreadReal ==
  ASSUME TypeInv, NEW a \in Attempts, ThreadStep(a)
  PROVE  IsReal(a)
<1>1. CASE Start(a)
  BY <1>1, StartIs
<1>2. CASE ~Start(a)
  <2>1. work[a].pc # "none"
    BY <1>2 DEF ThreadStep, SetupFails, Load, Mark, Clear, Edit, Answer, LastCheck, Sync
  <2> QED BY <2>1 DEF TypeInv, ThreadsOK
<1> QED BY <1>1, <1>2

LEMMA PublishIs ==
  ASSUME TypeInv, NEW a \in Attempts, IsReal(a), NEW res \in Results, Publish(a, res)
  PROVE  events' \in [Workers \X Subtasks -> Results \union {NoResult}]
<1>1. <<a[2], SubtaskOf(a)>> \in Workers \X Subtasks
  BY RealIs DEF TypeInv, DispatchOK
<1> QED BY <1>1 DEF Publish, TypeInv, TablesOK

(* What a step of a thread leaves alone.                                     *)
LEMMA ThreadKeeps ==
  ASSUME TypeInv, NEW a \in Attempts, IsReal(a), OneMoves(a), UNCHANGED Unshared,
         fut' = fut \/ fut' = [fut EXCEPT ![a] = "running"], LockOK', TablesOK'
  PROVE  TypeInv'
<1>1. plan' = plan /\ pool' = pool /\ watch' = watch /\ round' = round /\ stage' = stage
  BY DEF Unshared, dispatch
<1>2. DispatchOK' /\ PoolOK'
  BY <1>1 DEF TypeInv, DispatchOK, PoolOK, IsReal
<1>3. WatchOK'
  BY <1>1 DEF TypeInv, WatchOK, IsReal
<1>4. ThreadsOK'
  <2>1. fut' \in [Attempts -> {"none", "queued", "running", "cancelled"}]
    BY DEF TypeInv, ThreadsOK
  <2>2. \A b \in Attempts : b # a => fut'[b] = fut[b] /\ work'[b] = work[b]
    BY DEF TypeInv, ThreadsOK, OneMoves
  <2>3. \A b \in Attempts : fut'[b] # "none" \/ work'[b].pc # "none" => IsReal(b)
    BY <2>2 DEF TypeInv, ThreadsOK
  <2> QED BY <1>1, <2>1, <2>3 DEF ThreadsOK, OneMoves, IsReal
<1> QED BY <1>2, <1>3, <1>4 DEF TypeInv

LEMMA ThreadTyped ==
  ASSUME TypeInv, NEW a \in Attempts, ThreadStep(a)
  PROVE  TypeInv' /\ OneMoves(a)
<1>r. IsReal(a)
  BY ThreadReal
<1>t. LockOK /\ TablesOK /\ work[a] \in WorkRec /\ work[a].res \in Results
  BY DEF TypeInv, ThreadsOK, WorkRec
<1> USE DEF Unshared, files, history
<1>1. CASE Start(a)
  <2>1. OneMoves(a) /\ work[a].pc = "none" /\ work'[a].pc = "setup"
    BY <1>1, StartIs
  <2>2. LockOK'
    BY <1>1, <1>t, <2>1, LockKept DEF Start
  <2>3. TablesOK'
    BY <1>1, <1>t DEF Start, TablesOK
  <2>4. UNCHANGED Unshared /\ fut' = [fut EXCEPT ![a] = "running"]
    BY <1>1 DEF Start
  <2> QED BY ONLY TypeInv, a \in Attempts, <1>r, <2>1, <2>2, <2>3, <2>4, ThreadKeeps
<1>2. CASE SetupFails(a)
  <2>1. OneMoves(a) /\ work[a].pc = "setup" /\ work'[a].pc = "done"
    BY <1>2, SetupFailsIs
  <2>2. LockOK'
    BY <1>2, <1>t, <2>1, LockKept DEF SetupFails
  <2>3. TablesOK'
    BY <1>2, <1>t DEF SetupFails, TablesOK
  <2>4. UNCHANGED Unshared /\ fut' = fut
    BY <1>2 DEF SetupFails
  <2> QED BY ONLY TypeInv, a \in Attempts, <1>r, <2>1, <2>2, <2>3, <2>4, ThreadKeeps
<1>3. CASE Load(a)
  <2>1. OneMoves(a) /\ work'[a].pc \in {"marked", "cleared"}
    BY <1>3, LoadIs
  <2>2. LockOK'
    BY <1>3, <1>t, <2>1, LockTaken DEF Load
  <2>3. TablesOK'
    BY <1>3, <1>t DEF Load, TablesOK
  <2>4. UNCHANGED Unshared /\ fut' = fut
    BY <1>3 DEF Load
  <2> QED BY ONLY TypeInv, a \in Attempts, <1>r, <2>1, <2>2, <2>3, <2>4, ThreadKeeps
<1>4. CASE Mark(a)
  <2>1. OneMoves(a) /\ work[a].pc = "marked" /\ work'[a].pc = "prompt" /\ active' \in Marks
    BY <1>4, <1>r, MarkIs
  <2>2. LockOK'
    BY <1>4, <1>t, <2>1, LockReleased DEF Mark
  <2>3. TablesOK'
    BY <1>4, <1>t, <2>1 DEF Mark, TablesOK
  <2>4. UNCHANGED Unshared /\ fut' = fut
    BY <1>4 DEF Mark
  <2> QED BY ONLY TypeInv, a \in Attempts, <1>r, <2>1, <2>2, <2>3, <2>4, ThreadKeeps
<1>5. CASE Clear(a)
  <2>1. OneMoves(a) /\ work[a].pc = "cleared" /\ work'[a].pc = "done" /\ active' \in Marks
    BY <1>5, <1>r, ClearIs
  <2>2. LockOK'
    BY <1>5, <1>t, <2>1, LockReleased DEF Clear
  <2>3. TablesOK'
    BY <1>5, <1>t, <2>1 DEF Clear, TablesOK
  <2>4. UNCHANGED Unshared /\ fut' = fut
    BY <1>5 DEF Clear
  <2> QED BY ONLY TypeInv, a \in Attempts, <1>r, <2>1, <2>2, <2>3, <2>4, ThreadKeeps
<1>6. CASE Edit(a)
  <2>1. OneMoves(a) /\ work[a].pc = "prompt" /\ work'[a].pc = "prompt"
    BY <1>6, <1>r, EditIs
  <2>2. LockOK'
    BY <1>6, <1>t, <2>1, LockKept DEF Edit
  <2>3. TablesOK'
    BY <1>6, <1>t DEF Edit, TablesOK
  <2>4. UNCHANGED Unshared /\ fut' = fut
    BY <1>6 DEF Edit
  <2> QED BY ONLY TypeInv, a \in Attempts, <1>r, <2>1, <2>2, <2>3, <2>4, ThreadKeeps
<1>7. CASE Answer(a)
  <2>1. OneMoves(a) /\ work[a].pc = "prompt" /\ work'[a].pc \in {"prompt", "clear", "last"}
    BY <1>7, <1>r, AnswerIs
  <2>2. LockOK'
    BY <1>7, <1>t, <2>1, LockKept DEF Answer
  <2>3. TablesOK'
    BY <1>7, <1>t DEF Answer, TablesOK
  <2>4. UNCHANGED Unshared /\ fut' = fut
    BY <1>7 DEF Answer
  <2> QED BY ONLY TypeInv, a \in Attempts, <1>r, <2>1, <2>2, <2>3, <2>4, ThreadKeeps
<1>8. CASE LastCheck(a)
  <2>1. OneMoves(a) /\ work[a].pc = "last" /\ work'[a].pc \in {"sync", "clear"}
    BY <1>8, LastCheckIs
  <2>2. LockOK'
    BY <1>8, <1>t, <2>1, LockKept DEF LastCheck
  <2>3. UNCHANGED events \/ Publish(a, work[a].res)
    BY <1>8 DEF LastCheck
  <2>4. TablesOK'
    BY <1>8, <1>r, <1>t, <2>3, PublishIs DEF LastCheck, TablesOK
  <2>5. UNCHANGED Unshared /\ fut' = fut
    BY <1>8 DEF LastCheck
  <2> QED BY ONLY TypeInv, a \in Attempts, <1>r, <2>1, <2>2, <2>4, <2>5, ThreadKeeps
<1>9. CASE Sync(a)
  <2>1. /\ OneMoves(a) /\ work[a].pc = "sync" /\ work'[a].pc = "clear"
        /\ work'[a].res \in Results /\ checkout' \in [Subtasks -> SUBSET DiffFeatures]
    BY <1>9, <1>r, SyncIs
  <2>2. LockOK'
    BY <1>9, <1>t, <2>1, LockKept DEF Sync
  <2>3. Publish(a, work'[a].res)
    BY <1>9 DEF Sync
  <2>4. events' \in [Workers \X Subtasks -> Results \union {NoResult}]
    BY <1>r, <2>1, <2>3, PublishIs
  <2>5. TablesOK'
    BY <1>9, <1>t, <2>1, <2>4 DEF Sync, TablesOK
  <2>6. UNCHANGED Unshared /\ fut' = fut
    BY <1>9 DEF Sync
  <2> QED BY ONLY TypeInv, a \in Attempts, <1>r, <2>1, <2>2, <2>5, <2>6, ThreadKeeps
<1> QED BY <1>1, <1>2, <1>3, <1>4, <1>5, <1>6, <1>7, <1>8, <1>9 DEF ThreadStep

-----------------------------------------------------------------------------
(* The watchers and the strikers.                                            *)
LEMMA StrikersAre ==
  /\ PoolThread \in Strikers
  /\ \A a \in Attempts : <<"snap", a>> \in Strikers /\ <<"beat", a>> \in Strikers
                         /\ <<"snap", a>> # PoolThread /\ <<"beat", a>> # PoolThread
  /\ \A x \in Strikers : x # PoolThread =>
       x[2] \in Attempts /\ (x = <<"snap", x[2]>> \/ x = <<"beat", x[2]>>)
  BY DEF Strikers, Guards, PoolThread

LEMMA StrikerIs ==
  ASSUME TypeInv, NEW x \in Strikers, watch[x].pc # "idle"
  PROVE  Target(x) \in Workers /\ (x # PoolThread => IsReal(x[2]))
<1>1. CASE x = PoolThread
  <2>1. IsReal(pool.at)
    BY <1>1 DEF TypeInv, WatchOK, PoolOK
  <2> QED BY <1>1, <2>1, RealIs DEF Target, TypeInv, DispatchOK
<1>2. CASE x # PoolThread
  <2>1. IsReal(x[2])
    BY <1>2, StrikersAre DEF TypeInv, WatchOK
  <2> QED BY <1>2, <2>1, RealIs DEF Target, TypeInv, DispatchOK
<1> QED BY <1>1, <1>2

LEMMA WatchMoves ==
  ASSUME WatchOK, NEW x \in Strikers, NEW w \in WatchRec, watch' = [watch EXCEPT ![x] = w],
         plan' = plan, pool' = pool,
         x = PoolThread => w.reason = "" /\ (w.pc = "idle" \/ pool.pc = "review"),
         x # PoolThread => IsReal(x[2])
  PROVE  WatchOK'
<1>1. watch' \in [Strikers -> WatchRec]
  BY DEF WatchOK
<1>2. \A y \in Strikers : watch'[y] = IF y = x THEN w ELSE watch[y]
  BY DEF WatchOK
<1>3. watch'[PoolThread].pc # "idle" => pool.pc = "review"
  BY <1>2, StrikersAre DEF WatchOK
<1>4. watch'[PoolThread].reason = ""
  BY <1>2, StrikersAre DEF WatchOK
<1>5. ASSUME NEW a \in Attempts, NEW y \in {<<"snap", a>>, <<"beat", a>>}, watch'[y].pc # "idle"
      PROVE  IsReal(a)
  <2>1. y \in Strikers /\ y # PoolThread /\ y[2] = a
    BY <1>5, StrikersAre
  <2>2. CASE y = x
    BY <2>1, <2>2
  <2>3. CASE y # x
    BY <1>2, <1>5, <2>1, <2>3 DEF WatchOK
  <2> QED BY <2>2, <2>3
<1>6. \A a \in Attempts : watch'[<<"snap", a>>].pc # "idle" \/ watch'[<<"beat", a>>].pc # "idle" => IsReal(a)'
  BY <1>5 DEF IsReal
<1> QED BY <1>1, <1>3, <1>4, <1>6 DEF WatchOK

(* The last of a strike.                                                     *)
LEMMA StruckIs ==
  ASSUME TypeInv, NEW x \in Strikers, watch[x].pc # "idle", plan' = plan, pool' = pool, Struck(x)
  PROVE  WatchOK' /\ events' \in [Workers \X Subtasks -> Results \union {NoResult}]
<1>s. Target(x) \in Workers /\ (x # PoolThread => IsReal(x[2]))
  BY StrikerIs
<1>t. watch[x] \in WatchRec /\ watch \in [Strikers -> WatchRec] /\ plan \in Plans
  BY DEF TypeInv, WatchOK, DispatchOK
<1> DEFINE d == [Idle EXCEPT !.pc = "done"]
           w == IF x = PoolThread THEN Idle ELSE d
<1>1. WatchOK'
  <2>1. d \in WatchRec
    BY EmptyIs DEF WatchRec
  <2>2. watch' = [watch EXCEPT ![x] = w]
    BY DEF Struck
  <2> HIDE DEF d
  <2>3. w \in WatchRec /\ (x = PoolThread => w.reason = "" /\ w.pc = "idle")
    BY <2>1, EmptyIs
  <2> HIDE DEF w
  <2> QED BY <1>s, <2>2, <2>3, WatchMoves DEF TypeInv
<1>2. CASE watch[x].reason # "WORKER_VERIFIABLE_DIFF_UNTERMINATED"
  BY <1>1, <1>2 DEF Struck, TypeInv, TablesOK
<1>3. CASE watch[x].reason = "WORKER_VERIFIABLE_DIFF_UNTERMINATED"
  <2>1. x # PoolThread
    BY <1>3 DEF TypeInv, WatchOK
  <2>2. SubtaskOf(x[2]) \in Subtasks
    BY <1>s, <1>t, <2>1, RealIs
  <2>3. watch[x].reason \in ResultReasons /\ watch[x].diff \in SUBSET DiffFeatures
    BY <1>3, <1>t DEF WatchRec, ResultReasons, GuardReasons, OfPair
  <2>4. AbortResult(watch[x].reason, watch[x].diff, Demand(x[2])) \in Results
    BY <2>3, AbortResultIs
  <2> QED BY <1>1, <1>3, <1>s, <2>2, <2>4 DEF Struck, TypeInv, TablesOK
<1> QED BY <1>2, <1>3

(* The first of a strike.                                                    *)
LEMMA ListedIs ==
  ASSUME TypeInv, NEW x \in Strikers, watch[x].pc = "list", plan' = plan, pool' = pool,
         watch' = [watch EXCEPT ![x].pc = "write", ![x].marks = active]
  PROVE  WatchOK'
<1>s. x # PoolThread => IsReal(x[2])
  BY StrikerIs
<1>t. watch[x] \in WatchRec /\ watch \in [Strikers -> WatchRec] /\ active \in Marks
  BY DEF TypeInv, WatchOK, TablesOK
<1> DEFINE w == [watch[x] EXCEPT !.pc = "write", !.marks = active]
<1>1. watch' = [watch EXCEPT ![x] = w]
  BY <1>t
<1>2. w \in WatchRec /\ w.reason = watch[x].reason
  BY <1>t DEF WatchRec
<1> HIDE DEF w
<1>3. x = PoolThread => w.reason = "" /\ pool.pc = "review"
  BY <1>2 DEF TypeInv, WatchOK
<1> QED BY <1>1, <1>2, <1>3, <1>s, WatchMoves DEF TypeInv

LEMMA ListCancels ==
  ASSUME TypeInv, NEW x \in Strikers, StrikeList(x)
  PROVE  /\ cancelled \subseteq cancelled' /\ cancelled' \subseteq Attempts
         /\ struck' = struck \/ \E a \in cancelled' : /\ struck' = struck \union {a}
                                                     /\ work[a].pc \in {"prompt", "last"}
<1>1. CASE active[Target(x)] = 0
  BY <1>1 DEF StrikeList, TypeInv, TablesOK
<1>2. CASE active[Target(x)] # 0
  <2> DEFINE a == <<active[Target(x)], Target(x)>>
  <2>1. watch[x].pc # "idle"
    BY DEF StrikeList
  <2>2. Target(x) \in Workers
    BY <2>1, StrikerIs
  <2>3. a \in Attempts
    BY <1>2, <2>2 DEF TypeInv, TablesOK, Marks, Attempts
  <2>4. cancelled' = cancelled \union {a}
        /\ struck' = IF work[a].pc \in {"prompt", "last"} THEN struck \union {a} ELSE struck
    BY <1>2 DEF StrikeList
  <2> HIDE DEF a
  <2> QED BY <2>3, <2>4 DEF TypeInv, TablesOK
<1> QED BY <1>1, <1>2

LEMMA StrikeTyped ==
  ASSUME TypeInv, NEW x \in Strikers, StrikeStep(x)
  PROVE  TypeInv' /\ work' = work
<1>u. UNCHANGED Unstruck
  BY DEF StrikeStep, StrikeList, StrikeWrite
<1>1. plan' = plan /\ pool' = pool /\ work' = work /\ watch[x].pc # "idle"
  BY <1>u DEF StrikeStep, StrikeList, StrikeWrite, Unstruck, dispatch
<1>2. DispatchOK' /\ PoolOK' /\ ThreadsOK' /\ LockOK'
  BY <1>u, <1>1 DEF TypeInv, DispatchOK, PoolOK, ThreadsOK, LockOK, IsReal, Unstruck, dispatch
<1>3. /\ WatchOK' /\ events' \in [Workers \X Subtasks -> Results \union {NoResult}]
      /\ active' \in Marks /\ cancelled' \subseteq Attempts /\ struck' \subseteq Attempts
  <2>1. CASE StrikeWrite(x)
    <3>1. Target(x) \in Workers /\ watch[x].marks \in Marks
      BY <1>1, StrikerIs DEF TypeInv, WatchOK, WatchRec
    <3>2. active' \in Marks
      BY <2>1, <3>1 DEF StrikeWrite, Marks
    <3>3. Struck(x) /\ cancelled' = cancelled /\ struck' = struck
      BY <2>1 DEF StrikeWrite
    <3> QED BY <1>1, <3>2, <3>3, StruckIs DEF TypeInv, TablesOK
  <2>2. CASE StrikeList(x)
    <3>1. cancelled' \subseteq Attempts /\ struck' \subseteq Attempts
      BY <2>2, ListCancels DEF TypeInv, TablesOK
    <3>2. active' = active /\ watch[x].pc = "list"
      BY <2>2 DEF StrikeList
    <3>3. \/ Struck(x)
          \/ watch' = [watch EXCEPT ![x].pc = "write", ![x].marks = active] /\ events' = events
      BY <2>2 DEF StrikeList
    <3>4. WatchOK' /\ events' \in [Workers \X Subtasks -> Results \union {NoResult}]
      BY <1>1, <3>2, <3>3, StruckIs, ListedIs DEF TypeInv, TablesOK
    <3> QED BY <3>1, <3>2, <3>4 DEF TypeInv, TablesOK
  <2> QED BY <2>1, <2>2 DEF StrikeStep
<1>4. TablesOK'
  BY <1>u, <1>3 DEF TypeInv, TablesOK, Unstruck
<1> QED BY <1>1, <1>2, <1>3, <1>4 DEF TypeInv

(* A step of a watcher: what it aborts is a failure.                         *)
Aborting(a) ==
  \/ aborts' = aborts
  \/ \E e \in Results : e.rc = 1 /\ aborts' = [aborts EXCEPT ![a] = e]

LEMMA WatchedIs ==
  ASSUME TypeInv, NEW a \in Attempts, Watched(a)
  PROVE  IsReal(a) /\ work[a].tree \in SUBSET DiffFeatures
<1>1. work[a].pc # "none"
  BY DEF Watched
<1> QED BY <1>1 DEF TypeInv, ThreadsOK, WorkRec

LEMMA LookIs ==
  ASSUME TypeInv, NEW a \in Attempts, Look(a)
  PROVE  WatchOK'
<1>1. IsReal(a) /\ work[a].tree \in SUBSET DiffFeatures
  BY WatchedIs DEF Look
<1>2. PICK late \in BOOLEAN :
        /\ Guard(work[a].tree, Demand(a), late) # ""
        /\ watch' = [watch EXCEPT ![<<"snap", a>>] =
                       [Idle EXCEPT !.pc = "act", !.diff = work[a].tree,
                                    !.reason = Guard(work[a].tree, Demand(a), late)]]
  BY DEF Look
<1> DEFINE g == Guard(work[a].tree, Demand(a), late)
           w == [Idle EXCEPT !.pc = "act", !.diff = work[a].tree, !.reason = g]
           x == <<"snap", a>>
<1>3. g \in ResultReasons \union {"keep"}
  BY GuardIs, Named
<1>4. watch' = [watch EXCEPT ![x] = w]
  BY <1>2
<1> HIDE DEF g
<1>5. w \in WatchRec
  BY <1>1, <1>3, EmptyIs DEF WatchRec
<1> HIDE DEF w
<1>6. x \in Strikers /\ x # PoolThread /\ x[2] = a
  BY StrikersAre
<1>7. plan' = plan /\ pool' = pool
  BY DEF Look, Unwatched, dispatch
<1> HIDE DEF x
<1> QED BY <1>1, <1>4, <1>5, <1>6, <1>7, WatchMoves DEF TypeInv

LEMMA SnapActsIs ==
  ASSUME TypeInv, NEW a \in Attempts, SnapActs(a)
  PROVE  WatchOK' /\ snap' \in [Attempts -> SUBSET DiffFeatures] /\ Aborting(a)
<1> DEFINE x == <<"snap", a>>
           l == [watch[x] EXCEPT !.pc = "list"]
<1>1. x \in Strikers /\ x # PoolThread /\ x[2] = a
  BY StrikersAre
<1>2. watch[x].pc = "act" /\ UNCHANGED Unwatched
  BY DEF SnapActs
<1>3. \/ watch' = [watch EXCEPT ![x] = Idle]
      \/ watch' = [watch EXCEPT ![x].pc = "list"]
  BY DEF SnapActs
<1>4. snap' = snap \/ snap' = [snap EXCEPT ![a] = watch[x].diff]
  BY DEF SnapActs
<1>5. aborts' = aborts \/ (aborts' = Aborted(x) /\ watch[x].reason # "keep")
  BY DEF SnapActs
<1> HIDE DEF x
<1>t. watch[x] \in WatchRec /\ watch \in [Strikers -> WatchRec]
  BY <1>1 DEF TypeInv, WatchOK
<1>6. IsReal(a) /\ plan' = plan /\ pool' = pool
  BY <1>1, <1>2, StrikerIs DEF Unwatched, dispatch
<1>7. l \in WatchRec /\ (watch' = [watch EXCEPT ![x].pc = "list"] => watch' = [watch EXCEPT ![x] = l])
  BY <1>t DEF WatchRec
<1> HIDE DEF l
<1>8. WatchOK'
  BY <1>1, <1>3, <1>6, <1>7, EmptyIs, WatchMoves DEF TypeInv
<1>9. snap' \in [Attempts -> SUBSET DiffFeatures]
  BY <1>4, <1>t DEF TypeInv, TablesOK, WatchRec
<1>10. Aborting(a)
  <2>1. CASE aborts' = aborts
    BY <2>1 DEF Aborting
  <2>2. CASE aborts' # aborts
    <3> DEFINE e == AbortResult(watch[x].reason, watch[x].diff, Demand(x[2]))
    <3>1. aborts' = [aborts EXCEPT ![a] = e] /\ watch[x].reason # "keep"
      BY <1>1, <1>5, <2>2 DEF Aborted
    <3>2. watch[x].reason \in ResultReasons /\ watch[x].diff \in SUBSET DiffFeatures
      BY <1>t, <3>1 DEF WatchRec
    <3>3. e \in Results /\ e.rc = 1
      BY <3>2, AbortResultIs
    <3> HIDE DEF e
    <3> QED BY <3>1, <3>3 DEF Aborting
  <2> QED BY <2>1, <2>2
<1> QED BY <1>8, <1>9, <1>10

LEMMA BeatIs ==
  ASSUME TypeInv, NEW a \in Attempts, Beat(a)
  PROVE  WatchOK' /\ Aborting(a)
<1>1. IsReal(a)
  BY WatchedIs DEF Beat
<1>2. PICK late \in BOOLEAN, says \in MaySay :
        /\ NoChange(work[a].tree, Demand(a), late, says) # ""
        /\ aborts' = [aborts EXCEPT ![a] =
             AbortResult(NoChange(work[a].tree, Demand(a), late, says), {}, Demand(a))]
        /\ watch' = [watch EXCEPT ![<<"beat", a>>] =
             [Idle EXCEPT !.pc = "list", !.reason = NoChange(work[a].tree, Demand(a), late, says)]]
  BY DEF Beat
<1> DEFINE g == NoChange(work[a].tree, Demand(a), late, says)
           w == [Idle EXCEPT !.pc = "list", !.reason = g]
           e == AbortResult(g, {}, Demand(a))
           x == <<"beat", a>>
<1>3. g \in ResultReasons
  BY NoChangeIs, Named
<1>4. watch' = [watch EXCEPT ![x] = w] /\ aborts' = [aborts EXCEPT ![a] = e]
  BY <1>2
<1> HIDE DEF g
<1>5. w \in WatchRec
  BY <1>3, EmptyIs DEF WatchRec
<1>6. {} \in SUBSET DiffFeatures
  OBVIOUS
<1>7. e \in Results /\ e.rc = 1
  BY <1>3, <1>6, AbortResultIs
<1> HIDE DEF w, e
<1>8. x \in Strikers /\ x # PoolThread /\ x[2] = a
  BY StrikersAre
<1>9. plan' = plan /\ pool' = pool
  BY DEF Beat, Unwatched, dispatch
<1> HIDE DEF x
<1>10. WatchOK'
  BY <1>1, <1>4, <1>5, <1>8, <1>9, WatchMoves DEF TypeInv
<1> QED BY <1>4, <1>7, <1>10 DEF Aborting

LEMMA WatchTyped ==
  ASSUME TypeInv, NEW a \in Attempts, WatchStep(a)
  PROVE  TypeInv' /\ UNCHANGED Unwatched /\ Aborting(a)
<1>1. UNCHANGED Unwatched
  BY DEF WatchStep, Look, SnapActs, Beat
<1>2. WatchOK' /\ Aborting(a) /\ snap' \in [Attempts -> SUBSET DiffFeatures]
  <2>1. CASE Look(a)
    BY <2>1, LookIs DEF Look, Aborting, TypeInv, TablesOK
  <2>2. CASE SnapActs(a)
    BY <2>2, SnapActsIs
  <2>3. CASE Beat(a)
    BY <2>3, BeatIs DEF Beat, TypeInv, TablesOK
  <2> QED BY <2>1, <2>2, <2>3 DEF WatchStep
<1>3. aborts' \in [Attempts -> Results]
  BY <1>2 DEF Aborting, TypeInv, TablesOK
<1>4. DispatchOK' /\ PoolOK' /\ ThreadsOK' /\ LockOK'
  BY <1>1 DEF TypeInv, DispatchOK, PoolOK, ThreadsOK, LockOK, IsReal, Unwatched, dispatch, files
<1>5. TablesOK'
  BY <1>1, <1>2, <1>3 DEF TypeInv, TablesOK, Unwatched, files, history
<1> QED BY <1>1, <1>2, <1>4, <1>5 DEF TypeInv

-----------------------------------------------------------------------------
(* The pool.                                                                 *)
LEMMA PendingIs ==
  ASSUME TypeInv, NEW a \in Pending
  PROVE  IsReal(a) /\ a \in Attempts
  BY CurrentIs DEF Pending, TypeInv, IsReal

LEMMA PoolWatches ==
  ASSUME WatchOK, plan' = plan, watch[PoolThread].pc = "idle",
         \/ watch' = watch
         \/ watch' = [watch EXCEPT ![PoolThread] = [Idle EXCEPT !.pc = "list"]] /\ pool'.pc = "review"
  PROVE  WatchOK'
<1>1. CASE watch' = watch
  BY <1>1 DEF WatchOK, IsReal
<1>2. CASE watch' # watch
  <2> DEFINE w == [Idle EXCEPT !.pc = "list"]
  <2>1. w \in WatchRec /\ w.reason = ""
    BY EmptyIs DEF WatchRec
  <2>2. watch' = [watch EXCEPT ![PoolThread] = w] /\ pool'.pc = "review"
    BY <1>2
  <2> HIDE DEF w
  <2>3. watch' \in [Strikers -> WatchRec]
    BY <2>1, <2>2 DEF WatchOK
  <2>4. \A y \in Strikers : watch'[y] = IF y = PoolThread THEN w ELSE watch[y]
    BY <2>2 DEF WatchOK
  <2>5. \A a \in Attempts : watch'[<<"snap", a>>] = watch[<<"snap", a>>]
                            /\ watch'[<<"beat", a>>] = watch[<<"beat", a>>]
    BY <2>4, StrikersAre
  <2>6. watch'[PoolThread].reason = ""
    BY <2>1, <2>4, StrikersAre
  <2> QED BY <2>2, <2>3, <2>5, <2>6 DEF WatchOK, IsReal
<1> QED BY <1>1, <1>2

LEMMA HandIs ==
  ASSUME TypeInv, NEW a \in Pending, NEW res \in Results, Hand(a, res), plan' = plan
  PROVE  /\ PoolOK' /\ pool'.pc = "review" /\ pool'.at = a /\ pool'.res = res
         /\ pool'.told = pool.told
<1>1. IsReal(a) /\ a \in Attempts
  BY PendingIs
<1>2. pool \in PoolRec
  BY DEF TypeInv, PoolOK
<1>3. /\ pool' \in PoolRec /\ pool'.pc = "review" /\ pool'.at = a /\ pool'.res = res
      /\ pool'.told = pool.told
  BY <1>1, <1>2 DEF Hand, PoolRec
<1> QED BY <1>1, <1>3 DEF PoolOK, IsReal

(* What the pool may take up.                                                *)
LEMMA TakeUpIs ==
  ASSUME TypeInv, NEW a \in Attempts, Collect(a) \/ TakeAbort(a) \/ TimeOut(a)
  PROVE  /\ PoolOK' /\ pool.pc = "loop" /\ pool'.pc = "review" /\ pool'.at = a
         /\ \/ work[a].pc = "done" /\ pool'.res = work[a].res
            \/ aborts[a] # NoAbort /\ pool'.res = aborts[a]
            \/ pool'.told
            \/ pool'.res.rc = 1
         /\ UNCHANGED <<Unpooled, taken, work, started, results, checkout>>
         /\ WatchOK' /\ fut' \in [Attempts -> {"none", "queued", "running", "cancelled"}]
         /\ \A b \in Attempts : fut'[b] # "none" => IsReal(b)
<1>l. pool.pc = "loop" /\ watch[PoolThread].pc = "idle" /\ a \in Pending
  BY DEF Collect, TakeAbort, TimeOut, Loops
<1>u. UNCHANGED <<Unpooled, taken, work, started, results, checkout>> /\ plan' = plan
  BY DEF Collect, TakeAbort, TimeOut, Unpooled, dispatch
<1>f. fut \in [Attempts -> {"none", "queued", "running", "cancelled"}]
      /\ \A b \in Attempts : fut[b] # "none" => IsReal(b)
  BY DEF TypeInv, ThreadsOK
<1>r. IsReal(a)
  BY <1>l, PendingIs
<1>1. CASE Collect(a)
  <2>1. Hand(a, work[a].res) /\ work[a].res \in Results /\ work[a].pc = "done" /\ watch' = watch /\ fut' = fut
    BY <1>1 DEF Collect, TypeInv, ThreadsOK, WorkRec
  <2>2. PoolOK' /\ pool'.pc = "review" /\ pool'.at = a /\ pool'.res = work[a].res
    BY <1>l, <1>u, <2>1, HandIs
  <2>3. WatchOK'
    BY <1>l, <1>u, <2>1, PoolWatches DEF TypeInv
  <2> QED BY <1>l, <1>u, <1>f, <2>1, <2>2, <2>3
<1>2. CASE TakeAbort(a)
  <2>1. /\ Hand(a, aborts[a]) /\ aborts[a] \in Results /\ aborts[a] # NoAbort /\ fut' = fut
        /\ watch' = [watch EXCEPT ![PoolThread] = [Idle EXCEPT !.pc = "list"]]
    BY <1>2 DEF TakeAbort, TypeInv, TablesOK
  <2>2. PoolOK' /\ pool'.pc = "review" /\ pool'.at = a /\ pool'.res = aborts[a]
    BY <1>l, <1>u, <2>1, HandIs
  <2>3. WatchOK'
    BY <1>l, <1>u, <2>1, <2>2, PoolWatches DEF TypeInv
  <2> QED BY <1>l, <1>u, <1>f, <2>1, <2>2, <2>3
<1>3. CASE TimeOut(a)
  <2> DEFINE e == events[<<a[2], SubtaskOf(a)>>]
  <2>e. e \in Results \union {NoResult}
    BY <1>r, RealIs DEF TypeInv, TablesOK, DispatchOK
  <2>1. CASE e # NoResult
    <3>1. HandLate(a, e, FALSE, TRUE) /\ watch' = watch /\ fut' = fut
      BY <1>3, <2>1 DEF TimeOut
    <3> HIDE DEF e
    <3>2. pool' = [pc |-> "review", at |-> a, res |-> e, gave |-> FALSE, told |-> TRUE,
                   late |-> limit > 1]
      BY <3>1 DEF HandLate
    <3>3. (limit > 1) \in BOOLEAN /\ e \in Results
      BY <2>e, <2>1
    <3>4. pool' \in PoolRec /\ pool'.pc = "review" /\ pool'.at = a /\ pool'.told
      BY <3>2, <3>3 DEF PoolRec
    <3>5. PoolOK'
      BY <1>r, <1>u, <3>4 DEF PoolOK, IsReal
    <3>6. WatchOK'
      BY <1>l, <1>u, <3>1, PoolWatches DEF TypeInv
    <3> QED BY <1>l, <1>u, <1>f, <3>1, <3>4, <3>5, <3>6
  <2>2. CASE e = NoResult
    <3> DEFINE r == Failed("WORKER_NO_PROGRESS", FALSE, {})
    <3>1. /\ HandLate(a, r, work[a].pc # "none", FALSE)
          /\ watch' = [watch EXCEPT ![PoolThread] = [Idle EXCEPT !.pc = "list"]]
          /\ fut' = [fut EXCEPT ![a] = IF work[a].pc = "none" THEN "cancelled" ELSE @]
      BY <1>3, <2>2 DEF TimeOut
    <3>2. r \in Results /\ r.rc = 1
      BY Named DEF Failed, Results
    <3> HIDE DEF e, r
    <3>3. pool' = [pc |-> "review", at |-> a, res |-> r, gave |-> work[a].pc # "none", told |-> FALSE,
                   late |-> limit > 1]
      BY <3>1 DEF HandLate
    <3>4. (limit > 1) \in BOOLEAN /\ (work[a].pc # "none") \in BOOLEAN
      OBVIOUS
    <3>5. pool' \in PoolRec /\ pool'.pc = "review" /\ pool'.at = a /\ pool'.res.rc = 1
      BY <3>2, <3>3, <3>4 DEF PoolRec
    <3>6. PoolOK'
      BY <1>r, <1>u, <3>5 DEF PoolOK, IsReal
    <3>7. WatchOK'
      BY <1>l, <1>u, <3>1, <3>5, PoolWatches DEF TypeInv
    <3>8. /\ fut' \in [Attempts -> {"none", "queued", "running", "cancelled"}]
          /\ \A b \in Attempts : fut'[b] # "none" => IsReal(b)
      BY <1>f, <1>r, <3>1
    <3> QED BY <1>l, <1>u, <3>5, <3>6, <3>7, <3>8
  <2> QED BY <2>1, <2>2
<1> QED BY <1>1, <1>2, <1>3

(* The result at hand: a completed one names no files but its own and the    *)
(* carried ones.                                                             *)
LEMMA AtHandIs ==
  ASSUME TypeInv, NEW a \in Attempts
  PROVE  /\ AtHand(a) \in Results /\ AtHand(a).rc = pool.res.rc
         /\ AtHand(a).rc = 0 => AtHand(a).diff \subseteq pool.res.diff \union Carried(Demand(a))
<1>t. pool.res \in Results /\ snap[a] \in SUBSET DiffFeatures /\ pool.res.diff \in SUBSET DiffFeatures
  BY DEF TypeInv, PoolOK, PoolRec, TablesOK, Results
<1> DEFINE v == Validation(pool.res.diff, Demand(a))
           f == [pool.res EXCEPT !.diff = v]
           e == Effective(a, pool.res)
<1>1. v \in SUBSET DiffFeatures /\ v \subseteq pool.res.diff \union Carried(Demand(a))
  BY <1>t, ValidationIs
<1>2. e \in {f, pool.res}
  BY DEF Effective
<1> HIDE DEF v
<1>3. f \in Results /\ f.rc = pool.res.rc /\ f.diff = v
  BY <1>1, <1>t, EditDiff
<1> HIDE DEF f
<1>4. AtHand(a) = AttachSnapshot(e, snap[a])
  BY DEF AtHand
<1> HIDE DEF e
<1>5. e \in Results /\ e.rc = pool.res.rc /\ e.diff \subseteq pool.res.diff \union Carried(Demand(a))
  BY <1>1, <1>2, <1>3, <1>t
<1> QED BY <1>4, <1>5, <1>t, AttachSnapshotIs

(* The result is recorded.                                                   *)
LEMMA RecordIs ==
  ASSUME TypeInv, NEW a \in Attempts, IsReal(a), NEW res \in Results, NEW sure \in BOOLEAN,
         Record(a, res, sure), UNCHANGED <<dispatch, lock, watch>>, watch[PoolThread].pc = "idle"
  PROVE  /\ PoolOK' /\ pool'.pc = "loop" /\ WatchOK' /\ ThreadsOK' /\ LockOK'
         /\ taken' \subseteq Attempts /\ started' \subseteq Attempts
         /\ results' \in [Subtasks -> Recorded \union {NoResult}]
         /\ OneMoves(a)
         /\ work' # work => work[a].pc = "done" /\ work'[a] = Ended
         /\ \A s \in Subtasks : s # SubtaskOf(a) => results'[s] = results[s]
         /\ results'[SubtaskOf(a)].status = "completed" => res.rc = 0
         /\ results'[SubtaskOf(a)].sure => ~pool.told /\ sure
<1>p. plan' = plan /\ plan \in Plans
  BY DEF dispatch, TypeInv, DispatchOK
<1>t. /\ pool \in PoolRec /\ work \in [Attempts -> WorkRec] /\ results \in [Subtasks -> Recorded \union {NoResult}]
      /\ fut \in [Attempts -> {"none", "queued", "running", "cancelled"}]
  BY DEF TypeInv, PoolOK, ThreadsOK, TablesOK
<1>1. PoolOK' /\ pool'.pc = "loop"
  BY <1>t, EmptyIs DEF Record, PoolOK, PoolRec
<1>2. WatchOK'
  BY <1>p, PoolWatches DEF TypeInv
<1>3. taken' \subseteq Attempts /\ started' \subseteq Attempts
  BY DEF Record, TypeInv, TablesOK
<1>4. /\ OneMoves(a)
      /\ work' # work => work[a].pc = "done" /\ work'[a] = Ended
  <2>1. work' = [work EXCEPT ![a] = IF work[a].pc = "done" THEN Ended ELSE work[a]]
    BY <1>t DEF Record
  <2>2. CASE work[a].pc = "done"
    BY <1>t, <2>1, <2>2, EmptyIs, OneMovesIs DEF TypeInv
  <2>3. CASE work[a].pc # "done"
    <3>1. work' = work
      BY <1>t, <2>1, <2>3
    <3> QED BY <1>t, <3>1 DEF OneMoves
  <2> QED BY <2>2, <2>3
<1>5. LockOK'
  <2>1. CASE work' = work
    BY <2>1 DEF TypeInv, LockOK
  <2>2. CASE work' # work
    BY <1>4, <2>2, EmptyIs, LockKept DEF TypeInv
  <2> QED BY <2>1, <2>2
<1>6. ThreadsOK'
  <2> DEFINE next == <<a[1], a[2] + 1>>
             F(b) == IF limit = 1 /\ b = next /\ b \in Current /\ ~Unresolved(res) THEN "queued"
                     ELSE IF limit = 1 /\ b = a /\ work[a].pc = "none" THEN "cancelled" ELSE fut[b]
  <2>1. fut' = [b \in Attempts |-> F(b)]
    BY DEF Record
  <2>2. \A b \in Attempts : /\ F(b) \in {"none", "queued", "running", "cancelled"}
                            /\ F(b) # fut[b] => b \in Current \/ b = a
    BY <1>t
  <2> HIDE DEF F
  <2>3. fut' \in [Attempts -> {"none", "queued", "running", "cancelled"}]
    BY <2>1, <2>2
  <2>4. \A b \in Attempts : fut'[b] # "none" => IsReal(b)
    BY <2>1, <2>2, CurrentIs DEF TypeInv, ThreadsOK
  <2>5. \A b \in Attempts : work'[b].pc # "none" => IsReal(b)
    BY <1>4 DEF OneMoves, TypeInv, ThreadsOK
  <2> QED BY <1>p, <1>4, <2>3, <2>4, <2>5 DEF ThreadsOK, OneMoves, IsReal
<1>7. /\ results' \in [Subtasks -> Recorded \union {NoResult}]
      /\ \A s \in Subtasks : s # SubtaskOf(a) => results'[s] = results[s]
      /\ results'[SubtaskOf(a)].status = "completed" => res.rc = 0
      /\ results'[SubtaskOf(a)].sure => ~pool.told /\ sure
  <2>1. SubtaskOf(a) \in Subtasks
    BY <1>p, RealIs
  <2> DEFINE st == IF res.rc = 0 THEN "completed" ELSE "failed"
             gv == pool.gave /\ res.rc # 0
             su == ~pool.told /\ sure
             v  == [reason |-> res.reason, gave |-> gv, sure |-> su, status |-> st]
  <2>2. results' = [results EXCEPT ![SubtaskOf(a)] = v]
    BY DEF Record
  <2>3. /\ st \in {"completed", "failed"} /\ (st = "completed" => res.rc = 0)
        /\ gv \in BOOLEAN /\ su \in BOOLEAN /\ res.reason \in ResultReasons /\ (su => ~pool.told /\ sure)
    BY ResultIs
  <2> HIDE DEF st, gv, su
  <2>4. v \in Recorded /\ v.status = st /\ v.sure = su
    BY <2>3 DEF Recorded
  <2> HIDE DEF v
  <2>5. results'[SubtaskOf(a)] = v
    BY <1>t, <2>1, <2>2
  <2>6. results' \in [Subtasks -> Recorded \union {NoResult}]
        /\ \A s \in Subtasks : s # SubtaskOf(a) => results'[s] = results[s]
    BY <1>t, <2>1, <2>2, <2>4
  <2> QED BY <2>3, <2>4, <2>5, <2>6
<1> QED BY <1>1, <1>2, <1>3, <1>4, <1>5, <1>6, <1>7

LEMMA ReviewIs ==
  ASSUME TypeInv, Review
  PROVE  TypeInv' /\ pool'.pc = "copy" /\ pool'.res.rc # 0
<1>t. pool \in PoolRec /\ IsReal(pool.at) /\ pool.at \in Attempts
  BY DEF Review, TypeInv, PoolOK, IsReal
<1> DEFINE e == AtHand(pool.at)
<1>1. e \in Results /\ e.rc # 0
  BY <1>t, AtHandIs, TakesFailed DEF Review
<1>2. pool' = [pool EXCEPT !.pc = "copy", !.res = e]
  BY DEF Review
<1> HIDE DEF e
<1>u. UNCHANGED <<Unpooled, fut, taken, work, started, watch, results, checkout>>
      /\ watch[PoolThread].pc = "idle"
  BY DEF Review
<1>p. plan' = plan
  BY <1>u DEF Unpooled, dispatch
<1>3. pool' \in PoolRec /\ pool'.pc = "copy" /\ pool'.res = e /\ pool'.at = pool.at
  BY <1>1, <1>2, <1>t DEF PoolRec
<1>4. PoolOK'
  BY <1>3, <1>p, <1>t DEF PoolOK, IsReal
<1>5. WatchOK'
  BY <1>u, <1>p, PoolWatches DEF TypeInv
<1>6. DispatchOK' /\ ThreadsOK' /\ LockOK' /\ TablesOK'
  BY <1>u DEF TypeInv, DispatchOK, ThreadsOK, LockOK, TablesOK, IsReal, Unpooled, dispatch, files, history
<1> QED BY <1>1, <1>3, <1>4, <1>5, <1>6 DEF TypeInv

(* The two ways to record: as judged, or with a copy of the worktree.        *)
LEMMA JudgesIs ==
  ASSUME TypeInv, Judges
  PROVE  LET res == Verdict(AtHand(pool.at), work[pool.at].tree, Demand(pool.at), FALSE)
         IN  /\ pool.pc = "review" /\ IsReal(pool.at) /\ pool.at \in Attempts
             /\ res \in Results
             /\ res.rc = 0 => /\ pool.res.rc = 0
                              /\ OnTarget(pool.res.diff \union Carried(Demand(pool.at)), Demand(pool.at))
             /\ \E sure \in BOOLEAN : Record(pool.at, res, sure)
             /\ UNCHANGED <<Unpooled, watch, checkout>> /\ watch[PoolThread].pc = "idle"
<1> DEFINE a == pool.at
           res == Verdict(AtHand(a), work[a].tree, Demand(a), FALSE)
<1>1. /\ pool.pc = "review" /\ watch[PoolThread].pc = "idle"
      /\ ~Takes(AtHand(a), work[a].tree, Demand(a))
      /\ Record(a, res, TRUE) /\ UNCHANGED <<Unpooled, watch, checkout>>
  BY DEF Judges
<1>2. IsReal(a) /\ a \in Attempts
  BY <1>1 DEF TypeInv, PoolOK, IsReal
<1> HIDE DEF a
<1>3. /\ AtHand(a) \in Results /\ AtHand(a).rc = pool.res.rc
      /\ AtHand(a).rc = 0 => AtHand(a).diff \subseteq pool.res.diff \union Carried(Demand(a))
  BY <1>2, AtHandIs
<1>4. res \in Results /\ (res.rc = 0 => AtHand(a).rc = 0 /\ OnTarget(AtHand(a).diff, Demand(a)))
  BY <1>1, <1>3, VerdictIs
<1>5. \A d, f, s : d \subseteq f /\ OnTarget(d, s) => OnTarget(f, s)
  BY DEF OnTarget
<1> HIDE DEF res
<1>6. res.rc = 0 => /\ pool.res.rc = 0
                    /\ OnTarget(pool.res.diff \union Carried(Demand(a)), Demand(a))
  BY <1>3, <1>4, <1>5
<1>7. \E sure \in BOOLEAN : Record(a, res, sure)
  <2>1. PICK sure \in BOOLEAN : sure = TRUE
    OBVIOUS
  <2>2. Record(a, res, sure)
    BY <1>1, <2>1 DEF Record
  <2> QED BY <2>2
<1> QED BY <1>1, <1>2, <1>4, <1>6, <1>7 DEF a, res

LEMMA CopiesIs ==
  ASSUME TypeInv, Copies
  PROVE  /\ pool.pc = "copy" /\ IsReal(pool.at) /\ pool.at \in Attempts
         /\ UNCHANGED <<Unpooled, watch>> /\ watch[PoolThread].pc = "idle"
         /\ checkout' \in [Subtasks -> SUBSET DiffFeatures]
         /\ \A s \in Subtasks : checkout[s] \subseteq checkout'[s]
         /\ \E res \in Results, sure \in BOOLEAN :
              /\ Record(pool.at, res, sure)
              /\ sure => Files(pool.res.diff) \subseteq work[pool.at].tree \union Carried(Demand(pool.at))
              /\ \/ res.rc = pool.res.rc
                 \/ /\ work[pool.at].tree \subseteq checkout'[SubtaskOf(pool.at)]
                    /\ res.rc = 0 => OnTarget(pool.res.diff \union work[pool.at].tree, Demand(pool.at))
<1> DEFINE a == pool.at
<1>1. pool.pc = "copy" /\ IsReal(a) /\ a \in Attempts
  BY DEF Copies, TypeInv, PoolOK, IsReal
<1>2. UNCHANGED <<Unpooled, watch>> /\ watch[PoolThread].pc = "idle"
  BY <1>1 DEF Copies, TypeInv, WatchOK
<1>3. PICK ok \in BOOLEAN :
       /\ checkout' = IF ok THEN [checkout EXCEPT ![SubtaskOf(a)] = @ \union work[a].tree]
                      ELSE checkout
       /\ Record(a, IF ok THEN Targeted(Done(pool.res.diff \union work[a].tree), Demand(a))
                    ELSE pool.res,
                 Files(pool.res.diff) \subseteq work[a].tree \union Carried(Demand(a)))
  BY DEF Copies
<1> HIDE DEF a
<1>t. /\ pool.res \in Results /\ pool.res.diff \in SUBSET DiffFeatures
      /\ work[a].tree \in SUBSET DiffFeatures /\ checkout \in [Subtasks -> SUBSET DiffFeatures]
      /\ SubtaskOf(a) \in Subtasks
  BY <1>1, RealIs DEF TypeInv, PoolOK, PoolRec, ThreadsOK, WorkRec, TablesOK, Results, DispatchOK
<1>4. checkout' \in [Subtasks -> SUBSET DiffFeatures] /\ \A s \in Subtasks : checkout[s] \subseteq checkout'[s]
  BY <1>3, <1>t
<1> DEFINE e == pool.res.diff \union work[a].tree
           tg == Targeted(Done(e), Demand(a))
           res == IF ok THEN tg ELSE pool.res
<1>5. PICK sure \in BOOLEAN : sure = (Files(pool.res.diff) \subseteq work[a].tree \union Carried(Demand(a)))
  OBVIOUS
<1>6. Record(a, res, sure)
  BY <1>3, <1>5 DEF Record
<1>7. tg \in Results /\ (tg.rc = 0 => OnTarget(e, Demand(a)))
  <2>1. e \in SUBSET DiffFeatures
    BY <1>t
  <2> HIDE DEF e
  <2>2. Done(e) \in Results /\ Done(e).diff = e
    BY <2>1, DoneIs
  <2> QED BY <2>2, TargetedIs
<1>8. ok => work[a].tree \subseteq checkout'[SubtaskOf(a)]
  BY <1>3, <1>t
<1> HIDE DEF tg
<1>9. /\ res \in Results
      /\ \/ res.rc = pool.res.rc
         \/ /\ work[a].tree \subseteq checkout'[SubtaskOf(a)]
            /\ res.rc = 0 => OnTarget(e, Demand(a))
  BY <1>7, <1>8, <1>t
<1> HIDE DEF res
<1>10. \E z \in Results, y \in BOOLEAN :
         /\ Record(a, z, y)
         /\ y => Files(pool.res.diff) \subseteq work[a].tree \union Carried(Demand(a))
         /\ \/ z.rc = pool.res.rc
            \/ /\ work[a].tree \subseteq checkout'[SubtaskOf(a)]
               /\ z.rc = 0 => OnTarget(e, Demand(a))
  BY <1>5, <1>6, <1>9
<1> QED BY <1>1, <1>2, <1>4, <1>10 DEF a, e

LEMMA ToleratedIs ==
  ASSUME NEW s \in Subtasks, NEW r \in Recorded \union {NoResult}
  PROVE  /\ Tolerated(s, r) \in Recorded \union {NoResult}
         /\ Tolerated(s, r) = r \/ Tolerated(s, r).status = "tolerated"
<1>1. r # NoResult => LET e == [r EXCEPT !.status = "tolerated"] IN e \in Recorded /\ e.status = "tolerated"
  BY DEF Recorded
<1> QED BY <1>1 DEF Tolerated

LEMMA EndRoundIs ==
  ASSUME TypeInv, EndRound
  PROVE  /\ TypeInv' /\ UNCHANGED <<plan, work, checkout, struck, synced, cancelled>>
         /\ pool'.pc = "loop"
         /\ aborts' = [a \in Attempts |-> NoAbort]
         /\ \A s \in Subtasks : results'[s] = results[s] \/ results'[s].status = "tolerated"
<1> DEFINE tried == [s \in Subtasks |-> Tolerated(s, results[s])]
           again == /\ round < Len(plan.rounds)
                    /\ \A s \in Subtasks : tried[s] # NoResult => ~tried[s].gave
<1>1. /\ pool.pc = "loop" /\ results' = tried
      /\ IF again THEN round' = round + 1 /\ UNCHANGED stage ELSE stage' = "over" /\ UNCHANGED round
      /\ fut' = [a \in Attempts |->
               IF again /\ a \in Submitted(round + 1, plan) THEN "queued" ELSE fut[a]]
      /\ pool' = [pool EXCEPT !.late = FALSE]
      /\ started' = started \ Current
      /\ aborts' = [a \in Attempts |-> NoAbort] /\ snap' = [a \in Attempts |-> {}]
      /\ UNCHANGED <<plan, taken, work, files, watch, events, checkout, history>>
  BY DEF EndRound
<1>t. /\ plan \in Plans /\ round \in DOMAIN plan.rounds /\ stage \in {"pool", "over"}
      /\ pool \in PoolRec /\ results \in [Subtasks -> Recorded \union {NoResult}]
      /\ DOMAIN plan.rounds = 1 .. Len(plan.rounds)
  BY PlansIs DEF TypeInv, DispatchOK, PoolOK, TablesOK
<1>2. again => round + 1 \in DOMAIN plan.rounds
  <2>1. again => round < Len(plan.rounds)
    OBVIOUS
  <2>2. Len(plan.rounds) \in Nat
    BY <1>t, WorkerPoolAssumption
  <2> HIDE DEF again
  <2> QED BY ONLY <1>t, <2>1, <2>2
<1> HIDE DEF again
<1>3. DispatchOK'
  BY <1>1, <1>2, <1>t DEF DispatchOK
<1>4. PoolOK' /\ pool'.pc = "loop"
  <2>1. pool' \in PoolRec /\ pool'.pc = "loop"
    BY <1>1, <1>t DEF PoolRec
  <2> QED BY <2>1 DEF PoolOK
<1>5. WatchOK'
  BY <1>1, PoolWatches DEF TypeInv, WatchOK
<1>6. ThreadsOK'
  <2>1. again => \A a \in Submitted(round + 1, plan) : IsReal(a)
    BY <1>2, <1>t, SubmittedIs
  <2>2. fut' \in [Attempts -> {"none", "queued", "running", "cancelled"}]
        /\ \A a \in Attempts : fut'[a] # "none" => IsReal(a)
    BY <1>1, <2>1 DEF TypeInv, ThreadsOK
  <2> QED BY <1>1, <2>2 DEF TypeInv, ThreadsOK, IsReal
<1>7. LockOK'
  BY <1>1 DEF TypeInv, LockOK, files
<1>8. /\ results' \in [Subtasks -> Recorded \union {NoResult}]
      /\ \A s \in Subtasks : results'[s] = results[s] \/ results'[s].status = "tolerated"
  BY <1>1, <1>t, ToleratedIs
<1>9. TablesOK'
  BY <1>1, <1>8, EmptyIs DEF TypeInv, TablesOK, files, history
<1> QED BY <1>1, <1>3, <1>4, <1>5, <1>6, <1>7, <1>8, <1>9 DEF TypeInv, files, history

LEMMA PoolTyped == TypeInv /\ PoolStep => TypeInv'
<1> SUFFICES ASSUME TypeInv, PoolStep PROVE TypeInv'
  OBVIOUS
<1>1. ASSUME NEW a \in Attempts, Collect(a) \/ TakeAbort(a) \/ TimeOut(a)
      PROVE  TypeInv'
  <2>1. /\ PoolOK' /\ WatchOK'
        /\ UNCHANGED <<Unpooled, taken, work, started, results, checkout>>
        /\ fut' \in [Attempts -> {"none", "queued", "running", "cancelled"}]
        /\ \A b \in Attempts : fut'[b] # "none" => IsReal(b)
    BY <1>1, TakeUpIs
  <2>2. DispatchOK' /\ LockOK' /\ TablesOK'
    BY <2>1 DEF TypeInv, DispatchOK, LockOK, TablesOK, Unpooled, dispatch, files, history
  <2>3. ThreadsOK'
    BY <2>1 DEF TypeInv, ThreadsOK, IsReal, Unpooled, dispatch
  <2> QED BY <2>1, <2>2, <2>3 DEF TypeInv
<1>2. ASSUME NEW res \in Results, NEW sure \in BOOLEAN, Record(pool.at, res, sure), IsReal(pool.at),
             pool.at \in Attempts, UNCHANGED <<Unpooled, watch>>, watch[PoolThread].pc = "idle",
             checkout' \in [Subtasks -> SUBSET DiffFeatures]
      PROVE  TypeInv'
  <2>1. UNCHANGED <<dispatch, lock, watch>>
    BY <1>2 DEF Unpooled, files
  <2>2. /\ PoolOK' /\ WatchOK' /\ ThreadsOK' /\ LockOK'
        /\ taken' \subseteq Attempts /\ started' \subseteq Attempts
        /\ results' \in [Subtasks -> Recorded \union {NoResult}]
    BY <1>2, <2>1, RecordIs
  <2>3. DispatchOK'
    BY <2>1 DEF TypeInv, DispatchOK, dispatch
  <2>4. TablesOK'
    BY <1>2, <2>2 DEF TypeInv, TablesOK, Unpooled, files, history
  <2> QED BY <2>2, <2>3, <2>4 DEF TypeInv
<1>3. CASE Review
  BY <1>3, ReviewIs
<1>4. CASE Judges
  <2>1. checkout' \in [Subtasks -> SUBSET DiffFeatures]
    BY <1>4 DEF Judges, TypeInv, TablesOK
  <2> QED BY <1>2, <1>4, <2>1, JudgesIs
<1>5. CASE Copies
  BY <1>2, <1>5, CopiesIs
<1>6. CASE EndRound
  BY <1>6, EndRoundIs
<1> QED BY <1>1, <1>3, <1>4, <1>5, <1>6 DEF PoolStep

LEMMA TypeNext == TypeInv /\ [Next]_vars => TypeInv'
<1> SUFFICES ASSUME TypeInv, [Next]_vars PROVE TypeInv'
  OBVIOUS
<1>1. ASSUME NEW a \in Attempts, ThreadStep(a) \/ WatchStep(a) PROVE TypeInv'
  BY <1>1, ThreadTyped, WatchTyped
<1>2. ASSUME NEW x \in Strikers, StrikeStep(x) PROVE TypeInv'
  BY <1>2, StrikeTyped
<1>3. CASE PoolStep
  BY <1>3, PoolTyped
<1>4. CASE UNCHANGED vars
  BY <1>4 DEF TypeInv, DispatchOK, PoolOK, WatchOK, ThreadsOK, LockOK, TablesOK, IsReal, vars
<1> QED BY <1>1, <1>2, <1>3, <1>4 DEF Next

(* The variables keep their types, and the lock of the active file is only   *)
(* ever held by an attempt between its reading and its writing of the file   *)
(* (WORKER_STATUS_LOCK), whatever plan is run.                               *)
THEOREM Typing == Spec => []TypeOK
<1>1. Spec => []TypeInv
  BY TypeInit, TypeNext, PTL DEF Spec
<1> QED BY <1>1, TypeInvImplies, PTL

-----------------------------------------------------------------------------
(* An attempt that was cancelled before its last check is named in the       *)
(* cancelled file, from which nothing is ever removed, and so its last check *)
(* does not let it go on to copy.                                            *)
GivenUpInv ==
  /\ GivenUpStaysOut
  /\ struck \subseteq cancelled
  /\ \A a \in struck : work[a].pc \in {"prompt", "last", "clear", "cleared", "done"}
  /\ \A a \in synced : work[a].pc \in {"clear", "cleared", "done"}

(* A thread goes forward only, and copies only from its step to do so.       *)
LEMMA ThreadForward ==
  ASSUME TypeInv, NEW a \in Attempts, ThreadStep(a)
  PROVE  /\ UNCHANGED <<struck, cancelled>> /\ work[a].pc # "done"
         /\ work[a].pc = "prompt" => work'[a].pc \in {"prompt", "last", "clear"}
         /\ work[a].pc = "last" => \/ work'[a].pc = "clear"
                                   \/ work'[a].pc = "sync" /\ a \notin cancelled
         /\ work[a].pc = "clear" => work'[a].pc = "cleared"
         /\ work[a].pc = "cleared" => work'[a].pc = "done"
         /\ \/ synced' = synced
            \/ synced' = synced \union {a} /\ work[a].pc = "sync" /\ work'[a].pc = "clear"
<1>r. IsReal(a)
  BY ThreadReal
<1> USE DEF history, files
<1>1. CASE Start(a)
  BY <1>1, StartIs DEF Start
<1>2. CASE SetupFails(a)
  BY <1>2, SetupFailsIs DEF SetupFails
<1>3. CASE Load(a)
  BY <1>3, LoadIs DEF Load
<1>4. CASE Mark(a)
  BY <1>4, <1>r, MarkIs DEF Mark
<1>5. CASE Clear(a)
  BY <1>5, <1>r, ClearIs DEF Clear
<1>6. CASE Edit(a)
  BY <1>6, <1>r, EditIs DEF Edit
<1>7. CASE Answer(a)
  BY <1>7, <1>r, AnswerIs DEF Answer
<1>8. CASE LastCheck(a)
  BY <1>8, LastCheckIs DEF LastCheck
<1>9. CASE Sync(a)
  BY <1>9, <1>r, SyncIs DEF Sync
<1> QED BY <1>1, <1>2, <1>3, <1>4, <1>5, <1>6, <1>7, <1>8, <1>9 DEF ThreadStep

LEMMA GivenUpThread ==
  ASSUME TypeInv, GivenUpInv, NEW a \in Attempts, ThreadStep(a)
  PROVE  GivenUpInv'
<1>1. OneMoves(a)
  BY ThreadTyped
<1>t. struck \subseteq Attempts /\ synced \subseteq Attempts
  BY DEF TypeInv, TablesOK
<1>2. ASSUME NEW b \in struck' PROVE work'[b].pc \in {"prompt", "last", "clear", "cleared", "done"}
  BY <1>1, <1>2, <1>t, ThreadForward DEF OneMoves, GivenUpInv
<1>3. ASSUME NEW b \in synced' PROVE work'[b].pc \in {"clear", "cleared", "done"}
  BY <1>1, <1>3, <1>t, ThreadForward DEF OneMoves, GivenUpInv
<1>4. struck' \intersect synced' = {}
  BY ThreadForward DEF GivenUpInv, GivenUpStaysOut
<1>5. struck' \subseteq cancelled'
  BY ThreadForward DEF GivenUpInv
<1> QED BY <1>2, <1>3, <1>4, <1>5 DEF GivenUpInv, GivenUpStaysOut

LEMMA GivenUpStrike ==
  ASSUME TypeInv, GivenUpInv, NEW x \in Strikers, StrikeStep(x)
  PROVE  GivenUpInv'
<1>1. work' = work /\ synced' = synced
  BY StrikeTyped DEF StrikeStep, StrikeList, StrikeWrite, Unstruck
<1>2. CASE StrikeWrite(x)
  BY <1>1, <1>2 DEF StrikeWrite, GivenUpInv, GivenUpStaysOut
<1>3. CASE StrikeList(x)
  <2>1. /\ cancelled \subseteq cancelled'
        /\ struck' = struck \/ \E a \in cancelled' : /\ struck' = struck \union {a}
                                                     /\ work[a].pc \in {"prompt", "last"}
    BY <1>3, ListCancels
  <2>2. CASE struck' = struck
    BY <1>1, <2>1, <2>2 DEF GivenUpInv, GivenUpStaysOut
  <2>3. CASE struck' # struck
    <3>1. PICK a \in cancelled' : struck' = struck \union {a} /\ work[a].pc \in {"prompt", "last"}
      BY <2>1, <2>3
    <3>2. a \notin synced
      BY <3>1 DEF GivenUpInv
    <3> QED BY <1>1, <2>1, <3>1, <3>2 DEF GivenUpInv, GivenUpStaysOut
  <2> QED BY <2>2, <2>3
<1> QED BY <1>2, <1>3 DEF StrikeStep

(* The pool only forgets the result of a thread that has ended.              *)
LEMMA PoolForgets ==
  ASSUME TypeInv, PoolStep
  PROVE  /\ UNCHANGED <<struck, synced, cancelled>>
         /\ \A a \in Attempts : work'[a] = work[a] \/ (work[a].pc = "done" /\ work'[a] = Ended)
<1>0. UNCHANGED <<struck, synced, cancelled>>
  BY DEF PoolStep, Collect, TakeAbort, TimeOut, Review, Judges, Copies, EndRound, Unpooled, files, history
<1>1. ASSUME NEW res \in Results, NEW sure \in BOOLEAN, Record(pool.at, res, sure), IsReal(pool.at),
             pool.at \in Attempts, UNCHANGED <<Unpooled, watch>>, watch[PoolThread].pc = "idle"
      PROVE  \A a \in Attempts : work'[a] = work[a] \/ (work[a].pc = "done" /\ work'[a] = Ended)
  <2>1. UNCHANGED <<dispatch, lock, watch>>
    BY <1>1 DEF Unpooled, files
  <2>2. OneMoves(pool.at) /\ (work' # work => work[pool.at].pc = "done" /\ work'[pool.at] = Ended)
    BY <1>1, <2>1, RecordIs
  <2> QED BY <2>2 DEF OneMoves
<1>2. CASE Judges
  BY <1>0, <1>1, <1>2, JudgesIs
<1>3. CASE Copies
  BY <1>0, <1>1, <1>3, CopiesIs
<1>4. CASE ~Judges /\ ~Copies
  <2>1. work' = work
    BY <1>4 DEF PoolStep, Collect, TakeAbort, TimeOut, Review, EndRound
  <2> QED BY <1>0, <2>1
<1> QED BY <1>0, <1>2, <1>3, <1>4

LEMMA GivenUpNext == TypeInv /\ GivenUpInv /\ [Next]_vars => GivenUpInv'
<1> SUFFICES ASSUME TypeInv, GivenUpInv, [Next]_vars PROVE GivenUpInv'
  OBVIOUS
<1>1. ASSUME NEW a \in Attempts, ThreadStep(a) PROVE GivenUpInv'
  BY <1>1, GivenUpThread
<1>2. ASSUME NEW x \in Strikers, StrikeStep(x) PROVE GivenUpInv'
  BY <1>2, GivenUpStrike
<1>3. ASSUME NEW a \in Attempts, WatchStep(a) PROVE GivenUpInv'
  <2>1. UNCHANGED <<work, cancelled, struck, synced>>
    BY <1>3, WatchTyped DEF Unwatched, files, history
  <2> QED BY <2>1 DEF GivenUpInv, GivenUpStaysOut
<1>4. CASE PoolStep
  <2>1. UNCHANGED <<struck, synced, cancelled>> /\ struck \subseteq Attempts /\ synced \subseteq Attempts
        /\ \A a \in Attempts : work'[a].pc = work[a].pc
    BY <1>4, PoolForgets, EmptyIs DEF TypeInv, TablesOK
  <2> QED BY <2>1 DEF GivenUpInv, GivenUpStaysOut
<1>5. CASE UNCHANGED vars
  BY <1>5 DEF GivenUpInv, GivenUpStaysOut, vars
<1> QED BY <1>1, <1>2, <1>3, <1>4, <1>5 DEF Next

(* An attempt the pool or a watcher cancelled before its last check          *)
(* (_clear_active_worker_attempt_marker) never copies its worktree into the  *)
(* checkout, for any number of rounds, workers and watchers, although each   *)
(* of them writes back copies of the active file that the others have        *)
(* changed since.                                                            *)
THEOREM CancelledNeverCopies == Spec => []GivenUpStaysOut
<1>1. Spec => []TypeInv
  BY TypeInit, TypeNext, PTL DEF Spec
<1>2. Init => GivenUpInv
  BY DEF Init, GivenUpInv, GivenUpStaysOut
<1>3. GivenUpInv => GivenUpStaysOut
  BY DEF GivenUpInv
<1> QED BY <1>1, <1>2, <1>3, GivenUpNext, PTL DEF Spec

-----------------------------------------------------------------------------
(* A completed result of attempt a names files that are in the checkout, or  *)
(* that were carried there.                                                  *)
Copied(a, res) ==
  res.rc = 0 => Files(res.diff) \subseteq checkout[SubtaskOf(a)] \union Carried(Demand(a))

(* A thread before and after its copy: what its result names is in the       *)
(* worktree, and then in the checkout.                                       *)
ThreadOn(a) ==
  /\ work[a].pc \in {"last", "sync"} /\ work[a].res.rc = 0 =>
       Files(work[a].res.diff) \subseteq work[a].tree \union Carried(Demand(a))
  /\ work[a].pc \in {"clear", "cleared", "done"} => Copied(a, work[a].res)

(* So is what the result at hand names, unless it is an event's.             *)
TargetInv ==
  /\ CompletedOnTarget
  /\ \A a \in Attempts : ThreadOn(a)
  /\ \A a \in Attempts : aborts[a] # NoAbort => aborts[a].rc = 1
  /\ pool.pc = "review" /\ ~pool.told => Copied(pool.at, pool.res)
  /\ pool.pc = "copy" => pool.res.rc # 0

(* Nothing is taken out of the checkout again.                               *)
Grows == \A s \in Subtasks : checkout[s] \subseteq checkout'[s]

LEMMA FilesAre ==
  /\ \A d : Files(d) \subseteq d
  /\ \A d, e : Files(d \union e) = Files(d) \union Files(e)
  /\ \A d : "source" \in d => "source" \in Files(d)
  BY DEF Files, FileFeatures

LEMMA CopiedStays ==
  ASSUME plan \in Plans, plan' = plan, Grows, NEW a, IsReal(a)
  PROVE  /\ SubtaskOf(a)' = SubtaskOf(a) /\ Demand(a)' = Demand(a)
         /\ checkout[SubtaskOf(a)] \subseteq checkout'[SubtaskOf(a)]
<1>1. SubtaskOf(a) \in Subtasks
  BY RealIs
<1> QED BY <1>1 DEF Grows, SubtaskOf, Demand

LEMMA OthersStay ==
  ASSUME TypeInv, TargetInv, plan' = plan, Grows, NEW b \in Attempts,
         work'[b] = work[b] \/ (work[b].pc = "done" /\ work'[b] = Ended)
  PROVE  ThreadOn(b)'
<1>0. CASE work[b].pc = "none"
  BY <1>0, EmptyIs DEF ThreadOn
<1>r. CASE work[b].pc # "none"
  <2>1. IsReal(b)
    BY <1>r DEF TypeInv, ThreadsOK
  <2>2. /\ SubtaskOf(b)' = SubtaskOf(b) /\ Demand(b)' = Demand(b)
        /\ checkout[SubtaskOf(b)] \subseteq checkout'[SubtaskOf(b)]
    BY <2>1, CopiedStays DEF TypeInv, DispatchOK
  <2>3. CASE work'[b] = work[b]
    BY <2>2, <2>3 DEF TargetInv, ThreadOn, Copied
  <2>4. CASE work'[b] = Ended
    BY <2>2, <2>4, EmptyIs, FilesAre DEF ThreadOn, Copied
  <2> QED BY <2>3, <2>4
<1> QED BY <1>0, <1>r

LEMMA CompletedStays ==
  ASSUME TargetInv, Grows, NEW s \in Subtasks, results'[s] = results[s] \/ results'[s].status = "tolerated",
         results'[s] # NoResult, results'[s].sure, results'[s].status = "completed"
  PROVE  OnTarget(checkout'[s] \union Carried(DemandsOf[s]), DemandsOf[s])
<1>1. results'[s] = results[s]
  OBVIOUS
<1>2. OnTarget(checkout[s] \union Carried(DemandsOf[s]), DemandsOf[s])
  BY <1>1 DEF TargetInv, CompletedOnTarget
<1> QED BY <1>2 DEF OnTarget, Grows

(* The thread that moves.                                                    *)
LEMMA ThreadTarget ==
  ASSUME TypeInv, TargetInv, NEW a \in Attempts, ThreadStep(a)
  PROVE  ThreadOn(a)' /\ Grows
<1>r. IsReal(a) /\ plan \in Plans
  BY ThreadReal DEF TypeInv, DispatchOK
<1>p. plan' = plan
  BY DEF ThreadStep, Start, SetupFails, Load, Mark, Clear, Edit, Answer, LastCheck, Sync, Unshared, dispatch
<1>d. SubtaskOf(a)' = SubtaskOf(a) /\ Demand(a)' = Demand(a)
  BY <1>p DEF SubtaskOf, Demand
<1>o. ThreadOn(a)
  BY DEF TargetInv
<1>c. ~Sync(a) => checkout' = checkout /\ Grows
  BY DEF ThreadStep, Start, SetupFails, Load, Mark, Clear, Edit, Answer, LastCheck, Grows
<1>1. CASE Start(a)
  BY <1>1, <1>c, StartIs DEF Start, ThreadOn, Sync
<1>2. CASE SetupFails(a)
  <2>1. ~Sync(a)
    BY <1>2 DEF SetupFails, Sync
  <2>2. work'[a].pc = "done" /\ (work'[a].res = NoAbort \/ work'[a].res.rc = 1)
    BY <1>2, SetupFailsIs
  <2>3. Files(NoAbort.diff) = {}
    BY EmptyIs, FilesAre
  <2>4. Copied(a, work[a].res)'
    BY <2>2, <2>3 DEF Copied
  <2> QED BY <1>c, <2>1, <2>2, <2>4 DEF ThreadOn
<1>3. CASE Load(a)
  <2>1. ~Sync(a)
    BY <1>3 DEF Load, Sync
  <2> QED BY <1>3, <1>c, <1>d, <1>o, <2>1, LoadIs DEF ThreadOn, Copied
<1>4. CASE Mark(a)
  BY <1>4, <1>c, <1>r, MarkIs DEF Mark, ThreadOn, Sync
<1>5. CASE Clear(a)
  <2>1. ~Sync(a)
    BY <1>5 DEF Clear, Sync
  <2> QED BY <1>5, <1>c, <1>d, <1>o, <1>r, <2>1, ClearIs, EmptyIs, FilesAre DEF ThreadOn, Copied
<1>6. CASE Edit(a)
  BY <1>6, <1>c, <1>r, EditIs DEF Edit, ThreadOn, Sync
<1>7. CASE Answer(a)
  <2>1. ~Sync(a)
    BY <1>7 DEF Answer, Sync
  <2>2. \/ work'[a].pc = "prompt"
        \/ work'[a].pc = "clear" /\ work'[a].res.rc = 1
        \/ /\ work'[a].pc = "last"
           /\ work'[a].res.diff \subseteq work'[a].tree \union Carried(Demand(a))
    BY <1>7, <1>r, AnswerIs
  <2> QED BY <1>c, <1>d, <2>1, <2>2, FilesAre DEF ThreadOn, Copied
<1>8. CASE LastCheck(a)
  <2>1. ~Sync(a)
    BY <1>8 DEF LastCheck, Sync
  <2>2. /\ work[a].pc = "last"
        /\ \/ work'[a].pc = "clear" /\ work'[a].res.rc # 0
           \/ work'[a].pc = "sync" /\ work'[a].res = work[a].res /\ work'[a].tree = work[a].tree
    BY <1>8, LastCheckIs
  <2> QED BY <1>c, <1>d, <1>o, <2>1, <2>2 DEF ThreadOn, Copied
<1>9. CASE Sync(a)
  <2>1. /\ work[a].pc = "sync" /\ work'[a].pc = "clear" /\ work'[a].res.rc = work[a].res.rc
        /\ work'[a].res.diff = work[a].res.diff \union work[a].tree
        /\ Grows /\ work[a].tree \subseteq checkout'[SubtaskOf(a)]
    BY <1>9, <1>r, SyncIs DEF Grows
  <2>2. work[a].res.rc = 0 => Files(work[a].res.diff) \subseteq work[a].tree \union Carried(Demand(a))
    BY <1>o, <2>1 DEF ThreadOn
  <2>3. work[a].res.rc = 0 => Files(work'[a].res.diff) \subseteq checkout'[SubtaskOf(a)] \union Carried(Demand(a))
    <3> DEFINE d == work[a].res.diff
               t == work[a].tree
    <3>1. Files(d \union t) = Files(d) \union Files(t) /\ Files(t) \subseteq t
      BY FilesAre
    <3>2. Files(work'[a].res.diff) = Files(d) \union Files(t)
      BY <2>1, <3>1
    <3> QED BY <2>1, <2>2, <3>1, <3>2
  <2> QED BY <1>d, <2>1, <2>3 DEF ThreadOn, Copied
<1> QED BY <1>1, <1>2, <1>3, <1>4, <1>5, <1>6, <1>7, <1>8, <1>9 DEF ThreadStep

(* The result at hand stays as it is while others move.                      *)
LEMMA HandStays ==
  ASSUME TypeInv, TargetInv, plan' = plan, pool' = pool, Grows
  PROVE  /\ pool'.pc = "review" /\ ~pool'.told => Copied(pool.at, pool.res)'
         /\ pool'.pc = "copy" => pool'.res.rc # 0
<1>1. ASSUME pool.pc = "review", ~pool.told PROVE Copied(pool.at, pool.res)'
  <2>1. IsReal(pool.at)
    BY <1>1 DEF TypeInv, PoolOK
  <2>2. checkout[SubtaskOf(pool.at)] \subseteq checkout'[SubtaskOf(pool.at)]
    BY <2>1, CopiedStays DEF TypeInv, DispatchOK
  <2>3. SubtaskOf(pool.at)' = SubtaskOf(pool.at) /\ Demand(pool.at)' = Demand(pool.at)
    BY DEF SubtaskOf, Demand
  <2> QED BY <1>1, <2>2, <2>3 DEF TargetInv, Copied
<1> QED BY <1>1 DEF TargetInv

LEMMA TargetOthers ==
  ASSUME TypeInv, TargetInv, [Next]_vars, ~PoolStep
  PROVE  TargetInv'
<1>1. ASSUME UNCHANGED <<plan, pool, results>>, Grows, NEW a \in Attempts, Aborting(a),
             \A b \in Attempts : ThreadOn(b)'
      PROVE  TargetInv'
  <2>1. CompletedOnTarget'
    BY <1>1, CompletedStays DEF CompletedOnTarget
  <2>2. \A b \in Attempts : aborts'[b] # NoAbort => aborts'[b].rc = 1
    BY <1>1 DEF TargetInv, Aborting, TypeInv, TablesOK
  <2>3. /\ pool'.pc = "review" /\ ~pool'.told => Copied(pool.at, pool.res)'
        /\ pool'.pc = "copy" => pool'.res.rc # 0
    BY <1>1, HandStays
  <2> QED BY <1>1, <2>1, <2>2, <2>3 DEF TargetInv
<1>2. ASSUME NEW a \in Attempts, ThreadStep(a) PROVE TargetInv'
  <2>1. ThreadOn(a)' /\ Grows /\ OneMoves(a)
    BY <1>2, ThreadTarget, ThreadTyped
  <2>2. UNCHANGED <<plan, pool, results, aborts>>
    BY <1>2 DEF ThreadStep, Start, SetupFails, Load, Mark, Clear, Edit, Answer, LastCheck, Sync,
                Unshared, dispatch
  <2>3. \A b \in Attempts : ThreadOn(b)'
    BY <2>1, <2>2, OthersStay DEF OneMoves
  <2> QED BY <1>1, <2>1, <2>2, <2>3 DEF Aborting
<1>3. ASSUME UNCHANGED <<plan, pool, results, work, checkout>>, NEW a \in Attempts, Aborting(a)
      PROVE  TargetInv'
  <2>1. Grows
    BY <1>3 DEF Grows
  <2>2. \A b \in Attempts : ThreadOn(b)'
    BY <1>3, <2>1, OthersStay
  <2> QED BY <1>1, <1>3, <2>1, <2>2
<1>4. ASSUME NEW a \in Attempts, WatchStep(a) PROVE TargetInv'
  <2>1. Aborting(a) /\ UNCHANGED <<plan, pool, results, work, checkout>>
    BY <1>4, WatchTyped DEF Unwatched, dispatch
  <2> QED BY <1>3, <2>1
<1>5. ASSUME UNCHANGED <<plan, pool, results, work, checkout, aborts>> PROVE TargetInv'
  <2>1. Grows
    BY <1>5 DEF Grows
  <2>2. \A b \in Attempts : ThreadOn(b)'
    BY <1>5, <2>1, OthersStay
  <2>3. CompletedOnTarget'
    BY <1>5, <2>1, CompletedStays DEF CompletedOnTarget
  <2>4. /\ pool'.pc = "review" /\ ~pool'.told => Copied(pool.at, pool.res)'
        /\ pool'.pc = "copy" => pool'.res.rc # 0
    BY <1>5, <2>1, HandStays
  <2> QED BY <1>5, <2>2, <2>3, <2>4 DEF TargetInv
<1>6. ASSUME NEW x \in Strikers, StrikeStep(x) PROVE TargetInv'
  <2>1. UNCHANGED <<plan, pool, results, work, checkout, aborts>>
    BY <1>6 DEF StrikeStep, StrikeList, StrikeWrite, Unstruck, dispatch
  <2> QED BY <1>5, <2>1
<1>7. CASE UNCHANGED vars
  <2>1. UNCHANGED <<plan, pool, results, work, checkout, aborts>>
    BY <1>7 DEF vars
  <2> QED BY <1>5, <2>1
<1> QED BY <1>2, <1>4, <1>6, <1>7 DEF Next

(* The pool records a result, with the copy it may have made.                *)
LEMMA TargetRecord ==
  ASSUME TypeInv, TargetInv, NEW res \in Results, NEW sure \in BOOLEAN,
         Record(pool.at, res, sure), IsReal(pool.at), pool.at \in Attempts,
         UNCHANGED <<Unpooled, watch>>, watch[PoolThread].pc = "idle", Grows,
         res.rc = 0 /\ sure /\ ~pool.told =>
           OnTarget(checkout'[SubtaskOf(pool.at)] \union Carried(Demand(pool.at)), Demand(pool.at))
  PROVE  TargetInv'
<1>u. UNCHANGED <<dispatch, lock, watch>> /\ plan' = plan /\ aborts' = aborts
  BY DEF Unpooled, files, dispatch
<1>1. /\ pool'.pc = "loop" /\ OneMoves(pool.at)
      /\ work' # work => work[pool.at].pc = "done" /\ work'[pool.at] = Ended
      /\ \A s \in Subtasks : s # SubtaskOf(pool.at) => results'[s] = results[s]
      /\ results'[SubtaskOf(pool.at)].status = "completed" => res.rc = 0
      /\ results'[SubtaskOf(pool.at)].sure => ~pool.told /\ sure
  BY <1>u, RecordIs
<1>2. \A b \in Attempts : ThreadOn(b)'
  <2>1. \A b \in Attempts : work'[b] = work[b] \/ (work[b].pc = "done" /\ work'[b] = Ended)
    BY <1>1 DEF OneMoves
  <2> QED BY <1>u, <2>1, OthersStay
<1>3. CompletedOnTarget'
  <2> SUFFICES ASSUME NEW s \in Subtasks, results'[s] # NoResult, results'[s].sure,
                      results'[s].status = "completed"
               PROVE  OnTarget(checkout'[s] \union Carried(DemandsOf[s]), DemandsOf[s])
    BY DEF CompletedOnTarget
  <2>1. CASE s = SubtaskOf(pool.at)
    BY <1>1, <2>1 DEF Demand
  <2>2. CASE s # SubtaskOf(pool.at)
    BY <1>1, <2>2, CompletedStays
  <2> QED BY <2>1, <2>2
<1> QED BY <1>1, <1>2, <1>3, <1>u DEF TargetInv

LEMMA TargetPool == TypeInv /\ TargetInv /\ PoolStep => TargetInv'
<1> SUFFICES ASSUME TypeInv, TargetInv, PoolStep PROVE TargetInv'
  OBVIOUS
<1>1. ASSUME NEW a \in Attempts, Collect(a) \/ TakeAbort(a) \/ TimeOut(a) PROVE TargetInv'
  <2>1. /\ pool'.pc = "review" /\ pool'.at = a
        /\ \/ work[a].pc = "done" /\ pool'.res = work[a].res
           \/ aborts[a] # NoAbort /\ pool'.res = aborts[a]
           \/ pool'.told
           \/ pool'.res.rc = 1
        /\ UNCHANGED <<Unpooled, taken, work, started, results, checkout>>
    BY <1>1, TakeUpIs
  <2>2. UNCHANGED <<plan, work, results, checkout, aborts>> /\ Grows
    BY <2>1 DEF Unpooled, dispatch, Grows
  <2>3. \A b \in Attempts : ThreadOn(b)'
    BY <2>2, OthersStay
  <2>4. CompletedOnTarget'
    BY <2>2, CompletedStays DEF CompletedOnTarget
  <2>5. ASSUME ~pool'.told PROVE Copied(pool.at, pool.res)'
    <3>1. pool'.res.rc = 0 => work[a].pc = "done" /\ pool'.res = work[a].res
      BY <2>1, <2>5 DEF TargetInv
    <3>2. pool'.res.rc = 0 =>
            Files(pool'.res.diff) \subseteq checkout[SubtaskOf(a)] \union Carried(Demand(a))
      BY <3>1 DEF TargetInv, ThreadOn, Copied
    <3>3. SubtaskOf(pool.at)' = SubtaskOf(a) /\ Demand(pool.at)' = Demand(a)
      BY <2>1, <2>2 DEF SubtaskOf, Demand
    <3> QED BY <2>2, <3>2, <3>3 DEF Copied
  <2>6. \A b \in Attempts : aborts'[b] # NoAbort => aborts'[b].rc = 1
    BY <2>2 DEF TargetInv
  <2>7. pool'.pc # "copy"
    BY <2>1
  <2> QED BY <2>3, <2>4, <2>5, <2>6, <2>7 DEF TargetInv
<1>2. CASE Review
  <2>1. pool'.pc = "copy" /\ pool'.res.rc # 0
    BY <1>2, ReviewIs
  <2>2. UNCHANGED <<plan, work, results, checkout, aborts>> /\ Grows
    BY <1>2 DEF Review, Unpooled, dispatch, Grows
  <2>3. \A b \in Attempts : ThreadOn(b)'
    BY <2>2, OthersStay
  <2>4. CompletedOnTarget'
    BY <2>2, CompletedStays DEF CompletedOnTarget
  <2> QED BY <2>1, <2>2, <2>3, <2>4 DEF TargetInv
<1>3. CASE Judges
  <2> DEFINE a == pool.at
             res == Verdict(AtHand(a), work[a].tree, Demand(a), FALSE)
  <2>1. /\ pool.pc = "review" /\ IsReal(a) /\ a \in Attempts
        /\ res \in Results
        /\ res.rc = 0 => pool.res.rc = 0 /\ OnTarget(pool.res.diff \union Carried(Demand(a)), Demand(a))
        /\ \E sure \in BOOLEAN : Record(a, res, sure)
        /\ UNCHANGED <<Unpooled, watch, checkout>> /\ watch[PoolThread].pc = "idle"
    BY <1>3, JudgesIs
  <2>2. Grows
    BY <2>1 DEF Grows
  <2> HIDE DEF res
  <2>3. res.rc = 0 /\ ~pool.told => OnTarget(checkout'[SubtaskOf(a)] \union Carried(Demand(a)), Demand(a))
    <3> SUFFICES ASSUME res.rc = 0, ~pool.told
                 PROVE  OnTarget(checkout[SubtaskOf(a)] \union Carried(Demand(a)), Demand(a))
      BY <2>1
    <3>1. Files(pool.res.diff) \subseteq checkout[SubtaskOf(a)] \union Carried(Demand(a))
      BY <2>1 DEF TargetInv, Copied
    <3>2. OnTarget(pool.res.diff \union Carried(Demand(a)), Demand(a))
      BY <2>1
    <3> QED BY <3>1, <3>2, FilesAre DEF OnTarget
  <2>4. PICK sure \in BOOLEAN : Record(a, res, sure)
    BY <2>1
  <2> QED BY <2>1, <2>2, <2>3, <2>4, TargetRecord
<1>4. CASE Copies
  <2> DEFINE a == pool.at
  <2>1. /\ pool.pc = "copy" /\ IsReal(a) /\ a \in Attempts
        /\ UNCHANGED <<Unpooled, watch>> /\ watch[PoolThread].pc = "idle" /\ Grows
    BY <1>4, CopiesIs DEF Grows
  <2>2. PICK res \in Results, sure \in BOOLEAN :
          /\ Record(a, res, sure)
          /\ sure => Files(pool.res.diff) \subseteq work[a].tree \union Carried(Demand(a))
          /\ \/ res.rc = pool.res.rc
             \/ /\ work[a].tree \subseteq checkout'[SubtaskOf(a)]
                /\ res.rc = 0 => OnTarget(pool.res.diff \union work[a].tree, Demand(a))
    BY <1>4, CopiesIs
  <2>3. res.rc = 0 /\ sure => OnTarget(checkout'[SubtaskOf(a)] \union Carried(Demand(a)), Demand(a))
    <3> SUFFICES ASSUME res.rc = 0, sure
                 PROVE  OnTarget(checkout'[SubtaskOf(a)] \union Carried(Demand(a)), Demand(a))
      OBVIOUS
    <3>1. pool.res.rc # 0
      BY <2>1 DEF TargetInv
    <3>2. /\ work[a].tree \subseteq checkout'[SubtaskOf(a)]
          /\ OnTarget(pool.res.diff \union work[a].tree, Demand(a))
          /\ Files(pool.res.diff) \subseteq work[a].tree \union Carried(Demand(a))
      BY <2>2, <3>1
    <3> QED BY <3>2, FilesAre DEF OnTarget
  <2> QED BY <2>1, <2>2, <2>3, TargetRecord
<1>5. CASE EndRound
  <2>1. /\ UNCHANGED <<plan, work, checkout>> /\ pool'.pc = "loop"
        /\ aborts' = [a \in Attempts |-> NoAbort]
        /\ \A s \in Subtasks : results'[s] = results[s] \/ results'[s].status = "tolerated"
    BY <1>5, EndRoundIs
  <2>2. Grows
    BY <2>1 DEF Grows
  <2>3. \A b \in Attempts : ThreadOn(b)'
    BY <2>1, <2>2, OthersStay
  <2>4. CompletedOnTarget'
    BY <2>1, <2>2, CompletedStays DEF CompletedOnTarget
  <2>5. \A b \in Attempts : aborts'[b] = NoAbort
    BY <2>1
  <2> QED BY <2>1, <2>3, <2>4, <2>5 DEF TargetInv
<1> QED BY <1>1, <1>2, <1>3, <1>4, <1>5 DEF PoolStep

LEMMA TargetInit == Init => TargetInv
<1> SUFFICES ASSUME Init PROVE TargetInv
  OBVIOUS
<1>1. CompletedOnTarget
  BY DEF Init, CompletedOnTarget
<1>2. \A a \in Attempts : ThreadOn(a)
  BY EmptyIs DEF Init, ThreadOn
<1> QED BY <1>1, <1>2 DEF Init, TargetInv

(* A subtask counts as completed only when its primary source target is in   *)
(* what was copied into the run's checkout or carried there, for any plans,  *)
(* demands and edits: whether the worker's own thread copied its worktree,   *)
(* or the pool did after it had given the worker up.  Results told by an     *)
(* event, and files that the worker has taken back, are the exceptions that  *)
(* CompletedOnTarget names.                                                  *)
THEOREM CompletedHasTarget == Spec => []CompletedOnTarget
<1>1. Spec => []TypeInv
  BY TypeInit, TypeNext, PTL DEF Spec
<1>2. TypeInv /\ TargetInv /\ [Next]_vars => TargetInv'
  BY TargetOthers, TargetPool
<1>3. TargetInv => CompletedOnTarget
  BY DEF TargetInv
<1> QED BY <1>1, <1>2, <1>3, TargetInit, PTL DEF Spec
=============================================================================
