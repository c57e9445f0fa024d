------------------------------ MODULE WorkerPool ------------------------------
(* The pool of sub-workers of a run (core/phases/worker_dispatch.py,         *)
(* core/execution/runner_core.py, core/execution/worker.py).  A round is one *)
(* call of dispatch_workers; its i-th subtask is given to the worker with    *)
(* the id "worker-i", in every round again, and the pair of round and worker *)
(* is an attempt (its execution id).  Beside the pool's own thread there are *)
(* a thread for every attempt, which outlives the round when the pool gives  *)
(* it up, and the threads that watch it: the heartbeat of the round and the  *)
(* snapshot of the attempt's diff.  They meet in two files of the run:       *)
(* active_worker_attempts.json, and cancelled_worker_attempts.json.          *)
EXTENDS WorkerVerdict, Sequences

CONSTANTS
  Subtasks,
  DemandsOf,     \* what each subtask demands, a function to sets of Demands
  Plans,         \* the runs: their rounds (sequences of subtasks) and how many
                 \* workers may run at a time (swarm.max_workers)
  EditsOf,       \* the contents the worktree of each subtask may come to
  MayAnswer,     \* what the engine may answer, a subset of Answers,
  MayNote,       \* what it may note on a diff, a subset of Notes, and
  MaySay,        \* what its messages may say of a session, a subset of EngineSays
  Tolerant,      \* whether the source of the task lets failures be tolerated
  NoResult       \* a subtask without a result

ASSUME WorkerPoolAssumption ==
  /\ DemandsOf \in [Subtasks -> SUBSET Demands]
  /\ \A p \in Plans : p.rounds \in Seq(Seq(Subtasks)) \ {<<>>} /\ p.limit \in Nat \ {0}
  /\ EditsOf \in [Subtasks -> SUBSET SUBSET DiffFeatures]
  /\ MayAnswer \subseteq Answers /\ MayNote \subseteq Notes /\ MaySay \subseteq EngineSays
  /\ Tolerant \in BOOLEAN

VARIABLES
  plan,       \* the run
  round,      \* the current round
  stage,      \* "pool": in dispatch_workers; "over": the run is
  pool,       \* the pool's thread: its step, the attempt, the result at hand
  fut,        \* the future of each attempt
  taken,      \* the attempts whose result the pool has
  work,       \* the attempt's thread: its step, worktree, result, file copy
  lock,       \* WORKER_STATUS_LOCK: the attempt that holds it
  active,     \* active_worker_attempts.json: worker -> round, 0 for none
  cancelled,  \* cancelled_worker_attempts.json: a set of attempts
  watch,      \* the heartbeat and the snapshot thread of each attempt
  started,    \* the attempts in the round's active_workers
  aborts,     \* active_worker_abort_results: attempt -> result
  snap,       \* active_worker_progress_snapshots: attempt -> diff
  events,     \* the last worker.completed or worker.failed of a worker and subtask
  results,    \* worker_results of the run, by subtask
  checkout,   \* what was copied into the run's checkout, by subtask
  struck,     \* history: attempts cancelled before their last check
  synced      \* history: attempts that copied their worktree themselves

vars == <<plan, round, stage, pool, fut, taken, work, lock, active, cancelled, watch,
          started, aborts, snap, events, results, checkout, struck, synced>>
files   == <<active, cancelled, lock>>
history == <<struck, synced>>
dispatch == <<plan, round, stage>>

Rounds   == UNION {DOMAIN p.rounds : p \in Plans}
Workers  == UNION {UNION {DOMAIN p.rounds[r] : r \in DOMAIN p.rounds} : p \in Plans}
Attempts == Rounds \X Workers
None     == <<0, 0>>
NoAbort  == Done({})
Guards   == {"beat", "snap"} \X Attempts
PoolThread == <<"pool", None>>
Strikers == Guards \union {PoolThread}

limit        == plan.limit
InRound(r)   == {<<r, i>> : i \in DOMAIN plan.rounds[r]}
Current      == InRound(round)
SubtaskOf(a) == plan.rounds[a[1]][a[2]]
Demand(a)    == DemandsOf[SubtaskOf(a)]

ThreadSteps == {"none", "setup", "marked", "prompt", "last", "sync", "clear", "cleared", "done"}
Results == [rc : {0, 1}, reason : ResultReasons, patch : BOOLEAN, diff : SUBSET DiffFeatures]
Idle    == [pc |-> "idle", diff |-> {}, reason |-> "", marks |-> [w \in Workers |-> 0]]
(* Of a thread that has ended and whose result is taken nothing is kept.     *)
NoWork  == [pc |-> "none", tree |-> {}, res |-> NoAbort, again |-> FALSE,
            marks |-> [w \in Workers |-> 0]]

(* The kinds and ranges of the variables; an attempt that has ended is not   *)
(* waited for by the lock.                                                   *)
TypeOK ==
  /\ plan \in Plans /\ round \in Rounds
  /\ stage \in {"pool", "over"}
  /\ pool.pc \in {"loop", "review", "copy"} /\ pool.at \in Attempts \union {None}
  /\ pool.res \in Results
  /\ fut \in [Attempts -> {"none", "queued", "running", "cancelled"}]
  /\ taken \subseteq Attempts /\ started \subseteq Attempts
  /\ \A a \in Attempts : work[a].pc \in ThreadSteps /\ work[a].res \in Results
  /\ lock = None \/ work[lock].pc \in {"marked", "cleared"}
  /\ active \in [Workers -> {0} \union Rounds]
  /\ cancelled \subseteq Attempts
  /\ \A x \in Strikers : watch[x].pc \in {"idle", "act", "list", "write", "done"}
  /\ aborts \in [Attempts -> Results]
  /\ snap \in [Attempts -> SUBSET DiffFeatures]
  /\ \A k \in Workers \X Subtasks : events[k] = NoResult \/ events[k] \in Results
  /\ checkout \in [Subtasks -> SUBSET DiffFeatures]
  /\ struck \subseteq Attempts /\ synced \subseteq Attempts

(* The futures a round begins with: all of them, or the first when only one  *)
(* worker runs at a time; none in a round without subtasks.                  *)
Submitted(r, p) ==
  {<<r, i>> : i \in {j \in DOMAIN p.rounds[r] : p.limit = 1 => j = 1}}

Init ==
  /\ plan \in Plans
  /\ round = 1 /\ stage = "pool"
  /\ pool = [pc |-> "loop", at |-> None, res |-> NoAbort, gave |-> FALSE, told |-> FALSE,
             late |-> FALSE]
  /\ fut = [a \in Attempts |-> IF a \in Submitted(1, plan) THEN "queued" ELSE "none"]
  /\ taken = {} /\ started = {}
  /\ work = [a \in Attempts |-> NoWork]
  /\ lock = None
  /\ active = [w \in Workers |-> 0]
  /\ cancelled = {}
  /\ watch = [x \in Strikers |-> Idle]
  /\ aborts = [a \in Attempts |-> NoAbort]
  /\ snap = [a \in Attempts |-> {}]
  /\ events = [k \in Workers \X Subtasks |-> NoResult]
  /\ results = [s \in Subtasks |-> NoResult]
  /\ checkout = [s \in Subtasks |-> {}]
  /\ struck = {} /\ synced = {}

Ended == [NoWork EXCEPT !.pc = "done"]

-----------------------------------------------------------------------------
(* The thread of an attempt.                                                 *)
Goto(a, step)  == work' = [work EXCEPT ![a].pc = step]
Unshared == <<dispatch, pool, taken, watch, aborts, snap, results>>

(* _run_one: on_start registers the worker in the round's tables.            *)
Start(a) ==
  /\ fut[a] = "queued" /\ work[a].pc = "none"
  /\ limit > 1 => Cardinality({b \in InRound(a[1]) : fut[b] = "running" /\ work[b].pc # "done"}) < limit
  /\ fut' = [fut EXCEPT ![a] = "running"]
  /\ started' = started \union {a}
  /\ Goto(a, "setup")
  /\ UNCHANGED <<Unshared, files, events, checkout, history>>

(* The worktree cannot be made, or the carried patch does not apply to it:   *)
(* the thread ends before it has marked itself.  (Otherwise Load comes.)     *)
SetupFails(a) ==
  /\ work[a].pc = "setup"
  /\ \E r \in {"", "CARRY_FORWARD_PATCH_APPLY_FAILED"} :
       /\ r # "" => Uses(Demand(a))
       /\ work' = [work EXCEPT ![a] = IF a \in taken THEN Ended
                                      ELSE [Ended EXCEPT !.res = Failed(r, FALSE, {})]]
  /\ UNCHANGED <<Unshared, fut, started, files, events, checkout, history>>

(* _mark_active_worker_attempt and _clear_active_worker_attempt read the     *)
(* file and write it under the lock, which the watchers do not take.         *)
Load(a) ==
  /\ work[a].pc \in {"setup", "clear"} /\ lock = None
  /\ lock' = a
  /\ work' = [work EXCEPT ![a].pc = IF @ = "setup" THEN "marked" ELSE "cleared", ![a].marks = active]
  /\ UNCHANGED <<Unshared, fut, started, active, cancelled, events, checkout, history>>

Mark(a) ==
  /\ work[a].pc = "marked"
  /\ active' = [work[a].marks EXCEPT ![a[2]] = a[1]]
  /\ lock' = None
  /\ work' = [work EXCEPT ![a].pc = "prompt", ![a].marks = NoWork.marks]
  /\ UNCHANGED <<Unshared, fut, started, cancelled, events, checkout, history>>

Clear(a) ==
  /\ work[a].pc = "cleared"
  /\ active' = IF work[a].marks[a[2]] = a[1] THEN [work[a].marks EXCEPT ![a[2]] = 0] ELSE active
  /\ lock' = None
  /\ work' = [work EXCEPT ![a] = IF a \in taken THEN Ended
                                 ELSE [@ EXCEPT !.pc = "done", !.marks = NoWork.marks]]
  /\ UNCHANGED <<Unshared, fut, started, cancelled, events, checkout, history>>

(* The engine edits the worktree.                                            *)
Edit(a) ==
  /\ work[a].pc = "prompt"
  /\ \E d \in EditsOf[SubtaskOf(a)] :
       /\ d # work[a].tree
       /\ work' = [work EXCEPT ![a].tree = d]
  /\ UNCHANGED <<Unshared, fut, started, files, events, checkout, history>>

(* _run_has_terminal_status and _worker_event_attempt_is_current.            *)
Terminal   == stage = "over"
IsCurrent(a) == a \notin cancelled /\ active[a[2]] = a[1]
LateResult(a, r) ==
  work' = [work EXCEPT ![a].pc = "clear",
             ![a].res = [r EXCEPT !.rc = 1,
                           !.reason = IF Terminal THEN "WORKER_RESULT_AFTER_RUN_TERMINAL"
                                      ELSE "WORKER_RESULT_AFTER_RETRY_SUPERSEDED"]]

(* The engine answers or fails.  After a first answer the markers are looked *)
(* at, after a second one only the run's status.  The verdict follows, the   *)
(* seed of a candidate pull request, and one retry.                          *)
Answer(a) ==
  /\ work[a].pc = "prompt"
  /\ \E r \in MayAnswer :
       IF Terminal \/ (~IsCurrent(a) /\ ~work[a].again)
       THEN LateResult(a, r)
       ELSE \E note \in MayNote, seed \in {{}} \union EditsOf[SubtaskOf(a)] :
              LET res == Judged(r, work[a].tree, Demand(a), note)
              IN work' = [work EXCEPT ![a] =
                   IF Seeds(res, work[a].tree, Demand(a)) /\ ~@.again /\ Files(seed) # {}
                   THEN [@ EXCEPT !.pc = "last", !.tree = seed, !.res = Done(seed)]
                   ELSE IF Retries(res) /\ ~@.again
                   THEN [@ EXCEPT !.again = TRUE]
                   ELSE [@ EXCEPT !.pc = "last", !.res = res]]
  /\ UNCHANGED <<Unshared, fut, started, files, events, checkout, history>>

(* _append_worker_event_if_run_active.                                       *)
Publish(a, res) ==
  events' = IF Terminal \/ ~IsCurrent(a) THEN events
            ELSE [events EXCEPT ![<<a[2], SubtaskOf(a)>>] = res]

(* Mutant: the worktree is copied without a look at the markers.             *)
CheckedOnce(a) ==
  /\ work[a].pc = "last"
  /\ IF work[a].res.rc = 0 THEN Goto(a, "sync") /\ UNCHANGED events
     ELSE Goto(a, "clear") /\ Publish(a, work[a].res)
  /\ UNCHANGED <<Unshared, fut, started, files, checkout, history>>

(* The last check before the worktree is copied; a failure only has its      *)
(* event.                                                                    *)
LastCheck(a) ==
  /\ work[a].pc = "last"
  /\ IF Terminal \/ ~IsCurrent(a) THEN LateResult(a, work[a].res) /\ UNCHANGED events
     ELSE IF work[a].res.rc = 0 THEN Goto(a, "sync") /\ UNCHANGED events
     ELSE Goto(a, "clear") /\ Publish(a, work[a].res)
  /\ UNCHANGED <<Unshared, fut, started, files, checkout, history>>

(* The worktree is copied, whatever was cancelled since the check.           *)
Sync(a) ==
  /\ work[a].pc = "sync"
  /\ checkout' = [checkout EXCEPT ![SubtaskOf(a)] = @ \union work[a].tree]
  /\ work' = [work EXCEPT ![a].pc = "clear", ![a].res.diff = @ \union work[a].tree]
  /\ synced' = synced \union {a}
  /\ Publish(a, work'[a].res)
  /\ UNCHANGED <<Unshared, fut, started, files, struck>>

-----------------------------------------------------------------------------
(* _clear_active_worker_attempt_marker, by the pool and by the watchers: the *)
(* attempt the active file names is added to the cancelled file, and then    *)
(* the active file is written from the copy that was read before.  The guard *)
(* of unterminated workers ends with an event of its own.  A watcher strikes *)
(* an attempt once (a bound of the model), and not when the run is over and  *)
(* nobody reads the files any more.                                          *)
Target(x) == IF x = PoolThread THEN pool.at[2] ELSE x[2][2]
Unstruck  == <<dispatch, pool, fut, taken, work, lock, started, aborts, snap, results, checkout,
               synced>>
Struck(x) ==
  /\ watch' = [watch EXCEPT ![x] = IF x = PoolThread THEN Idle ELSE [Idle EXCEPT !.pc = "done"]]
  /\ events' = IF watch[x].reason # "WORKER_VERIFIABLE_DIFF_UNTERMINATED" THEN events
               ELSE [events EXCEPT ![<<Target(x), SubtaskOf(x[2])>>] =
                       AbortResult(watch[x].reason, watch[x].diff, Demand(x[2]))]

(* Mutant: a worker without a marker is cancelled as well.                   *)
StrikeAnyway(x) ==
  /\ watch[x].pc = "list" /\ ~Terminal
  /\ cancelled' = cancelled \union {<<active[Target(x)], Target(x)>>}
  /\ watch' = [watch EXCEPT ![x].pc = "write", ![x].marks = active]
  /\ UNCHANGED <<Unstruck, active, events, struck>>

StrikeList(x) ==
  /\ watch[x].pc = "list" /\ ~Terminal
  /\ IF active[Target(x)] = 0
     THEN Struck(x) /\ UNCHANGED <<cancelled, struck>>
     ELSE LET a == <<active[Target(x)], Target(x)>>
          IN /\ cancelled' = cancelled \union {a}
             /\ struck' = IF work[a].pc \in {"prompt", "last"} THEN struck \union {a} ELSE struck
             /\ watch' = [watch EXCEPT ![x].pc = "write", ![x].marks = active]
             /\ UNCHANGED events
  /\ UNCHANGED <<Unstruck, active>>

StrikeWrite(x) ==
  /\ watch[x].pc = "write" /\ ~Terminal
  /\ active' = [watch[x].marks EXCEPT ![Target(x)] = 0]
  /\ Struck(x)
  /\ UNCHANGED <<Unstruck, cancelled, struck>>

-----------------------------------------------------------------------------
(* The watchers.  They need the worker.started event of the attempt.         *)
Watched(a) == a \in started /\ work[a].pc \notin {"none", "setup", "marked"}
Unwatched  == <<dispatch, pool, fut, taken, work, files, started, events, results, checkout,
                history>>

(* _snapshot_worker_progress_diff reads the diff, and acts on it later.      *)
Look(a) ==
  /\ Watched(a) /\ stage = "pool" /\ a \in Current
  /\ watch[<<"snap", a>>].pc = "idle"
  /\ \E late \in BOOLEAN :
       LET g == Guard(work[a].tree, Demand(a), late)
       IN /\ g # ""
          /\ snap[a] # work[a].tree \/ g # "keep"
          /\ watch' = [watch EXCEPT ![<<"snap", a>>] =
                         [Idle EXCEPT !.pc = "act", !.diff = work[a].tree, !.reason = g]]
  /\ UNCHANGED <<Unwatched, aborts, snap>>

(* The tables of a round are gone with it.                                   *)
Aborted(x) ==
  IF x[2] \notin Current \/ stage # "pool" THEN aborts
  ELSE [aborts EXCEPT ![x[2]] = AbortResult(watch[x].reason, watch[x].diff, Demand(x[2]))]

SnapActs(a) ==
  LET x == <<"snap", a>> IN
  /\ watch[x].pc = "act" /\ ~Terminal
  /\ IF watch[x].reason \in Rechecked /\ a \notin started
     THEN watch' = [watch EXCEPT ![x] = Idle] /\ UNCHANGED <<aborts, snap>>
     ELSE /\ snap' = IF a \in Current /\ stage = "pool" THEN [snap EXCEPT ![a] = watch[x].diff] ELSE snap
          /\ IF watch[x].reason = "keep"
             THEN watch' = [watch EXCEPT ![x] = Idle] /\ UNCHANGED aborts
             ELSE /\ aborts' = Aborted(x)
                  /\ watch' = [watch EXCEPT ![x].pc = "list"]
  /\ UNCHANGED Unwatched

(* _maybe_abort_no_change_repair_worker, of the heartbeat thread.            *)
Beat(a) ==
  /\ Watched(a) /\ stage = "pool" /\ a \in Current
  /\ \A b \in Current : watch[<<"beat", b>>].pc \in {"idle", "done"}
  /\ watch[<<"beat", a>>].pc = "idle"
  /\ aborts[a] = NoAbort
  /\ \E late \in BOOLEAN, says \in MaySay :
       LET x == <<"beat", a>>
           g == NoChange(work[a].tree, Demand(a), late, says)
       IN /\ g # ""
          /\ aborts' = [aborts EXCEPT ![a] = AbortResult(g, {}, Demand(a))]
          /\ watch' = [watch EXCEPT ![x] = [Idle EXCEPT !.pc = "list", !.reason = g]]
  /\ UNCHANGED <<Unwatched, snap>>

-----------------------------------------------------------------------------
(* The pool: _execute_local_worker_pool, with _on_result.                    *)
Pending == {a \in Current : fut[a] \in {"queued", "running"} /\ a \notin taken}
Unpooled == <<dispatch, files, aborts, snap, events, history>>
(* A result is at hand, and its worker may have to be struck first.          *)
Hand(a, res) == pool' = [pool EXCEPT !.pc = "review", !.at = a, !.res = res]
(* The deadline of several workers is the same; then no other result counts. *)
HandLate(a, res, gave, told) ==
  pool' = [pc |-> "review", at |-> a, res |-> res, gave |-> gave, told |-> told,
           late |-> limit > 1]
Loops == pool.pc = "loop" /\ stage = "pool" /\ watch[PoolThread].pc = "idle"

Collect(a) ==
  /\ Loops /\ ~pool.late /\ a \in Pending /\ work[a].pc = "done"
  /\ Hand(a, work[a].res)
  /\ UNCHANGED <<Unpooled, fut, taken, work, started, watch, results, checkout>>

TakeAbort(a) ==
  /\ Loops /\ ~pool.late /\ a \in Pending /\ aborts[a] # NoAbort
  /\ Hand(a, aborts[a])
  /\ watch' = [watch EXCEPT ![PoolThread] = [Idle EXCEPT !.pc = "list"]]
  /\ UNCHANGED <<Unpooled, fut, taken, work, started, results, checkout>>

(* The time is over: an event of the worker is taken for its result, whoever *)
(* wrote it; otherwise the worker is cancelled and, if it runs, given up.    *)
TimeOut(a) ==
  /\ Loops /\ a \in Pending
  /\ LET e == events[<<a[2], SubtaskOf(a)>>]
     IN IF e # NoResult
        THEN HandLate(a, e, FALSE, TRUE) /\ UNCHANGED <<fut, watch>>
        ELSE /\ fut' = [fut EXCEPT ![a] = IF work[a].pc = "none" THEN "cancelled" ELSE @]
             /\ HandLate(a, Failed("WORKER_NO_PROGRESS", FALSE, {}), work[a].pc # "none", FALSE)
             /\ watch' = [watch EXCEPT ![PoolThread] = [Idle EXCEPT !.pc = "list"]]
  /\ UNCHANGED <<Unpooled, taken, work, started, results, checkout>>

Effective(a, res) ==
  IF Files(res.diff) # {} THEN [res EXCEPT !.diff = Validation(res.diff, Demand(a))] ELSE res
AtHand(a) == AttachSnapshot(Effective(a, pool.res), snap[a])

(* A failed result is taken for review when the worktree allows it, and the  *)
(* worktree is copied in a step of its own; the abandoned worker may still   *)
(* write to it.                                                              *)
Review ==
  /\ pool.pc = "review" /\ watch[PoolThread].pc = "idle"
  /\ Takes(AtHand(pool.at), work[pool.at].tree, Demand(pool.at))
  /\ pool' = [pool EXCEPT !.pc = "copy", !.res = AtHand(pool.at)]
  /\ UNCHANGED <<Unpooled, fut, taken, work, started, watch, results, checkout>>

(* The result is recorded, and the worker leaves the round's tables.  When   *)
(* one worker runs at a time, the next one is submitted unless this failed.  *)
Unresolved(res) == res.rc # 0
(* sure: it was the worker's own, and nothing of it was taken back since.    *)
Record(a, res, sure) ==
  /\ results' = [results EXCEPT ![SubtaskOf(a)] =
                   [reason |-> res.reason, gave |-> pool.gave /\ res.rc # 0,
                    sure |-> ~pool.told /\ sure, status |-> IF res.rc = 0 THEN "completed" ELSE "failed"]]
  /\ taken' = taken \union {a}
  /\ work' = [work EXCEPT ![a] = IF @.pc = "done" THEN Ended ELSE @]
  /\ started' = started \ {a}
  /\ pool' = [pool EXCEPT !.pc = "loop", !.at = None, !.res = NoAbort, !.gave = FALSE,
                          !.told = FALSE]
  /\ LET next == <<a[1], a[2] + 1>>
     IN fut' = [b \in Attempts |->
                  IF limit = 1 /\ b = next /\ b \in Current /\ ~Unresolved(res) THEN "queued"
                  ELSE IF limit = 1 /\ b = a /\ work[a].pc = "none" THEN "cancelled" ELSE fut[b]]

(* Mutant: a result counts although it missed the primary source target.     *)
JudgesAsTold ==
  LET a == pool.at IN
  /\ pool.pc = "review" /\ watch[PoolThread].pc = "idle"
  /\ ~Takes(AtHand(a), work[a].tree, Demand(a))
  /\ Record(a, AtHand(a), TRUE)
  /\ UNCHANGED <<Unpooled, watch, checkout>>

Judges ==
  LET a == pool.at IN
  /\ pool.pc = "review" /\ watch[PoolThread].pc = "idle"
  /\ ~Takes(AtHand(a), work[a].tree, Demand(a))
  /\ Record(a, Verdict(AtHand(a), work[a].tree, Demand(a), FALSE), TRUE)
  /\ UNCHANGED <<Unpooled, watch, checkout>>

Copies ==
  LET a == pool.at IN
  /\ pool.pc = "copy"
  /\ \E ok \in BOOLEAN :
       /\ checkout' = IF ok THEN [checkout EXCEPT ![SubtaskOf(a)] = @ \union work[a].tree]
                      ELSE checkout
       /\ ok => Files(work[a].tree) # {}
       /\ Record(a, IF ok THEN Targeted(Done(pool.res.diff \union work[a].tree), Demand(a))
                    ELSE pool.res,
                 Files(pool.res.diff) \subseteq work[a].tree \union Carried(Demand(a)))
  /\ UNCHANGED <<Unpooled, watch>>

(* _apply_tolerated_failures, at the end of a round.                         *)
SatisfiedIn(s) == "existing" \in DemandsOf[s] \/ Targets(DemandsOf[s]) \subseteq checkout[s]
Tolerated(s, r) ==
  IF r # NoResult /\ Tolerant /\ r.status = "failed" /\ SatisfiedIn(s)
     /\ r.reason \in {"", "TARGET_FILES_UNCHANGED", "WORKER_PRIMARY_SOURCE_TARGET_MISSING",
                          "CARRY_FORWARD_PATCH_APPLY_FAILED", "WORKER_RESULT_AFTER_RETRY_SUPERSEDED"}
  THEN [r EXCEPT !.status = "tolerated"] ELSE r

(* The round is over, and with it the tables of its workers.  The run goes   *)
(* on with another round, unless a worker was given up, or it ends.          *)
EndRound ==
  LET tried == [s \in Subtasks |-> Tolerated(s, results[s])]
      again == /\ round < Len(plan.rounds)
               /\ \A s \in Subtasks : tried[s] # NoResult => ~tried[s].gave
  IN
  /\ stage = "pool" /\ pool.pc = "loop" /\ Pending = {}
  /\ results' = tried
  /\ IF again
     THEN round' = round + 1 /\ UNCHANGED stage
     ELSE stage' = "over" /\ UNCHANGED round
  /\ fut' = [a \in Attempts |->
               IF again /\ a \in Submitted(round + 1, plan) THEN "queued" ELSE fut[a]]
  /\ pool' = [pool EXCEPT !.late = FALSE]
  /\ started' = started \ Current
  /\ aborts' = [a \in Attempts |-> NoAbort] /\ snap' = [a \in Attempts |-> {}]
  /\ UNCHANGED <<plan, taken, work, files, watch, events, checkout, history>>

ThreadStep(a) ==
  \/ Start(a) \/ SetupFails(a) \/ Load(a) \/ Mark(a) \/ Clear(a) \/ Edit(a)
  \/ Answer(a) \/ LastCheck(a) \/ Sync(a)
StrikeStep(x) == StrikeList(x) \/ StrikeWrite(x)
WatchStep(a) == Look(a) \/ SnapActs(a) \/ Beat(a)
PoolStep ==
  \/ \E a \in Attempts : Collect(a) \/ TakeAbort(a) \/ TimeOut(a)
  \/ Review \/ Judges \/ Copies \/ EndRound

Next ==
  \/ \E a \in Attempts : ThreadStep(a) \/ WatchStep(a)
  \/ \E x \in Strikers : StrikeStep(x)
  \/ PoolStep

Spec == Init /\ [][Next]_vars
-----------------------------------------------------------------------------
(* A subtask is recorded as completed only when what was copied into the     *)
(* checkout, with what was carried there, has its primary source target,     *)
(* whether the worker copied it or ACA did while the worker still ran,       *)
(* provided that the result was no event of an earlier attempt, and that the *)
(* worker had not taken back a file its snapshot had.                        *)
CompletedOnTarget ==
  \A s \in Subtasks :
    results[s] # NoResult /\ results[s].sure /\ results[s].status = "completed" =>
      OnTarget(checkout[s] \union Carried(DemandsOf[s]), DemandsOf[s])

(* An attempt that was cancelled before its last check never copies its      *)
(* worktree into the checkout, also when the next round has given its worker *)
(* id to another attempt, and whatever stale copy of the active file another *)
(* thread writes back.                                                       *)
GivenUpStaysOut == struck \intersect synced = {}
=============================================================================
