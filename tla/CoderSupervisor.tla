--------------------------- MODULE CoderSupervisor ---------------------------
(* The supervisor of runs that outlive their own process                     *)
(* (core/scheduling/coder_supervisor.py): runs that a Tandem coder executes, *)
(* and runs whose pull request is still open.  One run is modelled.  Three   *)
(* kinds of thread work on it: the run's own (_run_coder_backend), the       *)
(* supervisor loop of the API server, which a lock serializes, and requests  *)
(* to the operator's reconcile and cancel endpoints, which take no lock.     *)
(* The run's files (status.json, blackboard.yaml) are written whole from the *)
(* copy a thread loaded; the metadata of the run's row is read by get_run    *)
(* and written back whole by update_run, two transactions.                   *)
EXTENDS Naturals

CONSTANTS
  Reconciles,    \* requests of an operator to reconcile the run
  Cancels,       \* requests of an operator to cancel it
  PrViews,       \* what GitHub can say of the pull request, a set of View
  Usages,        \* what a coder run can report having used
  MaxAttempts,   \* review.max_repair_attempts
  MaxTokens,     \* budget.max_tokens, 0 to disable
  MaxCost,       \* budget.max_cost_usd, 0 to disable
  MaxExecutions, \* budget.max_coder_executions, 0 to disable
  AutoMerge,     \* whether the merge gates of the configuration are open
  MaxFeedback,   \* bound on how often reviewers change their feedback
  MaxCrashes     \* bound on restarts of the API server

ASSUME SupervisorAssumption ==
  /\ MaxAttempts \in Nat \ {0}
  /\ MaxTokens \in Nat
  /\ MaxCost \in Nat
  /\ MaxExecutions \in Nat
  /\ AutoMerge \in BOOLEAN
  /\ MaxFeedback \in Nat
  /\ MaxCrashes \in Nat
  /\ Reconciles \intersect Cancels = {}
  /\ {"loop", "main"} \intersect (Reconciles \union Cancels) = {}
  /\ Usages \subseteq [tokens : Nat, cost : Nat]
  /\ PrViews \subseteq [merged : BOOLEAN, closed : BOOLEAN, draft : BOOLEAN, review : STRING,
                        checks : STRING, mergeable : STRING]

Supervisors == Reconciles \union {"loop"}
Threads     == Supervisors \union Cancels \union {"main"}

VARIABLES
  file,      \* the run's files: status, lc (the recorded lifecycle), src
  meta,      \* the metadata of the run's row: spend and repair breaker
  me,        \* the local variables of each thread
  pr,        \* GitHub: the pull request
  tandem,    \* Tandem: the status of the run's coder
  passes,    \* Tandem: repair passes it was sent
  settled,   \* what became of the task and of its lease
  overlap,   \* history: two threads were on the run at the same time
  crashes

vars == <<file, meta, me, pr, tandem, passes, settled, overlap, crashes>>

Statuses   == {"running", "completed", "blocked", "cancelled"}
TandemStatuses == {"none", "running", "completed", "failed", "cancelled"}
Lifecycles == {"", "running", "waiting-for-review", "needs-repair", "needs-rebase",
               "conflicted", "ready-to-merge", "merged", "blocked", "needs-human"}
View == [merged : BOOLEAN, closed : BOOLEAN, draft : BOOLEAN, review : STRING,
         checks : STRING, mergeable : STRING]
Merged(v) == [v EXCEPT !.merged = TRUE]
Meta == [attempts : Nat, signature : Nat, escalated : BOOLEAN,
         tokens : Nat, cost : Nat, executions : Nat]
Steps == {"idle", "refresh", "record", "rebase", "context", "dispatch", "spend", "persist",
          "merge", "merged", "write", "poll", "apply", "settle", "preflight",
          "execute", "end"}
Decisions == {"", "defer", "escalate", "skip", "proceed"}

(* pc: the next step; nxt: the one after the pending update_run; lc: the     *)
(* lifecycle state read; copy: the metadata about to be written; breaker:    *)
(* what the gate made of it; dec: the gate's decision; got: the status       *)
(* Tandem answered.                                                          *)
Local == [pc : Steps, nxt : Steps, lc : Lifecycles, copy : Meta, breaker : Meta,
          dec : Decisions, got : TandemStatuses]
Fresh  == [attempts |-> 0, signature |-> 0, escalated |-> FALSE,
           tokens |-> 0, cost |-> 0, executions |-> 0]
Idle   == [pc |-> "idle", nxt |-> "idle", lc |-> "", copy |-> Fresh, breaker |-> Fresh,
           dec |-> "", got |-> "none"]

(* The kinds and ranges of the variables.                                    *)
TypeOK ==
  /\ file \in [status : Statuses, lc : Lifecycles, src : BOOLEAN]
  /\ meta \in Meta
  /\ me \in [Threads -> Local]
  /\ pr \in [view : PrViews \union {Merged(v) : v \in PrViews}, feedback : 0 .. MaxFeedback]
  /\ tandem \in TandemStatuses
  /\ passes \in Nat
  /\ settled \in {"no", "done", "blocked"}
  /\ overlap \in BOOLEAN
  /\ crashes \in 0 .. MaxCrashes

(* A run that Tandem is to execute, or one that completed and whose pull     *)
(* request waits for review (_enqueue_and_dispatch_pr).                      *)
Init ==
  /\ \E coder, src \in BOOLEAN :
       /\ file = [status |-> IF coder THEN "running" ELSE "completed",
                  lc |-> IF coder THEN "" ELSE "waiting-for-review", src |-> coder /\ src]
       /\ me = [a \in Threads |-> IF a = "main" /\ coder THEN [Idle EXCEPT !.pc = "preflight"]
                                  ELSE IF a = "main" THEN [Idle EXCEPT !.pc = "end"] ELSE Idle]
  /\ meta = Fresh
  /\ \E v \in PrViews : ~v.merged /\ ~v.closed /\ v.review = "review_required"
                        /\ pr = [view |-> v, feedback |-> 0]
  /\ tandem = "none"
  /\ passes = 0
  /\ settled = "no"
  /\ overlap = FALSE
  /\ crashes = 0

-----------------------------------------------------------------------------
(* The order of steps of a thread.  Its local variables end with its pass.   *)
Goto(a, step) ==
  me' = [me EXCEPT ![a] = IF step \in {"idle", "end"} THEN [Idle EXCEPT !.pc = step]
                          ELSE [@ EXCEPT !.pc = step, !.nxt = "idle", !.copy = Fresh, !.lc = ""]]
(* A pass is over: the loop waits for its next interval.                     *)
Out(a) == IF a = "loop" THEN "idle" ELSE "end"
(* get_run, and update_run with the changed metadata still to come.          *)
ReadBack(a, m, nxt) ==
  me' = [me EXCEPT ![a].copy = m, ![a].pc = "write", ![a].nxt = nxt]
(* update_run writes the whole metadata column from the copy.                *)
Write(a) ==
  /\ me[a].pc = "write"
  /\ meta' = me[a].copy
  /\ Goto(a, me[a].nxt)
  /\ UNCHANGED <<file, pr, tandem, passes, settled, overlap, crashes>>

Busy(a) == me[a].pc \notin {"idle", "end"}
Enters(a) == overlap' = (overlap \/ \E b \in Threads \ {a} : Busy(b))

-----------------------------------------------------------------------------
(* What GitHub says, and what the supervisor makes of it.                    *)

(* pull_request_lifecycle_state.                                             *)
LifecycleState(v) ==
  CASE v.merged -> "merged"
    [] ~v.merged /\ v.closed -> "blocked"
    [] ~v.merged /\ ~v.closed ->
         CASE v.mergeable = "conflicting" -> "conflicted"
           [] v.mergeable # "conflicting"
              /\ (v.review = "changes_requested" \/ v.checks = "failure") -> "needs-repair"
           [] OTHER -> IF v.draft \/ v.checks = "pending" THEN "running"
                       ELSE IF v.mergeable = "behind" THEN "needs-rebase"
                       ELSE IF v.review = "approved" /\ v.checks = "success"
                            THEN "ready-to-merge" ELSE "waiting-for-review"

(* _is_pr_lifecycle_supervisable.                                            *)
Supervisable(lc) == lc \in {"running", "waiting-for-review", "needs-repair", "ready-to-merge"}

(* _is_coder_execution.                                                      *)
CoderExecution == file.status = "running"

(* collect_pull_request_repair_context: reviews and comments, failed checks. *)
Actionable == pr.feedback > 0 \/ pr.view.checks = "failure"
(* _repair_signature: one number for each set of feedback items.             *)
Signature  == 2 * pr.feedback + (IF pr.view.checks = "failure" THEN 1 ELSE 0)

Exhausted(limit, spent) == limit > 0 /\ spent >= limit
(* budget_status.                                                            *)
OverBudget(m) ==
  \/ Exhausted(MaxTokens, m.tokens)
  \/ Exhausted(MaxCost, m.cost)
  \/ Exhausted(MaxExecutions, m.executions)

(* _repair_gate_decision, after the budget: what may be decided, and the     *)
(* breaker that goes with it.  The cooldown of an earlier attempt may be     *)
(* over or not.                                                              *)
Decided(m, signature) ==
  LET escalated == [m EXCEPT !.escalated = TRUE]
      proceeded == [m EXCEPT !.attempts = @ + 1, !.signature = signature]
  IN IF OverBudget(m) THEN {<<IF m.escalated THEN "skip" ELSE "escalate", escalated>>}
     ELSE IF m.escalated THEN {<<"skip", m>>}
     ELSE IF m.attempts >= MaxAttempts THEN {<<"escalate", escalated>>}
     ELSE IF m.attempts = 0 THEN {<<"proceed", proceeded>>}
     ELSE {<<"defer", m>>,
           IF signature = m.signature THEN <<"escalate", escalated>> ELSE <<"proceed", proceeded>>}

-----------------------------------------------------------------------------
(* The pull request of a run: _refresh_pr_lifecycle_for_run.                 *)
EnterRefresh(a) ==
  /\ me[a].pc = "idle"
  /\ ~CoderExecution /\ file.status = "completed" /\ Supervisable(file.lc)
  /\ me' = [me EXCEPT ![a].pc = "refresh", ![a].lc = file.lc]
  /\ Enters(a)
  /\ UNCHANGED <<file, meta, pr, tandem, passes, settled, crashes>>

Refresh(a) ==
  /\ me[a].pc = "refresh"
  /\ me' = [me EXCEPT ![a].pc = "record", ![a].lc = LifecycleState(pr.view)]
  /\ UNCHANGED <<file, meta, pr, tandem, passes, settled, overlap, crashes>>

(* The read of the pull request raised: its state is kept for a retry.       *)
RefreshFails(a) ==
  /\ me[a].pc = "refresh"
  /\ file' = [file EXCEPT !.lc = me[a].lc]
  /\ ReadBack(a, meta, Out(a))
  /\ UNCHANGED <<meta, pr, tandem, passes, settled, overlap, crashes>>

(* _persist_pull_request_lifecycle of what was read, which also decides what *)
(* follows.                                                                  *)
Record(a) ==
  /\ me[a].pc = "record"
  /\ file' = [file EXCEPT !.lc = me[a].lc]
  /\ ReadBack(a, meta, CASE me[a].lc = "needs-rebase" -> "rebase"
                         [] me[a].lc \in {"needs-repair", "conflicted"} -> "context"
                         [] me[a].lc = "ready-to-merge" /\ AutoMerge -> "merge"
                         [] OTHER -> Out(a))
  /\ UNCHANGED <<meta, pr, tandem, passes, settled, overlap, crashes>>

(* _update_pr_branch_for_run, whether it works or not.                       *)
UpdateBranch(a) ==
  /\ me[a].pc = "rebase"
  /\ ReadBack(a, meta, Out(a))
  /\ UNCHANGED <<file, meta, pr, tandem, passes, settled, overlap, crashes>>

-----------------------------------------------------------------------------
(* _start_pr_repair_pass.                                                    *)

(* The feedback is read again from GitHub; that may raise, and the exception *)
(* leaves the pass.                                                          *)
ContextFails(a) ==
  /\ me[a].pc = "context"
  /\ Goto(a, Out(a))
  /\ UNCHANGED <<file, meta, pr, tandem, passes, settled, overlap, crashes>>

NoAction(a) ==
  /\ me[a].pc = "context" /\ ~Actionable
  /\ ReadBack(a, meta, Out(a))
  /\ UNCHANGED <<file, meta, pr, tandem, passes, settled, overlap, crashes>>

(* The gate lets a pass go ahead, or puts it off.                            *)
Proceed(a) ==
  /\ me[a].pc = "context" /\ Actionable
  /\ \E d \in Decided(meta, Signature) :
       /\ d[1] \in {"proceed", "defer"}
       /\ me' = [me EXCEPT ![a].dec = d[1], ![a].breaker = d[2],
                           ![a].pc = IF d[1] = "proceed" THEN "dispatch" ELSE "persist"]
  /\ UNCHANGED <<file, meta, pr, tandem, passes, settled, overlap, crashes>>

(* Mutant: the pull request keeps the state it was read in.                  *)
EscalateInPlace(a) ==
  /\ me[a].pc = "context" /\ Actionable
  /\ \E d \in Decided(meta, Signature) :
       /\ d[1] \in {"escalate", "skip"}
       /\ me' = [me EXCEPT ![a].dec = d[1], ![a].breaker = d[2],
                           ![a].copy = meta, ![a].pc = "write", ![a].nxt = "persist"]
  /\ UNCHANGED <<file, meta, pr, tandem, passes, settled, overlap, crashes>>

(* The lifecycle becomes needs-human, which nothing supervises.              *)
Escalate(a) ==
  /\ me[a].pc = "context" /\ Actionable
  /\ \E d \in Decided(meta, Signature) :
       /\ d[1] \in {"escalate", "skip"}
       /\ me' = [me EXCEPT ![a].dec = d[1], ![a].breaker = d[2],
                           ![a].copy = meta, ![a].pc = "write", ![a].nxt = "persist"]
  /\ file' = [file EXCEPT !.lc = "needs-human"]
  /\ UNCHANGED <<meta, pr, tandem, passes, settled, overlap, crashes>>

(* sdk_coder_create_run and sdk_coder_execute_all, of which either may       *)
(* raise; the pass counts in every case.                                     *)
Dispatch(a) ==
  /\ me[a].pc = "dispatch"
  /\ passes' \in {passes, passes + 1}
  /\ Goto(a, "spend")
  /\ UNCHANGED <<file, meta, pr, tandem, settled, overlap, crashes>>

(* record_coder_spend.                                                       *)
Spend(a) ==
  /\ me[a].pc = "spend"
  /\ \E u \in Usages :
       ReadBack(a, [meta EXCEPT !.tokens = @ + u.tokens, !.cost = @ + u.cost, !.executions = @ + 1],
                IF a = "main" THEN "apply" ELSE "persist")
  /\ UNCHANGED <<file, meta, pr, tandem, passes, settled, overlap, crashes>>

(* Mutant: the pass is persisted without its breaker.                        *)
PersistRepairOnly(a) ==
  /\ me[a].pc = "persist"
  /\ ReadBack(a, meta, Out(a))
  /\ UNCHANGED <<file, meta, pr, tandem, passes, settled, overlap, crashes>>

(* _persist_repair with the breaker.                                         *)
PersistRepair(a) ==
  /\ me[a].pc = "persist"
  /\ ReadBack(a, [meta EXCEPT !.attempts = me[a].breaker.attempts,
                              !.signature = me[a].breaker.signature,
                              !.escalated = me[a].breaker.escalated], Out(a))
  /\ UNCHANGED <<file, meta, pr, tandem, passes, settled, overlap, crashes>>

-----------------------------------------------------------------------------
(* _maybe_auto_merge_pr, with the gates judged on the state that was read.   *)
MergePr(a) ==
  /\ me[a].pc = "merge"
  /\ ~pr.view.merged /\ ~pr.view.closed
  /\ pr' = [pr EXCEPT !.view = Merged(@)]
  \* The answer of merge_pull_request may be lost.
  /\ \E nxt \in {"merged", Out(a)} : ReadBack(a, meta, nxt)
  /\ UNCHANGED <<file, meta, tandem, passes, settled, overlap, crashes>>

(* Mutant: whatever GitHub answers counts as a merge.                        *)
MergeAssumed(a) ==
  /\ me[a].pc = "merge"
  /\ ReadBack(a, meta, "merged")
  /\ UNCHANGED <<file, meta, pr, tandem, passes, settled, overlap, crashes>>

MergeRefused(a) ==
  /\ me[a].pc = "merge"
  /\ ReadBack(a, meta, Out(a))
  /\ UNCHANGED <<file, meta, pr, tandem, passes, settled, overlap, crashes>>

RecordMerged(a) ==
  /\ me[a].pc = "merged"
  /\ file' = [file EXCEPT !.lc = "merged"]
  /\ ReadBack(a, meta, Out(a))
  /\ UNCHANGED <<meta, pr, tandem, passes, settled, overlap, crashes>>

-----------------------------------------------------------------------------
(* A run that Tandem executes.                                               *)
TandemTerminal == TandemStatuses \ {"none", "running"}
Cancelled      == IF tandem = "running" THEN "cancelled" ELSE tandem
(* Mutants: Tandem's own words; a cancelled coder counts as running.         *)
TandemsStatus(got)    == got
CancelledRuns(got)    == IF got = "cancelled" THEN "running" ELSE got
RunStatus(got) == CASE got = "completed" -> "completed" [] got = "cancelled" -> "cancelled"
                    [] OTHER -> "blocked"

(* reconcile_coder_run up to the read of the coder's state.  The task in the *)
(* run's own file may say that its source is closed; then Tandem is told to  *)
(* cancel, and an unknown coder makes that call raise.                       *)
EnterReconcile(a) ==
  /\ me[a].pc = "idle" /\ CoderExecution
  /\ IF file.src THEN tandem' = Cancelled ELSE UNCHANGED tandem
  /\ Goto(a, IF file.src /\ tandem = "none" THEN Out(a) ELSE "poll")
  /\ Enters(a)
  /\ UNCHANGED <<file, meta, pr, passes, settled, crashes>>

(* The operator's cancel does not look at the state of the run.              *)
Cancel(c) ==
  /\ me[c].pc = "idle"
  /\ tandem' = Cancelled
  /\ Goto(c, IF tandem = "none" THEN "end" ELSE "poll")
  /\ Enters(c)
  /\ UNCHANGED <<file, meta, pr, passes, settled, crashes>>

PollFails(a) ==
  /\ a # "main" /\ me[a].pc = "poll"
  /\ file' = [file EXCEPT !.status = "running"]
  /\ ReadBack(a, meta, Out(a))
  /\ UNCHANGED <<meta, pr, tandem, passes, settled, overlap, crashes>>

Poll(a) ==
  /\ a # "main" /\ me[a].pc = "poll" /\ tandem # "none"
  /\ me' = [me EXCEPT ![a].got = tandem, ![a].pc = "apply"]
  /\ UNCHANGED <<file, meta, pr, tandem, passes, settled, overlap, crashes>>

(* apply_coder_result, up to the update of the run's row.                    *)
ApplyNonTerminal(a) ==
  /\ me[a].pc = "apply" /\ me[a].got \notin TandemTerminal
  /\ file' = [file EXCEPT !.status = "running"]
  /\ ReadBack(a, meta, Out(a))
  /\ UNCHANGED <<meta, pr, tandem, passes, settled, overlap, crashes>>

ApplyTerminal(a) ==
  /\ me[a].pc = "apply" /\ me[a].got \in TandemTerminal
  /\ file' = [file EXCEPT !.status = RunStatus(me[a].got)]
  /\ ReadBack(a, meta, "settle")
  /\ UNCHANGED <<meta, pr, tandem, passes, settled, overlap, crashes>>

(* mark_task_done or mark_task_blocked, release_lease, the final events.     *)
Settle(a) ==
  /\ me[a].pc = "settle"
  /\ settled' = IF me[a].got = "completed" THEN "done" ELSE "blocked"
  /\ Goto(a, Out(a))
  /\ UNCHANGED <<file, meta, pr, tandem, passes, overlap, crashes>>

-----------------------------------------------------------------------------
(* The run's own thread: _run_coder_backend and execute_coder_run.           *)
MainBlocks ==
  /\ file' = [file EXCEPT !.status = "blocked"]
  /\ settled' = "blocked"
  /\ Goto("main", "end")
  /\ UNCHANGED <<meta, pr, tandem, passes, overlap, crashes>>

(* The budget may be spent already, on a run that is resumed.                *)
Preflight ==
  /\ me["main"].pc = "preflight"
  /\ \/ OverBudget(meta) /\ MainBlocks
     \/ /\ ~OverBudget(meta)
        /\ Goto("main", "execute")
        /\ UNCHANGED <<file, meta, pr, tandem, passes, settled, overlap, crashes>>

CreateFails == me["main"].pc = "execute" /\ MainBlocks

Execute ==
  /\ me["main"].pc = "execute"
  /\ tandem' = "running"
  /\ Goto("main", "poll")
  /\ UNCHANGED <<file, meta, pr, passes, settled, overlap, crashes>>

(* The coder ended, or the time to wait for it is over.                      *)
MainPoll ==
  /\ me["main"].pc = "poll"
  /\ me' = [me EXCEPT !["main"].got = tandem, !["main"].pc = "spend"]
  /\ UNCHANGED <<file, meta, pr, tandem, passes, settled, overlap, crashes>>

(* A read of the coder's state raised: the run is blocked and its lease      *)
(* released while Tandem goes on.                                            *)
MainPollFails == me["main"].pc = "poll" /\ MainBlocks

-----------------------------------------------------------------------------
(* Reviewers, checks and merges by people; the coder; restarts.              *)
PrChanges ==
  /\ file.lc # ""
  /\ ~pr.view.merged /\ ~pr.view.closed
  /\ \/ \E v \in PrViews \ {pr.view} : pr' = [pr EXCEPT !.view = v]
     \/ pr.feedback < MaxFeedback /\ pr' = [pr EXCEPT !.feedback = @ + 1]
  /\ UNCHANGED <<file, meta, me, tandem, passes, settled, overlap, crashes>>

TandemEnds ==
  /\ tandem = "running"
  /\ tandem' \in {"completed", "failed"}
  /\ UNCHANGED <<file, meta, me, pr, passes, settled, overlap, crashes>>

(* The API server restarts: its threads are gone, and requests with them.    *)
Crash ==
  /\ crashes < MaxCrashes
  /\ crashes' = crashes + 1
  /\ me' = [a \in Threads |-> IF a = "loop" \/ me[a].pc = "idle" THEN Idle
                               ELSE [Idle EXCEPT !.pc = "end"]]
  /\ UNCHANGED <<file, meta, pr, tandem, passes, settled, overlap>>

PullRequestStep(a) ==
  \/ Refresh(a) \/ RefreshFails(a) \/ Record(a) \/ UpdateBranch(a)
  \/ ContextFails(a) \/ NoAction(a) \/ Proceed(a) \/ Escalate(a)
  \/ Dispatch(a) \/ PersistRepair(a)
  \/ MergePr(a) \/ MergeRefused(a) \/ RecordMerged(a)

ReconcileStep(a) ==
  \/ Poll(a) \/ PollFails(a) \/ ApplyNonTerminal(a) \/ ApplyTerminal(a) \/ Settle(a)
  \/ Spend(a) \/ Write(a)

MainStep == Preflight \/ CreateFails \/ Execute \/ MainPoll \/ MainPollFails

Next ==
  \/ \E a \in Supervisors : EnterRefresh(a) \/ EnterReconcile(a)
  \/ \E c \in Cancels : Cancel(c)
  \/ \E a \in Threads : PullRequestStep(a) \/ ReconcileStep(a)
  \/ MainStep \/ PrChanges \/ TandemEnds \/ Crash

Spec == Init /\ [][Next]_vars

(* The loop comes round every interval, and a pass goes on.  Calls of GitHub *)
(* and Tandem do not fail for ever, and a cooldown is over some time.        *)
Fairness ==
  /\ WF_vars(EnterRefresh("loop") \/ EnterReconcile("loop"))
  /\ WF_vars(PullRequestStep("loop") \/ ReconcileStep("loop"))
  /\ SF_vars(Refresh("loop"))
  /\ SF_vars(Poll("loop"))
  /\ SF_vars(Escalate("loop"))
  /\ SF_vars(Proceed("loop") /\ me'["loop"].dec = "proceed")

FairSpec == Spec /\ Fairness

-----------------------------------------------------------------------------
(* The breaker and the budget hold across restarts: as long as no two        *)
(* passes over the run overlapped, a pull request is sent no more repair     *)
(* passes than the attempts and the executions allow, and one more for every *)
(* restart, which can fall between the dispatch of a pass and the write that *)
(* counts it.                                                                *)
RepairsBounded ==
  ~overlap => /\ passes <= MaxAttempts + crashes
              /\ MaxExecutions > 0 => passes <= MaxExecutions + crashes

(* A breaker that is open is seen in the run's files: the breaker is in the  *)
(* row and the lifecycle in a file, written one after the other, and a run   *)
(* between the two is never taken up again, restarts included.               *)
EscalatedIsParked == ~overlap /\ meta.escalated => file.lc = "needs-human"

(* What is recorded as done was done: a run that is recorded as merged, or   *)
(* settled as done, is so at GitHub, or at Tandem, however late the writer   *)
(* was.                                                                      *)
RecordedIsReal ==
  /\ file.lc = "merged" => pr.view.merged
  /\ settled = "done" => tandem = "completed"

(* A coder run that Tandem has ended is seen to end, and stays so, although  *)
(* a slower thread may write an older state over it for a while.             *)
CoderEndSeen == (tandem \in TandemTerminal) ~> [](file.status # "running")

(* A pull request that needs repair and stays so, with feedback to act on.   *)
Stuck == LifecycleState(pr.view) = "needs-repair" /\ Actionable
(* Such a pull request ends with a person, or in a state nobody looks at.    *)
StuckIsEscalated ==
  (<>[]Stuck) => <>(file.lc \in {"", "needs-human", "needs-rebase", "conflicted"})
=============================================================================
