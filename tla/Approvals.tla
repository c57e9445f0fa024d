------------------------------ MODULE Approvals ------------------------------
(* The approval queue for external actions of one run                        *)
(* (core/coordination/approvals.py), the plan that fills it                  *)
(* (core/external_actions/github_pr.py, runner_core's github_pr_action       *)
(* backend), the operator endpoints that decide and retry (api/main.py), and *)
(* the resume endpoint that performs what was approved.  Every statement of  *)
(* the store is a transaction of its own; requests run in threads and        *)
(* interleave with one another and with the plan.                            *)
EXTENDS Naturals

CONSTANTS
  Actions,       \* the plan's write actions, one row each (dedupe_key)
  Resumes,       \* concurrent resume-approved-actions requests
  Results,       \* what performing an action can come to
  MaxPlans,      \* times the plan is enqueued (more than 1: ACA_RUN_ID reused)
  MaxGrants,     \* bound on approvals and retries of a row
  MaxCrashes     \* bound on requests that die half way

(* Performed and verified; performed but not verified, which raises; raised  *)
(* with nothing performed.                                                   *)
Performing == {"ok", "unverified"}
AllResults == Performing \union {"raised"}

ASSUME ApprovalsAssumption ==
  /\ Results \subseteq AllResults
  /\ MaxPlans \in Nat /\ MaxGrants \in Nat /\ MaxCrashes \in Nat

VARIABLES
  status,    \* status column of external_action_approvals
  toPlan,    \* actions the run has still to enqueue in this pass
  plans,     \* passes begun
  planning,  \* whether the run is in its github_pr_action phase
  pc,        \* where each resume request is in execute_approved_actions
  rows,      \* the approved rows it listed and has still to deal with
  inHand,    \* the action it has just performed, and
  result,    \* what that came to
  saw,       \* which of pending, failed and executed its last reads found
  run,       \* run.status in the run's status.json
  writes,    \* external: writes made at GitHub or Linear, per action
  grants,    \* approvals and retries an operator gave, per action
  crashes

vars == <<status, toPlan, plans, planning, pc, rows, inHand, result, saw, run, writes, grants, crashes>>

Statuses == {"none", "pending", "approved", "rejected", "executed", "failed"}
Steps    == {"idle", "items", "mark", "pending", "failed", "executed", "write"}

(* The kinds and ranges of the variables.                                    *)
TypeOK ==
  /\ status \in [Actions -> Statuses]
  /\ toPlan \in SUBSET Actions
  /\ plans \in Nat
  /\ planning \in BOOLEAN
  /\ pc \in [Resumes -> Steps]
  /\ rows \in [Resumes -> SUBSET Actions]
  /\ inHand \in [Resumes -> SUBSET Actions]
  /\ result \in [Resumes -> AllResults]
  /\ saw \in [Resumes -> SUBSET {"pending", "failed", "executed"}]
  /\ run \in {"running", "blocked", "completed"}
  /\ writes \in [Actions -> Nat]
  /\ grants \in [Actions -> Nat]
  /\ crashes \in Nat

Init ==
  /\ status = [a \in Actions |-> "none"]
  /\ toPlan = Actions
  /\ plans = 1
  /\ planning = TRUE
  /\ pc = [e \in Resumes |-> "idle"]
  /\ rows = [e \in Resumes |-> {}]
  /\ inHand = [e \in Resumes |-> {}]
  /\ result = [e \in Resumes |-> "raised"]
  /\ saw = [e \in Resumes |-> {}]
  /\ run = "running"
  /\ writes = [a \in Actions |-> 0]
  /\ grants = [a \in Actions |-> 0]
  /\ crashes = 0

requestVars == <<pc, rows, inHand, result, saw, writes, crashes>>

-----------------------------------------------------------------------------
(* Mutant: the conflict branch forgets that the action was executed.         *)
EnqueuedStatusReopens(a) == IF status[a] = "approved" THEN status[a] ELSE "pending"

(* enqueue_external_action_approval: INSERT, or on a dedupe conflict back to *)
(* pending unless the row is approved or executed.                           *)
EnqueuedStatus(a) == IF status[a] \in {"executed", "approved"} THEN status[a] ELSE "pending"

(* enqueue_approvals_for_plan: one row after the other.                      *)
EnqueueApproval(a) ==
  /\ a \in toPlan
  /\ status' = [status EXCEPT ![a] = EnqueuedStatus(a)]
  /\ toPlan' = toPlan \ {a}
  /\ UNCHANGED <<plans, planning, run, grants>> /\ UNCHANGED requestVars

(* block_run at the end of _run_github_pr_action_backend.                    *)
BlockForApproval ==
  /\ planning /\ toPlan = {}
  /\ planning' = FALSE
  /\ run' = "blocked"
  /\ UNCHANGED <<status, toPlan, plans, grants>> /\ UNCHANGED requestVars

(* The task is run again under the same ACA_RUN_ID.                          *)
PlanAgain ==
  /\ plans < MaxPlans
  /\ ~planning
  /\ plans' = plans + 1
  /\ planning' = TRUE
  /\ toPlan' = Actions
  /\ run' = "running"
  /\ UNCHANGED <<status, grants>> /\ UNCHANGED requestVars

-----------------------------------------------------------------------------
(* The operator's endpoints; each UPDATE names the status it starts from.    *)
Grant(S) ==
  /\ status' = [a \in Actions |-> IF a \in S THEN "approved" ELSE status[a]]
  /\ grants' = [a \in Actions |-> IF a \in S THEN grants[a] + 1 ELSE grants[a]]
  /\ UNCHANGED <<toPlan, plans, planning, run>> /\ UNCHANGED requestVars

WithStatus(s) == {a \in Actions : status[a] = s}
Grantable(S)  == S # {} /\ \A a \in S : grants[a] < MaxGrants

DecideApprove(a) == status[a] = "pending" /\ Grantable({a}) /\ Grant({a})
RetryApproval(a) == status[a] = "failed" /\ Grantable({a}) /\ Grant({a})
ApprovePending   == Grantable(WithStatus("pending")) /\ Grant(WithStatus("pending"))
RetryFailed      == Grantable(WithStatus("failed")) /\ Grant(WithStatus("failed"))

DecideReject(a) ==
  /\ status[a] = "pending"
  /\ status' = [status EXCEPT ![a] = "rejected"]
  /\ UNCHANGED <<toPlan, plans, planning, run, grants>> /\ UNCHANGED requestVars

-----------------------------------------------------------------------------
(* execute_approved_actions.  It lists the approved rows once, then performs *)
(* and marks them one by one.                                                *)
AfterItem(S) == IF S = {} THEN "pending" ELSE "items"

(* Mutant: the resume lists every row that was not executed or rejected.     *)
ListedAnyway == {a \in Actions : status[a] \in {"pending", "approved", "failed"}}

Listed == WithStatus("approved")

ListApproved(e) ==
  /\ pc[e] = "idle"
  /\ rows' = [rows EXCEPT ![e] = Listed]
  /\ saw' = [saw EXCEPT ![e] = {}]
  /\ pc' = [pc EXCEPT ![e] = AfterItem(Listed)]
  /\ UNCHANGED <<status, toPlan, plans, planning, inHand, result, run, writes, grants, crashes>>

(* execute_approved_action: the write, then the read that verifies it.       *)
ExecuteApprovedAction(e, a) ==
  /\ pc[e] = "items" /\ a \in rows[e]
  /\ \E r \in Results :
       /\ result' = [result EXCEPT ![e] = r]
       /\ writes' = [writes EXCEPT ![a] = IF r \in Performing THEN @ + 1 ELSE @]
  /\ inHand' = [inHand EXCEPT ![e] = {a}]
  /\ pc' = [pc EXCEPT ![e] = "mark"]
  /\ UNCHANGED <<status, toPlan, plans, planning, rows, saw, run, grants, crashes>>

(* Mutant: an action that was performed and not verified stays approved.     *)
MarkedUnlessUnverified(a, r) ==
  CASE r = "ok" -> "executed" [] r = "unverified" -> status[a] [] OTHER -> "failed"

(* mark_external_action_executed, mark_external_action_failed: by id,        *)
(* whatever the row's status is by now.                                      *)
Marked(a, r) == IF r = "ok" THEN "executed" ELSE "failed"

MarkAction(e, a) ==
  /\ pc[e] = "mark" /\ a \in inHand[e]
  /\ status' = [status EXCEPT ![a] = Marked(a, result[e])]
  /\ rows' = [rows EXCEPT ![e] = @ \ {a}]
  /\ inHand' = [inHand EXCEPT ![e] = {}]
  /\ pc' = [pc EXCEPT ![e] = AfterItem(rows[e] \ {a})]
  /\ UNCHANGED <<toPlan, plans, planning, result, saw, run, writes, grants, crashes>>

(* The three lists after the loop, each a transaction of its own.            *)
Look(e, s, next) ==
  /\ pc[e] = s
  /\ saw' = [saw EXCEPT ![e] = IF WithStatus(s) # {} THEN @ \union {s} ELSE @]
  /\ pc' = [pc EXCEPT ![e] = next]
  /\ UNCHANGED <<status, toPlan, plans, planning, rows, inHand, result, run, writes, grants, crashes>>

LookPending(e)  == Look(e, "pending", "failed")
LookFailed(e)   == Look(e, "failed", "executed")
LookExecuted(e) == Look(e, "executed", "write")

(* Mutant: one executed action completes the run.                            *)
RunStatusAnyExecuted(e) == IF "executed" \in saw[e] THEN "completed" ELSE run

(* resume_approved_external_actions: what it makes of the three lists.       *)
RunStatusAfter(e) ==
  CASE saw[e] = {"executed"}  -> "completed"
    [] "failed" \in saw[e]    -> "blocked"
    [] OTHER                  -> run

WriteRunStatus(e) ==
  /\ pc[e] = "write"
  /\ run' = RunStatusAfter(e)
  /\ pc' = [pc EXCEPT ![e] = "idle"]
  /\ UNCHANGED <<status, toPlan, plans, planning, rows, inHand, result, saw, writes, grants, crashes>>

(* A request dies: its thread with the process, or a store call that raises. *)
Crash(e) ==
  /\ crashes < MaxCrashes
  /\ pc[e] # "idle"
  /\ pc' = [pc EXCEPT ![e] = "idle"]
  /\ rows' = [rows EXCEPT ![e] = {}]
  /\ inHand' = [inHand EXCEPT ![e] = {}]
  /\ crashes' = crashes + 1
  /\ UNCHANGED <<status, toPlan, plans, planning, result, saw, run, writes, grants>>

-----------------------------------------------------------------------------
Operator ==
  \/ \E a \in Actions : DecideApprove(a) \/ DecideReject(a) \/ RetryApproval(a)
  \/ ApprovePending
  \/ RetryFailed

Request(e) ==
  \/ ListApproved(e)
  \/ \E a \in Actions : ExecuteApprovedAction(e, a) \/ MarkAction(e, a)
  \/ LookPending(e) \/ LookFailed(e) \/ LookExecuted(e)
  \/ WriteRunStatus(e)

Next ==
  \/ \E a \in Actions : EnqueueApproval(a)
  \/ BlockForApproval
  \/ PlanAgain
  \/ Operator
  \/ \E e \in Resumes : Request(e) \/ Crash(e)

Spec == Init /\ [][Next]_vars

-----------------------------------------------------------------------------
(* runner_core.py:5858, "No GitHub write will execute until approval is      *)
(* granted": a write happens only for an action somebody approved, and never *)
(* for one whose row now says it was rejected, though the resume request     *)
(* that makes it listed its rows long before.  It holds with one resume at a *)
(* time, and with any number of them for a plan made once.                   *)
WriteNeedsApproval ==
  [][\A a \in Actions : writes'[a] > writes[a] => grants[a] > 0 /\ status[a] # "rejected"]_vars

(* With one resume at a time, as long as none of them died, each approval or *)
(* retry allows at most one write: a failed, unverified or re-planned action *)
(* is not written again before an operator says so                           *)
(* (execute_approved_actions).                                               *)
OneWritePerGrant == crashes = 0 => \A a \in Actions : writes[a] <= grants[a]

(* With one resume at a time, an executed action stays executed: neither a   *)
(* second plan nor a retry reopens it, and no late mark overwrites it.       *)
ExecutedIsFinal ==
  [][\A a \in Actions : status[a] = "executed" => status'[a] = "executed"]_vars

(* With one resume at a time, a run is completed only when an action was     *)
(* executed and none is failed, at the moment its status is written and not  *)
(* only when the three lists were read, one after the other, beside an       *)
(* operator who retries (resume_approved_external_actions).                  *)
CompletionIsEarned ==
  [][run' = "completed" /\ run # "completed" =>
       /\ \E a \in Actions : status[a] = "executed"
       /\ \A a \in Actions : status[a] # "failed"]_vars
=============================================================================
