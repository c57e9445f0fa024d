----------------------------- MODULE RunPipeline -----------------------------
(* The repair loop of one coding run (core/execution/runner_core.py,          *)
(* core/phases/planning.py, review_verify.py, repair.py, finalize.py): plan,  *)
(* work, integrate, review, and either finish, block or start over with what  *)
(* the last attempt left. Workers run one after another (swarm disabled); the *)
(* rounds inside an attempt are WorkerPool's, so an attempt's work is here    *)
(* one step: a prefix of the pending subtasks is done and synced, and perhaps *)
(* the next one fails. The checkout is the set of edits it holds, an edit     *)
(* being the subtask id and the attempt that made it. git commands succeed.   *)
EXTENDS RepairPolicy

CONSTANTS
    Plans,      \* what the manager may plan: sequences of subtask names
    Limit,      \* serial slices kept once the fallback planner was used
    Failures,   \* the ways a worker may fail (RepairPolicy), "task" left out
    Remotes     \* whether the task must be worked on though files are there

Names == UNION {ToSet(p) : p \in Plans}

\* A plan is a list. A failure's fields are what RepairPolicy says of them, and
\* its kind is the kind of a blocker, never a status of the run.
ASSUME RunPipelineAssumption ==
    /\ Limit \in Nat \ {0} /\ Remotes \subseteq BOOLEAN
    /\ \A p \in Plans : p \in Seq(Names)
    /\ \A c \in Failures : /\ c.kind \notin {"running", "completed"}
                           /\ c.sides \subseteq BothSides
                           /\ c.patch \in {"none", "own", "shared"}

VARIABLES
    pc,         \* "plan", "work", "integrate", "review", "finalize", "done"
    n,          \* the attempt, from 0
    remote,     \* the task comes from a board or an issue
    capped,     \* an invalid manager plan was seen in this run
    checkout,   \* the uncommitted edits of the shared checkout
    files,      \* the saved patches: path -> the edits, and (history) the
                \* reasons of all the failures saved there
    repair,     \* the blackboard's repair record
    plan,       \* the planned subtasks of this attempt
    pending,    \* the ones that need a worker
    skipped,    \* ids skipped as done by a worker of an earlier attempt
    outcome,    \* "running", "completed" or the kind of the blocker
    rejected,   \* history: edits in a checkout that was rejected and reset
    asked,      \* history: names that were in a plan of this run
    did,        \* history: names a worker finished or the pre-screen accepted
    tried       \* history: names a worker failed at

vars == <<pc, n, remote, capped, checkout, files, repair, plan, pending, skipped,
          outcome, rejected, asked, did, tried>>

NoRepair == [arts |-> <<>>, done |-> {}, deferred |-> <<>>, partial |-> FALSE, used |-> 0]

Init ==
    /\ pc = "plan" /\ n = 0 /\ remote \in Remotes /\ capped = FALSE
    /\ checkout = {} /\ files = <<>> /\ repair = NoRepair
    /\ plan = <<>> /\ pending = <<>> /\ skipped = {}
    /\ outcome = "running" /\ rejected = {} /\ asked = {} /\ did = {}
    /\ tried = {}

Ends(why) == pc' = "done" /\ outcome' = why
Again == pc' = "plan" /\ n' = n + 1 /\ UNCHANGED outcome

-----------------------------------------------------------------------------
\* The loop's end is reached without a result.
Exhaust ==
    /\ pc = "plan" /\ n = MaxLoops
    /\ Ends("max_retries")
    /\ UNCHANGED <<n, remote, capped, checkout, files, repair, plan, pending, skipped, rejected,
                   asked, did, tried>>

\* The lease is lost: seen when an attempt begins and when its workers are done.
BlockLost ==
    /\ pc \in {"plan", "work"} /\ n < MaxLoops
    /\ Ends("coordination_lost")
    /\ checkout' = {}
    /\ UNCHANGED <<n, remote, capped, files, repair, plan, pending, skipped, rejected, asked, did,
                   tried>>

\* The engine cannot be reached by the manager, or its plan is not valid.
ManagerBlocks ==
    /\ pc = "plan" /\ n < MaxLoops
    /\ \E why \in {"manager_engine_dispatch_failed", "contract_incomplete", "no_targets"} :
          /\ why # "contract_incomplete" => RepairPlan(repair.arts, repair.done) = <<>>
          /\ Ends(why)
    /\ UNCHANGED <<n, remote, capped, checkout, files, repair, plan, pending, skipped, rejected,
                   asked, did, tried>>

\* A plan of the manager, or of the fallback planner from the same contract.
Slices(names) == [i \in 1 .. Len(names) |-> Subtask(<<names[i]>>)]

\* Once the fallback planner was used only the first slices are kept.
Capped(p, cap) == IF cap /\ Len(p) > Limit THEN SubSeq(p, 1, Limit) ELSE p

Planned(base, cap) ==
    LET kept == Constrained(CarriedInto(base, repair.arts), repair.arts, n) IN
    Capped(Namespaced(WithDeferred(kept, repair.deferred), repair.arts, repair.done, n), cap)

\* The pre-screen: sat are the names whose files look done, force asks for a
\* worker all the same.
CarriedOver(s, sat) == s.task \in repair.done /\ s.task[1] \in sat
PreSatisfied(s, sat, force) ==
    ~Repairing(s) /\ (CarriedOver(s, sat) \/ (~force /\ s.task[1] \in sat))

\* Nothing is left for a worker: the run completes, unless the sync fails.
Completes == \E why \in {"completed", "github_sync_failed"} : Ends(why)

\* What the workers get of a plan, what is taken over and what counts as done.
NamesIn(p) == {p[i].task[1] : i \in 1 .. Len(p)}

PreScreen(p, sat, force) ==
    LET accepted == {i \in 1 .. Len(p) : PreSatisfied(p[i], sat, force)}
        todo == Picked(p, (1 .. Len(p)) \ accepted)
    IN /\ pending' = todo
       /\ skipped' = {p[i].task : i \in {j \in accepted : CarriedOver(p[j], sat)}}
       /\ did' = did \cup {p[i].task[1] : i \in accepted}
       /\ \/ todo = <<>> /\ ~remote /\ Completes
          \/ (todo # <<>> \/ remote) /\ pc' = "work" /\ UNCHANGED outcome

\* One attempt's plan. The kept patches are asked first; else the manager
\* plans, or answers with no plan and the fallback planner does.
Plan ==
    /\ pc = "plan" /\ n < MaxLoops
    /\ \E names \in Plans, invalid \in BOOLEAN :
          LET fixed == RepairPlan(repair.arts, repair.done)
              asks  == fixed = <<>>
              base  == IF asks THEN Slices(names) ELSE fixed
              force == remote \/ (asks /\ invalid)
              new   == Planned(base, capped \/ (asks /\ invalid))
          IN /\ invalid => asks
             /\ ~asks => names = CHOOSE p \in Plans : TRUE
             /\ plan' = new
             /\ capped' = (capped \/ (asks /\ invalid))
             /\ asked' = asked \cup NamesIn(new)
             /\ \E sat \in SUBSET NamesIn(new) : PreScreen(new, sat, force)
    /\ UNCHANGED <<n, remote, checkout, files, repair, rejected, tried>>

-----------------------------------------------------------------------------
\* A worker starts with the edits of the patches it carries.
EditsOf(s) == {<<s.task, n>>} \cup UNION {files[p].edits : p \in s.carry}
SyncedBy(k) == checkout \cup UNION {EditsOf(pending[i]) : i \in 1 .. k}

\* All pending subtasks are done; the expected files are there, or not.
WorkersDone ==
    /\ pc = "work"
    /\ checkout' = SyncedBy(Len(pending))
    /\ did' = did \cup {pending[i].task[1] : i \in 1 .. Len(pending)}
    /\ \/ pc' = "integrate" /\ UNCHANGED <<n, outcome>>
       \/ n < Base - 1 /\ Again
       \/ n >= Base - 1 /\ Ends("repo_validation_failed") /\ UNCHANGED n
    /\ UNCHANGED <<remote, capped, files, repair, plan, pending, skipped, rejected, asked, tried>>

\* A worker fails. Its patch is saved under its own name or over the one its
\* place in the queue had before, or it is the one the worker was given and
\* left as it was; the loop goes on or the run is blocked.
Unchanged(c) == c.reason = "REPAIR_NO_CHANGE"

Failure(c, s) ==
    [task |-> s.task, kind |-> c.kind, reason |-> c.reason, sides |-> c.sides,
     patch |-> c.patch, named |-> c.named, gone |-> c.gone, glob |-> c.glob,
     kept |-> IF Unchanged(c) THEN s.why ELSE "none"]

WorkerFails ==
    /\ pc = "work"
    /\ \E k \in 0 .. Len(pending) - 1, c \in Failures :
          LET s    == pending[k + 1]
              f    == Failure(c, s)
              path == IF Unchanged(c) THEN CHOOSE p \in s.carry : TRUE
                      ELSE <<k + 1, IF f.patch = "own" THEN n + 1 ELSE 0>>
              were == IF path \in DOMAIN files THEN files[path].reasons ELSE {}
              arts == IF HasPatch(f) THEN Merged(repair.arts, Artifact(f, path)) ELSE repair.arts
              retry == WorkerRetry(arts, f, n, repair.used)
              ids  == {pending[i].task : i \in 1 .. k} \cup skipped \cup repair.done
                        \cup {plan[i].task : i \in {j \in 1 .. Len(plan) :
                                \A m \in 1 .. Len(pending) : pending[m] # plan[j]}}
              rest == SubSeq(pending, k + 2, Len(pending))
          IN /\ Unchanged(c) => s.carry # {}
             /\ tried' = tried \cup {s.task[1]}
             /\ checkout' = SyncedBy(k)
             /\ did' = did \cup {pending[i].task[1] : i \in 1 .. k}
             /\ files' = IF HasPatch(f) /\ ~Unchanged(c)
                         THEN [p \in DOMAIN files \cup {path} |->
                                 IF p = path
                                 THEN [reasons |-> were \cup {f.reason}, edits |-> EditsOf(s)]
                                 ELSE files[p]]
                         ELSE files
             /\ \/ /\ retry # "no"
                   /\ Again
                   /\ repair' = [arts |-> arts, done |-> ids,
                                 deferred |-> IF rest = <<>> THEN repair.deferred ELSE rest,
                                 partial |-> repair.partial \/ arts # <<>>,
                                 used |-> repair.used + IF retry = "empty" THEN 1 ELSE 0]
                \/ /\ retry = "no"
                   /\ Ends(f.kind)
                   /\ repair' = [repair EXCEPT !.arts = arts]
                   /\ UNCHANGED n
    /\ UNCHANGED <<remote, capped, plan, pending, skipped, rejected, asked>>

-----------------------------------------------------------------------------
\* Mutant: the patches that are kept outlive the rejection.
RejectKeeps ==
    /\ rejected' = rejected \cup checkout
    /\ checkout' = {}
    /\ UNCHANGED repair

\* The rejected checkout is saved aside and reset, and the kept patches go.
Reject ==
    /\ rejected' = rejected \cup checkout
    /\ checkout' = {}
    /\ repair' = [repair EXCEPT !.arts = <<>>, !.partial = FALSE]

\* The integration review approves a diff, or is put off to the review.
IntegrationPasses ==
    /\ pc = "integrate" /\ checkout # {}
    /\ pc' = "review"
    /\ UNCHANGED <<n, remote, capped, checkout, files, repair, plan, pending, skipped, outcome,
                   rejected, asked, did, tried>>

\* Nothing changed: go on, try again or give up.
NoDiff ==
    /\ pc = "integrate" /\ checkout = {}
    /\ \/ pc' = "review" /\ UNCHANGED <<n, outcome>>
       \/ n < Base - 1 /\ Again
       \/ n >= Base - 1 /\ UNCHANGED n /\ Ends("no_diff")
    /\ UNCHANGED <<remote, capped, checkout, files, repair, plan, pending, skipped, rejected,
                   asked, did, tried>>

\* It rejects the diff, or its prompt fails.
IntegrationRejects ==
    /\ pc = "integrate"
    /\ \/ IntegrationRetry(repair.partial, n) /\ Again /\ Reject
       \/ /\ Ends("integration") /\ checkout' = {}
          /\ UNCHANGED <<n, repair, rejected>>
    /\ UNCHANGED <<remote, capped, files, plan, pending, skipped, asked, did, tried>>

\* What a reviewer's or tester's answer says: an answer without a verdict, a
\* failed prompt's too, passes; a tester's complaint that nothing was run is
\* overruled when the commands passed.
Labelled(v, ran) ==
    CASE v \in {"pass", "silent"} -> "pass"
      [] v = "not_run" -> IF ran THEN "pass" ELSE "blocked"
      [] OTHER -> v

Answers == {"pass", "silent", "repair", "blocked", "human"}

\* valid: the expected files are there and the commands passed.
Verified(review, test, valid, ran) ==
    LET r == Labelled(review, FALSE)
        t == Labelled(test, valid /\ ran)
    IN IF "repair" \in {r, t} THEN "repair"
       ELSE IF {r, t} = {"pass"} /\ valid THEN "pass" ELSE "blocked"

Verdicts == {Verified(r, t, valid, ran) : r \in Answers, t \in Answers \cup {"not_run"},
                                          valid \in BOOLEAN, ran \in BOOLEAN}

ReviewPasses ==
    /\ pc = "review" /\ "pass" \in Verdicts
    /\ pc' = "finalize"
    /\ UNCHANGED <<n, remote, capped, checkout, files, repair, plan, pending, skipped, outcome,
                   rejected, asked, did, tried>>

ReviewRejects ==
    /\ pc = "review"
    /\ \E v \in Verdicts :
          \/ v = "repair" /\ ReviewRetry(repair.partial, n) /\ Again /\ Reject
          \/ /\ v = "blocked" \/ (v = "repair" /\ ~ReviewRetry(repair.partial, n))
             /\ Ends("verification") /\ checkout' = {}
             /\ UNCHANGED <<n, repair, rejected>>
    /\ UNCHANGED <<remote, capped, files, plan, pending, skipped, asked, did, tried>>

\* Commit what there is and tell the board.
Finalize ==
    /\ pc = "finalize"
    /\ \E why \in {"run_branch_mismatch", "github_sync_failed", "completed"} : Ends(why)
    /\ UNCHANGED <<n, remote, capped, checkout, files, repair, plan, pending, skipped, rejected,
                   asked, did, tried>>

\* The push, or the pull request that is to follow it.
PublishFails ==
    /\ pc = "finalize" /\ checkout # {}
    /\ \E why \in {"push_failed", "pull_request_missing"} : Ends(why)
    /\ UNCHANGED <<n, remote, capped, checkout, files, repair, plan, pending, skipped, rejected,
                   asked, did, tried>>

Next ==
    \/ Exhaust \/ BlockLost \/ ManagerBlocks \/ Plan
    \/ WorkersDone \/ WorkerFails
    \/ IntegrationPasses \/ NoDiff \/ IntegrationRejects
    \/ ReviewPasses \/ ReviewRejects \/ Finalize \/ PublishFails

Spec == Init /\ [][Next]_vars

-----------------------------------------------------------------------------
\* Types, and: what a plan or the repair record names is on disk, the loop
\* stays within its bound, and the empty-response budget is never overdrawn.
TypeOK ==
    /\ pc \in {"plan", "work", "integrate", "review", "finalize", "done"}
    /\ n \in 0 .. MaxLoops
    /\ pc = "done" <=> outcome # "running"
    /\ \A s \in ToSet(plan) : s.task[1] \in Names /\ s.carry \subseteq DOMAIN files
    /\ \A a \in ToSet(repair.arts) : a.path \in DOMAIN files
    /\ ToSet(pending) \subseteq ToSet(plan)
    /\ repair.used \in 0 .. Empty

\* No plan of any attempt applies a saved patch unless some failure saved there
\* left one that may be applied again: never one that a guard stopped as a
\* rewrite of its files or as tests of something else (patch_reusable is
\* False), by the deterministic plans, the pairing of one-sided patches, the
\* carrying into a manager's plan, or a deferred subtask. (A shared file that
\* was saved over keeps the judgement of its first patch.)
UnsafeNeverReplayed ==
    \A s \in ToSet(plan) : \A p \in s.carry :
        files[p].reasons \ (Rewrites \cup {"VERIFIABLE_DIFF_MISALIGNED_TEST"}) # {}

\* However the attempts go, a run whose manager always planned does not
\* complete while a subtask that was in one of its plans was never taken up:
\* what repair narrows away (Constrained) comes back (deferred). (Whether one
\* that failed is taken up again is another matter, see the README.)
NothingForgotten == outcome = "completed" /\ ~capped => asked \subseteq did \cup tried

\* "do not carry forward rejected shallow or incomplete behavior": as long as no
\* subtask was deferred, edits that a review rejected and reset are in no later
\* checkout and in no patch a later attempt starts from. (A deferred subtask
\* keeps the patch it was to carry, and brings rejected edits back.)
RejectedStaysOut ==
    repair.deferred = <<>> =>
        /\ checkout \cap rejected = {}
        /\ pc = "work" => \A s \in ToSet(plan) : \A p \in s.carry :
                              files[p].edits \cap rejected = {}
=============================================================================
