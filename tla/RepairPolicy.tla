---------------------------- MODULE RepairPolicy ----------------------------
(* The repair loop's decisions (core/execution/runner_core.py, core/phases/   *)
(* planning.py): which worker failure earns another attempt, what of it is    *)
(* kept for that attempt, and which repair plan the kept patches ask for.     *)
(*                                                                            *)
(* A failure is a record:                                                     *)
(*   task    the id of the subtask whose worker failed: <<t>>, or the id of   *)
(*           an earlier subtask with the attempt that renamed it appended     *)
(*   kind    the blocker kind, reason the failure reason, kept the reason of  *)
(*           the earlier patch a repair worker left as it was, or "none"      *)
(*   sides   which sides its diff changed, a subset of {"src", "test"}        *)
(*   patch   the diff was saved: "none", "own" (a file of this execution) or  *)
(*           "shared" (the file named after the worker, reused every round);  *)
(*           a repair worker that changed nothing hands back what it carried  *)
(*   named   the output names an import error, a repairable exception or a    *)
(*           failed assertion                                                 *)
(*   gone    the worker was abandoned after a timeout                         *)
(*   glob    the blocker is a false "no matches" of a target glob             *)
(* An artifact is what a failure leaves for later rounds: task, reason, sides,*)
(* path and whether its patch may be applied again (ok).                      *)
EXTENDS Integers, Sequences, FiniteSets, SequencesExt

CONSTANTS
    Base,      \* swarm.max_retries + 1
    Inc,       \* extra attempts: incomplete diff
    Off,       \* off track
    Empty,     \* empty engine response
    Failed,    \* focused tests failed
    Weak,      \* weak test
    Named,     \* import error, exception, assertion
    Ver,       \* rejected by review or verification
    Integ,     \* rejected by integration review
    Comp       \* complementary one-sided diffs

ASSUME RepairPolicyAssumption ==
    /\ Base \in Nat \ {0}
    /\ {Inc, Off, Empty, Failed, Weak, Named, Ver, Integ, Comp} \subseteq Nat

WorkerExtra == Max({Inc, Off, Empty, Failed, Weak, Named})

\* The bound of the repair loop.
MaxLoops == Base + WorkerExtra + Ver + Comp

-----------------------------------------------------------------------------
Retryable ==
    {"worker_incomplete_diff", "worker_no_progress", "worker_off_track",
     "worker_unproductive_diff", "worker_corrupt_diff",
     "carry_forward_patch_apply_failed", "worker_no_diff",
     "worker_reported_blocker", "engine_tool_loop_stalled",
     "engine_tool_loop_stalled_no_diff", "engine_prompt_timeout",
     "engine_empty_response", "engine_no_activity_response"}

ExtraKinds ==
    {"worker_incomplete_diff", "worker_corrupt_diff", "worker_no_progress",
     "worker_off_track", "carry_forward_patch_apply_failed",
     "engine_tool_loop_stalled", "engine_prompt_timeout"}

BothSides == {"src", "test"}
TestFailures == {"VERIFIABLE_DIFF_TEST_FAILED", "VERIFIABLE_DIFF_UNTERMINATED"}
WeakTests == {"VERIFIABLE_DIFF_WEAK_TEST", "VERIFIABLE_DIFF_MISALIGNED_TEST"}
Stalls == {"ENGINE_PROMPT_TIMEOUT", "ENGINE_TOOL_LOOP_STALLED"}
OneSidedReasons == {"OFF_TRACK_TESTLESS_DIFF", "TEST_ONLY_DIFF"}
Rewrites == {"RUNAWAY_DIFF", "DESTRUCTIVE_DIFF"}

HasPatch(f) == f.patch # "none"

IsTestFailed(f) ==
    /\ f.reason \in TestFailures
    /\ f.kind = "worker_incomplete_diff"
    /\ HasPatch(f)
    /\ f.sides = BothSides

IsWeakTest(f) ==
    /\ f.reason \in WeakTests
    /\ f.kind = "worker_incomplete_diff"
    /\ HasPatch(f)
    /\ f.sides = BothSides

IsUnchangedRepair(f) ==
    /\ f.kept \in TestFailures \cup WeakTests \cup Stalls \cup OneSidedReasons
    /\ HasPatch(f)
    /\ f.kept \in Stalls \/ f.sides = BothSides

IsIncompleteWithPatch(f) ==
    /\ f.kind = "worker_incomplete_diff"
    /\ f.reason \in {"TEST_ONLY_DIFF"} \cup Stalls
    /\ HasPatch(f)

Widened(extra, f) == IF f.named THEN Max({extra, Named}) ELSE extra

\* How many attempts the failure's own kind allows.
AttemptsFor(f) ==
    CASE f.kind \notin Retryable -> 0
      [] f.kind = "worker_reported_blocker" -> IF f.glob THEN Base ELSE 0
      [] f.kind = "worker_no_progress" /\ f.gone -> 0
      [] f.kind \in {"engine_empty_response", "engine_no_activity_response"} -> Base
      [] f.kind = "worker_no_progress" /\ f.reason = "REPAIR_NO_CHANGE" ->
            IF IsUnchangedRepair(f)
            THEN Base + Widened(IF f.sides = BothSides THEN Failed ELSE Inc, f)
            ELSE 0
      [] f.kind \notin ExtraKinds -> Base
      [] f.kind \in {"engine_tool_loop_stalled", "engine_prompt_timeout"}
            /\ ~HasPatch(f) -> Base
      [] f.kind = "worker_off_track" -> Base + Off
      [] IsTestFailed(f) -> Base + Widened(Failed, f)
      [] IsWeakTest(f) -> Base + Weak + (IF f.named THEN 1 ELSE 0)
      [] IsIncompleteWithPatch(f) -> Base + Inc
      [] OTHER -> Base

\* The attempts are numbered from 0; another may follow attempt n.
CanRetry(f, n) == n < AttemptsFor(f) - 1

-----------------------------------------------------------------------------
\* One-sided, misaligned and rewriting patches are not applied again.
Reusable(kind, why) ==
    /\ why \notin OneSidedReasons \cup Rewrites \cup {"VERIFIABLE_DIFF_MISALIGNED_TEST"}
    /\ kind # "worker_runaway_diff"

\* What of a failure is kept.
Artifact(f, path) ==
    LET why == IF f.kept # "none" THEN f.kept ELSE f.reason IN
    [task |-> f.task, reason |-> why, sides |-> f.sides, path |-> path,
     ok |-> Reusable(f.kind, why)]

\* The kept list has one entry per patch file, the first one seen.
Merged(arts, new) ==
    IF \E i \in 1 .. Len(arts) : arts[i].path = new.path
    THEN arts
    ELSE Append(arts, new)

SourceOnly(a) == a.reason = "OFF_TRACK_TESTLESS_DIFF" /\ a.sides = {"src"}
TestOnlyPatch(a) == a.reason = "TEST_ONLY_DIFF" /\ a.sides = {"test"}
OneSided(a) == SourceOnly(a) \/ TestOnlyPatch(a)

Pairs(arts) ==
    {a.task : a \in {x \in ToSet(arts) : SourceOnly(x)}}
      \cap {a.task : a \in {x \in ToSet(arts) : TestOnlyPatch(x)}}

Complementary(arts, n) ==
    /\ Pairs(arts) # {}
    /\ n < Base + Max({Inc, Off}) + 1 + (Cardinality(Pairs(arts)) - 1) * 2 - 1

TestFailedAgain(arts, f, n) ==
    LET same == {i \in 1 .. Len(arts) : arts[i].reason \in TestFailures /\ arts[i].task = f.task} IN
    /\ n < MaxLoops
    /\ IsTestFailed(f)
    /\ same # {}
    /\ Cardinality(same) <= Widened(Failed, f)

\* Mutant: the retries already used are not counted.
EmptyUncounted(arts, f, n, used) ==
    /\ f.kind \in {"engine_empty_response", "engine_prompt_timeout"}
    /\ \E a \in ToSet(arts) : a.sides = BothSides \/ OneSided(a)
    /\ n < MaxLoops - 1

EmptyCanRetry(arts, f, n, used) ==
    /\ f.kind \in {"engine_empty_response", "engine_prompt_timeout"}
    /\ f.kind = "engine_prompt_timeout" => f.reason = "ENGINE_PROMPT_TIMEOUT"
    /\ \E a \in ToSet(arts) : a.sides = BothSides \/ OneSided(a)
    /\ used < Empty
    /\ n < MaxLoops - 1

\* Source-only and test-only attempts at one subtask, and another since.
OneSidedCycle(arts, f) ==
    LET mine(P(_)) == {i \in 1 .. Len(arts) : arts[i].task = f.task /\ P(arts[i])} IN
    /\ f.reason \in OneSidedReasons
    /\ mine(SourceOnly) # {} /\ mine(TestOnlyPatch) # {}
    /\ \/ \E i \in 1 .. Len(arts) :
             /\ arts[i].task = f.task
             /\ arts[i].sides = BothSides
             /\ arts[i].reason \in WeakTests \cup TestFailures \cup Rewrites
       \/ \E k \in mine(OneSided) :
             /\ \E i \in mine(SourceOnly) : i < k
             /\ \E j \in mine(TestOnlyPatch) : j < k

\* One-sided attempts after the latest source and test diff that failed.
FollowupCanRetry(arts, f) ==
    LET failed == {i \in 1 .. Len(arts) : /\ arts[i].task = f.task
                                          /\ arts[i].reason \in TestFailures
                                          /\ arts[i].sides = BothSides}
        since == {i \in 1 .. Len(arts) : /\ arts[i].task = f.task
                                         /\ OneSided(arts[i])
                                         /\ failed # {} /\ i > Max(failed)}
    IN /\ f.reason \in OneSidedReasons
       /\ since # {}
       /\ Cardinality(since) <= Max({1, Failed})

DestructiveCanRetry(arts, f, n) ==
    /\ f.kind = "worker_runaway_diff"
    /\ f.reason = "DESTRUCTIVE_DIFF"
    /\ HasPatch(f)
    /\ Pairs(arts) # {}
    /\ Cardinality({i \in 1 .. Len(arts) : arts[i].reason \in Rewrites}) = 1
    /\ n < Base + WorkerExtra + Comp - 1

StalledCanRetry(arts, f, n) ==
    /\ f.kind = "engine_tool_loop_stalled_no_diff"
    /\ arts # <<>>
    /\ n < Base + Max({1, Inc}) - 1

\* The decision after a round with a failed worker: "no", or the reason why
\* the loop goes on. arts is the kept list with this failure's patch merged in.
WorkerRetry(arts, f, n, used) ==
    LET feedback == f.kind \in Retryable
        cycle    == OneSidedCycle(arts, f)
        followup == cycle /\ FollowupCanRetry(arts, f)
        capped   == /\ f.kind = "engine_empty_response" /\ arts # <<>>
                    /\ ~EmptyCanRetry(arts, f, n, used)
        own      == /\ feedback /\ (CanRetry(f, n) \/ followup) /\ (cycle => followup)
                    /\ ~capped
        \* the feedback is dropped when a cycle or a spent budget forbids the retry
        told     == feedback /\ (cycle => followup) /\ ~(capped /\ CanRetry(f, n))
    IN CASE own -> "own"
         [] told /\ ~cycle /\ Complementary(arts, n) -> "complementary"
         [] told /\ ~cycle /\ TestFailedAgain(arts, f, n) -> "test_failed"
         [] ~told /\ DestructiveCanRetry(arts, f, n) -> "destructive"
         [] told /\ StalledCanRetry(arts, f, n) -> "stalled"
         [] told /\ EmptyCanRetry(arts, f, n, used) -> "empty"
         [] OTHER -> "no"

\* Rejected by review or verification; partial: some worker diff was partial.
ReviewRetry(partial, n) ==
    n < Base - 1 \/ (partial /\ n < Base + Inc + Ver - 1)

IntegrationRetry(partial, n) ==
    ReviewRetry(partial, n) \/ (partial /\ n < Base + Inc + Integ - 1)

-----------------------------------------------------------------------------
\* Repair plans. A planned subtask names the patches applied before its worker
\* starts (carry), the failure that left the one it carries (why; a pair has
\* none) and says whether an earlier patch was dropped (drop).
Subtask(id) == [task |-> id, carry |-> {}, why |-> "none", drop |-> FALSE]
Carrying(id, paths, why) == [Subtask(id) EXCEPT !.carry = paths, !.why = why]
Dropping(id) == [Subtask(id) EXCEPT !.drop = TRUE]
Repairing(s) == s.carry # {} \/ s.drop

\* Source-only and test-only patches are applied together, unless a rewrite of
\* the same files was rejected; then they are rebuilt from clean files.
ComplementaryPlan(arts, s, t) ==
    IF \E i \in 1 .. Len(arts) : arts[i].reason \in Rewrites
    THEN Dropping(arts[t].task)
    ELSE Carrying(arts[t].task, {arts[s].path, arts[t].path}, "none")

\* Mutant: patches marked as not to be applied again are applied.
ReplayAnything(a) == Carrying(a.task, {a.path}, a.reason)

\* The plan for one kept patch of a reason that has one.
Replay(a) == IF a.ok THEN Carrying(a.task, {a.path}, a.reason) ELSE Dropping(a.task)

\* Syntax errors and failed tests: the patch is applied and mended.
SyntaxPlan(a) == <<Carrying(a.task, {a.path}, a.reason)>>
FailedPlan(a) == <<Carrying(a.task, {a.path}, a.reason)>>

\* A source-only diff of a prompt that timed out asks for its tests and is not
\* applied again.
TimedOut(a) == a.reason = "ENGINE_PROMPT_TIMEOUT" /\ a.sides = {"src"}

\* A diff with weak tests came after the one-sided ones.
WeakLater(weak, oneSided) == weak # {} /\ (oneSided # {} => Max(weak) > Max(oneSided))

\* The members of s at the positions I, in their order.
Picked(s, I) ==
    LET upTo[k \in 0 .. Len(s)] ==
            IF k = 0 THEN <<>>
            ELSE IF k \in I THEN Append(upTo[k - 1], s[k]) ELSE upTo[k - 1]
    IN upTo[Len(s)]

\* Patches of completed subtasks are left aside while others remain.
Active(arts, done) ==
    LET live == Picked(arts, {i \in 1 .. Len(arts) : arts[i].task \notin done}) IN
    IF live = <<>> THEN arts ELSE live

\* The deterministic repair plan for the kept patches, or none: at most one
\* subtask. Syntax errors first, then failed tests, then a complementary pair,
\* then the latest of the others.
RepairPlan(kept, done) ==
    LET arts == Active(kept, done)
        at(P(_)) == {i \in 1 .. Len(arts) : P(arts[i])}
        syntax == at(LAMBDA a : a.reason = "SYNTAX_INVALID_DIFF" /\ a.sides = BothSides)
        failed == at(LAMBDA a : a.reason \in TestFailures /\ a.sides = BothSides)
        weak   == at(LAMBDA a : a.reason \in WeakTests /\ a.sides = BothSides)
        oneSided == at(LAMBDA a : a.reason \in OneSidedReasons)
        src == at(SourceOnly)
        tst == at(TestOnlyPatch)
        other == weak \cup oneSided \cup at(TimedOut)
    IN CASE kept = <<>> -> <<>>
         [] syntax # {} -> SyntaxPlan(arts[Max(syntax)])
         [] failed # {} -> FailedPlan(arts[Max(failed)])
         [] ~WeakLater(weak, oneSided) /\ src # {} /\ tst # {} ->
               <<ComplementaryPlan(arts, Min(src), Min(tst))>>
         [] other # {} -> <<Replay(arts[Max(other)])>>
         [] OTHER -> <<>>

\* The planned subtask a kept patch belongs to: its own, else one with its
\* files, else the first one.
Chosen(plan, a) ==
    LET own == {i \in 1 .. Len(plan) : plan[i].task = a.task}
        alike == {i \in 1 .. Len(plan) : plan[i].task[1] = a.task[1]}
    IN IF own # {} THEN Min(own) ELSE IF alike # {} THEN Min(alike) ELSE 1

\* Mended with a kept patch: it is applied again, or noted as dropped.
MendedWith(s, a) ==
    IF (a.reason \in TestFailures /\ a.sides = BothSides) \/ (a.ok /\ ~TimedOut(a))
    THEN [s EXCEPT !.carry = {a.path}, !.why = a.reason]
    ELSE [s EXCEPT !.drop = TRUE]

\* The kept patches, latest first, are put with their subtasks, one for each.
CarriedInto(plan, arts) ==
    LET after[k \in 0 .. Len(arts)] ==
            IF k = 0 THEN plan
            ELSE LET p == after[k - 1]
                     a == arts[Len(arts) + 1 - k]
                     i == Chosen(p, a)
                 IN IF p = <<>> \/ Repairing(p[i]) THEN p
                    ELSE [p EXCEPT ![i] = MendedWith(p[i], a)]
    IN after[Len(arts)]

\* Past the base attempts only the repaired subtask is kept.
Constrained(plan, arts, n) ==
    LET carried == {i \in 1 .. Len(plan) : plan[i].carry # {}}
        rejected == {i \in 1 .. Len(plan) : plan[i].drop}
        some == IF carried # {} THEN carried ELSE rejected
    IN IF arts = <<>> \/ n < Base \/ some = {} THEN plan ELSE <<plan[Min(some)]>>

\* Mutant: the subtasks put off are forgotten.
WithoutDeferred(plan, deferred) == plan

\* Subtasks put off behind an earlier failure come back.
WithDeferred(plan, deferred) ==
    plan \o Picked(deferred, {j \in 1 .. Len(deferred) :
                                 \A i \in 1 .. Len(plan) : plan[i].task # deferred[j].task})

\* While patches are kept, a subtask with a completed one's id gets a new id.
Namespaced(plan, arts, done, n) ==
    IF arts = <<>> THEN plan
    ELSE [i \in 1 .. Len(plan) |->
             IF plan[i].task \in done
             THEN [plan[i] EXCEPT !.task = Append(@, n + 1)]
             ELSE plan[i]]
=============================================================================
