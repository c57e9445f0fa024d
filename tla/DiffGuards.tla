------------------------------ MODULE DiffGuards ------------------------------
(* What ACA makes of a sub-worker's diff (core/phases/worker_dispatch.py):   *)
(* the guards that stop a worker while it still edits, and the verdict on    *)
(* the result it ends with.  A diff is the set of its features: which kinds  *)
(* of file it touches, and what is wrong with it.  A subtask is the set of   *)
(* its demands.  Both are sets of strings of the two constants below.        *)
EXTENDS Naturals, FiniteSets

(* source: the primary source target; side: another production file; test:   *)
(* the required test files.  stale: does not apply to HEAD; weak: the tests  *)
(* add no assertion; misaligned: they do not name the new symbols; hollow: a *)
(* test-only diff that asserts nothing of the production code; untested: no  *)
(* focused test command can be inferred.  corrupt: lines or definitions that *)
(* repeat; selfref: tests beside the code instead of the declared test file; *)
(* empty: nothing of substance; ignored: Git ignores the files it changed.   *)
FileFeatures == {"source", "side", "test"}
DiffFeatures == FileFeatures \union
  {"stale", "destructive", "huge", "placeholder", "comment", "hollow", "syntax",
   "weak", "misaligned", "failing", "untested", "tokens", "corrupt", "selfref",
   "empty", "ignored"}

(* tests: the text asks for tests and test files are declared; source: a     *)
(* source file is declared; production: a test-only diff needs a follow-up;  *)
(* contract: identifiers its diff must name; optional: no write is required; *)
(* c_source, c_test: what the carried patch touches; first: the repair       *)
(* verifies the patch before it edits; composed: several patches; explicit:  *)
(* the repair names test follow-ups or a source and test pair; followup: it  *)
(* names source files the carried tests still need; real: only a diff will   *)
(* do; existing: its targets are in the checkout; anchors: the symbols its   *)
(* production diff must name; focused: the carried patch has failed its      *)
(* tests; candidate: a fetched pull request can be applied.                  *)
Demands == {"tests", "source", "production", "contract", "optional", "c_source", "c_test",
            "first", "composed", "explicit", "followup", "real", "existing", "anchors",
            "focused", "candidate"}

Files(d) == d \intersect FileFeatures

(* A failed result, or a completed one (rc 0): why, whether a patch of it is *)
(* kept, and the diff its changed_files stand for.                           *)
Failed(reason, patch, d) == [rc |-> 1, reason |-> reason, patch |-> patch, diff |-> d]
Done(d) == [rc |-> 0, reason |-> "", patch |-> FALSE, diff |-> d]

-----------------------------------------------------------------------------
(* The files of a carried patch.                                             *)
Carried(s) == (IF "c_source" \in s THEN {"source"} ELSE {})
              \union (IF "c_test" \in s THEN {"test"} ELSE {})
Uses(s) == Carried(s) # {}
Pair(files) == {"source", "test"} \subseteq files

(* The files a guard looks at: the fresh ones, with the carried ones where   *)
(* the repair builds on them.                                                *)
Validation(d, s) ==
  IF Files(d) = {}
  THEN IF "first" \in s /\ Pair(Carried(s)) THEN d \union Carried(s) ELSE {}
  ELSE IF \/ Pair(Carried(s)) /\ {"first", "composed"} \intersect s # {}
          \/ /\ "source" \in Carried(s)
             /\ ~("explicit" \in s /\ "test" \in Carried(s) /\ "test" \notin d)
       THEN d \union Carried(s)
       ELSE d

RequiresTests(s) == "tests" \in s
(* _changed_files_satisfy_primary_source_target.                             *)
OnTarget(d, s) == "source" \in s => "source" \in d
(* _subtask_has_verifiable_source_and_test_diff.                             *)
Verifiable(d, s) ==
  RequiresTests(s) /\ "test" \in d /\ OnTarget(d, s) /\ {"source", "side"} \intersect d # {}
TestOnly(d) == Files(d) = {"test"}

-----------------------------------------------------------------------------
(* The guards of a progress snapshot, in the order they are tried.  Those    *)
(* that wait for a budget are tried with late, the budget being spent.       *)
Destructive(d)     == "destructive" \in d
Runaway(d)         == "huge" \in d
Testless(d, s, late) == late /\ RequiresTests(s) /\ "test" \notin Validation(d, s)
TestsAlone(d, s, late) ==
  late /\ RequiresTests(s) /\ "production" \in s /\ TestOnly(Validation(d, s))
(* The source follow-up a repair asks for is missing, or adds nothing.       *)
NoFollowup(d, s) ==
  "followup" \in s /\ ("source" \notin Validation(d, s) \/ "comment" \in d)
Unproductive(d, s, late) ==
  \/ "placeholder" \in d
  \/ late /\ (NoFollowup(d, s) \/ "comment" \in d)
  \/ late /\ RequiresTests(s) /\ TestOnly(d) /\ "hollow" \in d
SyntaxInvalid(d, s, late) == late /\ Verifiable(Validation(d, s), s) /\ "syntax" \in d
WeakTest(d, s, late)      == late /\ Verifiable(Validation(d, s), s) /\ "weak" \in d
Misaligned(d, s, late)    == late /\ Verifiable(Validation(d, s), s) /\ "misaligned" \in d
FocusedTestsFail(d, s, late) ==
  late /\ Verifiable(Validation(d, s), s) /\ "failing" \in d /\ "untested" \notin d
Unterminated(d, s, late)  == late /\ Verifiable(Validation(d, s), s)

(* What a snapshot of the diff comes to: the reason the worker is stopped    *)
(* for, "keep" for a snapshot that is only kept, "" for none.  The guard of  *)
(* weak tests raises on its way (it reads subtask_id before the assignment), *)
(* after the snapshot was stored and before the worker is stopped.           *)
Guard(d, s, late) ==
  CASE Files(d) = {} \/ "stale" \in d -> ""
    [] OTHER ->
       IF Destructive(d) THEN "WORKER_DESTRUCTIVE_DIFF"
       ELSE IF Runaway(d) THEN "WORKER_RUNAWAY_DIFF"
       ELSE IF Testless(d, s, late) THEN "WORKER_OFF_TRACK_TESTLESS_DIFF"
       ELSE IF TestsAlone(d, s, late) THEN "WORKER_TEST_ONLY_DIFF"
       ELSE IF Unproductive(d, s, late) THEN "WORKER_UNPRODUCTIVE_DIFF"
       ELSE IF SyntaxInvalid(d, s, late) THEN "WORKER_SYNTAX_INVALID_DIFF"
       ELSE IF WeakTest(d, s, late) THEN "keep"
       ELSE IF Misaligned(d, s, late) THEN "WORKER_VERIFIABLE_DIFF_WEAK_TEST"
       ELSE IF FocusedTestsFail(d, s, late) THEN "WORKER_VERIFIABLE_DIFF_TEST_FAILED"
       ELSE IF Unterminated(d, s, late) THEN "WORKER_VERIFIABLE_DIFF_UNTERMINATED"
       ELSE "keep"

(* The guards that run the focused tests first look again whether the        *)
(* snapshot is still of the worker's attempt.                                *)
Rechecked == {"WORKER_VERIFIABLE_DIFF_TEST_FAILED", "WORKER_VERIFIABLE_DIFF_UNTERMINATED"}
(* The guards of source and test diffs; they report the validated files.     *)
OfPair == Rechecked \union
  {"WORKER_SYNTAX_INVALID_DIFF", "WORKER_VERIFIABLE_DIFF_WEAK_TEST"}
GuardReasons == OfPair \union
  {"WORKER_DESTRUCTIVE_DIFF", "WORKER_RUNAWAY_DIFF", "WORKER_OFF_TRACK_TESTLESS_DIFF",
   "WORKER_TEST_ONLY_DIFF", "WORKER_UNPRODUCTIVE_DIFF"}

(* The guard of workers that changed nothing, in the heartbeat thread; what  *)
(* the engine's messages say of the session decides the reason.              *)
EngineSays == {"nothing", "loop", "silent"}
NoChange(d, s, late, says) ==
  IF "optional" \in s \/ Files(d) # {} THEN ""
  ELSE IF says = "loop" THEN "WORKER_NO_DIFF_TOOL_LOOP"
  ELSE IF ~late THEN ""
  ELSE IF says = "silent" THEN "ENGINE_EMPTY_RESPONSE"
  ELSE IF Uses(s) THEN "WORKER_REPAIR_NO_CHANGE" ELSE "WORKER_NO_CHANGE"
NoChangeReasons ==
  {"WORKER_NO_DIFF_TOOL_LOOP", "ENGINE_EMPTY_RESPONSE", "WORKER_REPAIR_NO_CHANGE",
   "WORKER_NO_CHANGE"}

(* The result a guard leaves for the pool.  A worker that changed nothing in *)
(* a repair keeps the carried patch.                                         *)
AbortResult(reason, d, s) ==
  IF reason \in NoChangeReasons
  THEN Failed(reason, reason = "WORKER_REPAIR_NO_CHANGE" /\ Uses(s),
              IF reason = "WORKER_REPAIR_NO_CHANGE" THEN Carried(s) ELSE {})
  ELSE Failed(reason, TRUE, IF reason \in OfPair THEN Validation(d, s) ELSE d)

-----------------------------------------------------------------------------
(* The verdict on a result (_on_result).                                     *)

(* An engine that stopped answering leaves the last snapshot as its patch.   *)
Stalled == {"ENGINE_PROMPT_TIMEOUT", "ENGINE_TOOL_LOOP_STALLED", "WORKER_NO_PROGRESS",
            "WORKER_NO_CHANGE", "WORKER_REPAIR_NO_CHANGE", "WORKER_NO_DIFF_TOOL_LOOP"}
AttachSnapshot(res, snap) ==
  IF res.rc # 0 /\ ~res.patch /\ res.reason \in Stalled /\ snap # {}
  THEN [res EXCEPT !.patch = TRUE, !.diff = snap] ELSE res

(* A failed result whose diff has source and tests: taken for review, unless *)
(* its reason says that the tests fail or do not test.                       *)
Reviewable(res, s) ==
  /\ res.rc # 0
  /\ res.reason \notin {"WORKER_SYNTAX_INVALID_DIFF", "WORKER_VERIFIABLE_DIFF_TEST_FAILED",
                        "WORKER_VERIFIABLE_DIFF_WEAK_TEST"}
  /\ res.reason = "WORKER_VERIFIABLE_DIFF_UNTERMINATED" => {"failing", "untested"} \intersect res.diff = {}
  /\ res.patch
  /\ Verifiable(res.diff, s)
(* _reviewable_failed_diff_rejection, of the worktree as it is now.          *)
Rejection(d) ==
  IF "weak" \in d THEN "WORKER_VERIFIABLE_DIFF_WEAK_TEST"
  ELSE IF "misaligned" \in d THEN "WORKER_VERIFIABLE_DIFF_MISALIGNED_TEST"
  ELSE IF "failing" \in d /\ "untested" \notin d
       THEN "WORKER_VERIFIABLE_DIFF_WEAK_TEST" ELSE ""
(* A failed result with production files only, which name every identifier   *)
(* of the contract.                                                          *)
ReviewableProduction(res, d, s) ==
  /\ res.rc # 0
  /\ res.patch
  /\ ~RequiresTests(s)
  /\ Files(res.diff) # {}
  /\ "test" \notin res.diff
  /\ ("source" \in s => "side" \notin res.diff)
  /\ OnTarget(res.diff, s)
  /\ {"syntax", "comment", "placeholder"} \intersect d = {}
  /\ "contract" \in s
  /\ "tokens" \in d

(* Whether ACA itself copies the worktree into the checkout.                 *)
Takes(res, d, s) ==
  \/ Reviewable(res, s) /\ Rejection(d) = ""
  \/ ~Reviewable(res, s) /\ ReviewableProduction(res, d, s)

(* A result that did not touch the primary source target has failed.         *)
Targeted(res, s) ==
  IF res.rc = 0 /\ ~OnTarget(res.diff, s)
  THEN [res EXCEPT !.rc = 1, !.reason = "WORKER_PRIMARY_SOURCE_TARGET_MISSING"] ELSE res

(* The recorded result.  d: the worktree now; ok: the copy succeeded.        *)
Verdict(res, d, s, ok) ==
  Targeted(CASE Takes(res, d, s) /\ ok -> Done(res.diff \union d)
             [] Takes(res, d, s) /\ ~ok -> res
             [] ~Takes(res, d, s) /\ Reviewable(res, s) -> [res EXCEPT !.reason = Rejection(d)]
             [] OTHER -> res, s)
=============================================================================
