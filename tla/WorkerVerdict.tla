---------------------------- MODULE WorkerVerdict ----------------------------
(* What a sub-worker's thread makes of the engine's answer                   *)
(* (core/execution/worker.py, run_worker_subtask): the worktree decides      *)
(* whether the answer counts as a success.  A tree t is the set of features  *)
(* of all that changed in the worktree, the carried patch included.          *)
EXTENDS DiffGuards

(* An engine that stopped in the middle, and what its last words lead to.    *)
Stalls == {"ENGINE_PROMPT_TIMEOUT", "ENGINE_TOOL_LOOP_STALLED"}
EngineReasons == Stalls \union
  {"ENGINE_EMPTY_RESPONSE", "ENGINE_SESSION_RUN_CONFLICT", "ENGINE_EXCEPTION",
   "ENGINE_PROVIDER_AUTH", "ENGINE_DISPATCH_FAILED"}
(* What the engine may answer; a text may say that the worker is blocked.    *)
Answers == {Done({}), [Done({}) EXCEPT !.reason = "WORKER_REPORTED_BLOCKER"]}
           \union {Failed(r, FALSE, {}) : r \in EngineReasons}

(* The reasons a result may have.                                            *)
ResultReasons == EngineReasons \union GuardReasons \union NoChangeReasons \union
  {"", "WORKER_REPORTED_BLOCKER", "WORKER_NO_PROGRESS", "WORKER_CORRUPT_DIFF",
   "WORKER_VERIFIABLE_DIFF_MISALIGNED_TEST", "WORKER_PRIMARY_SOURCE_TARGET_MISSING",
   "WORKER_CARRIED_DIFF_READY_FOR_VERIFICATION", "WORKER_INHERITED_OVERLAY_NO_FRESH_CHANGES",
   "TERMINALIZED_WITH_REMAINING_BLOCKERS", "TERMINALIZED_MISSING_CONTRACT_TOKENS",
   "TERMINALIZED_MISSING_PRODUCTION_ANCHORS", "TERMINALIZED_UNVERIFIED_TEST_ONLY_DIFF",
   "SELF_REFERENTIAL_TEST_ONLY_DIFF", "TARGET_FILES_UNCHANGED", "NO_FILESYSTEM_CHANGES",
   "IGNORED_PATH_CHANGES", "ENGINE_TOOL_LOOP_STALLED_NO_DIFF",
   "CARRY_FORWARD_PATCH_APPLY_FAILED", "WORKER_RESULT_AFTER_RUN_TERMINAL",
   "WORKER_RESULT_AFTER_RETRY_SUPERSEDED"}

(* blocker_kind, where it is more than the reason in small letters.          *)
Kind(reason, patch) ==
  CASE reason = "WORKER_REPORTED_BLOCKER" /\ patch -> "worker_incomplete_diff"
    [] reason \in {"TERMINALIZED_WITH_REMAINING_BLOCKERS", "SELF_REFERENTIAL_TEST_ONLY_DIFF",
                   "TERMINALIZED_MISSING_CONTRACT_TOKENS",
                   "TERMINALIZED_MISSING_PRODUCTION_ANCHORS",
                   "TERMINALIZED_UNVERIFIED_TEST_ONLY_DIFF",
                   "WORKER_CARRIED_DIFF_READY_FOR_VERIFICATION"} -> "worker_incomplete_diff"
    [] reason \in (NoChangeReasons \ {"ENGINE_EMPTY_RESPONSE"})
                  \union {"WORKER_INHERITED_OVERLAY_NO_FRESH_CHANGES"} -> "worker_no_progress"
    [] reason = "WORKER_CORRUPT_DIFF" -> "worker_corrupt_diff"
    [] reason = "NO_FILESYSTEM_CHANGES" -> "worker_no_diff"
    [] OTHER -> reason

Real(s) == "real" \in s
Targets(s) == (IF "source" \in s THEN {"source"} ELSE {})
              \union (IF "tests" \in s THEN {"test"} ELSE {})
(* _diff_satisfies_targeted_subtask.                                         *)
Satisfies(t, s) ==
  \/ Targets(s) = {}
  \/ Targets(s) \intersect t # {}
  \/ ~Real(s) /\ "existing" \in s

(* _engine_failure_should_not_recover.                                       *)
EngineFailure(r) ==
  r.reason \in EngineReasons \/ Kind(r.reason, r.patch) = "worker_incomplete_diff"

Preserved(r, t) == [r EXCEPT !.patch = @ \/ Files(t) # {}, !.diff = t]

-----------------------------------------------------------------------------
(* A failed result in whose worktree nothing but the carried patch changed.  *)
OnlyCarried(r, fresh, s) == r.rc # 0 /\ Files(fresh) = {} /\ Uses(s)
Ready(s) == "first" \in s /\ "focused" \notin s /\ Satisfies(Carried(s), s)
Inherited(s) ==
  IF Ready(s) THEN Failed("WORKER_CARRIED_DIFF_READY_FOR_VERIFICATION", TRUE, Carried(s))
  ELSE Failed("WORKER_INHERITED_OVERLAY_NO_FRESH_CHANGES", FALSE, {})

(* _terminalize_worker_after_tool_loop: the engine is asked, without tools,  *)
(* for a note on the diff of a worker that stalled.                          *)
Notes == {"", "blockers", "unverified", "fine"}
Terminalized(r, t, s, note) ==
  IF \/ r.rc = 0 \/ r.reason \notin Stalls
     \/ Files(t) = {} \/ {"empty", "corrupt"} \intersect t # {}
     \/ ~Satisfies(t, s) \/ note = ""
  THEN r
  ELSE IF note = "blockers"
  THEN [r EXCEPT !.reason = "TERMINALIZED_WITH_REMAINING_BLOCKERS", !.diff = t]
  ELSE IF TestOnly(t) /\ "contract" \in s /\ "tokens" \notin t
  THEN Preserved(Failed("TERMINALIZED_MISSING_CONTRACT_TOKENS", r.patch, t), t)
  ELSE IF "anchors" \in s /\ "tokens" \notin t
  THEN Preserved(Failed("TERMINALIZED_MISSING_PRODUCTION_ANCHORS", r.patch, t), t)
  ELSE IF note = "unverified" /\ TestOnly(t)
  THEN Preserved(Failed("TERMINALIZED_UNVERIFIED_TEST_ONLY_DIFF", r.patch, t), t)
  ELSE Done(t)

(* _recover_nonzero_result_with_diff.                                        *)
Recovered(r, t) ==
  IF r.rc = 0 \/ Files(t) = {} \/ "empty" \in t THEN r
  ELSE IF r.reason \in Stalls
  THEN IF "corrupt" \in t THEN [r EXCEPT !.reason = "WORKER_CORRUPT_DIFF"] ELSE Preserved(r, t)
  ELSE IF r.reason = "ENGINE_DISPATCH_FAILED" THEN Done(t)
  ELSE IF EngineFailure(r) THEN Preserved(r, t)
  ELSE Done(t)
(* _recover_nonzero_result_if_diff_satisfies_subtask.                        *)
RecoveredIfTargeted(r, t, s) == IF Satisfies(t, s) THEN Recovered(r, t) ELSE r

(* The reason _coerce_worker_failure finds in a result, "" for none.         *)
Reason(r, t, s) ==
  LET stated == IF r.rc = 0 /\ "selfref" \in t THEN "SELF_REFERENTIAL_TEST_ONLY_DIFF" ELSE r.reason
      found  == IF r.rc # 0 /\ Real(s) /\ Targets(s) # {} /\ Files(t) = {"side"}
                THEN "TARGET_FILES_UNCHANGED"
                ELSE IF stated # "" THEN stated
                ELSE IF r.rc = 0 /\ (Files(t) = {} \/ (Real(s) /\ "empty" \in t))
                THEN "NO_FILESYSTEM_CHANGES" ELSE ""
  IN IF Files(t) = {} /\ "ignored" \in t
        /\ found \in {"ENGINE_TOOL_LOOP_STALLED", "NO_FILESYSTEM_CHANGES"}
     THEN "IGNORED_PATH_CHANGES"
     ELSE IF Files(t) = {} /\ found = "ENGINE_TOOL_LOOP_STALLED"
     THEN "ENGINE_TOOL_LOOP_STALLED_NO_DIFF"
     ELSE IF found = "" /\ r.rc = 0 /\ Real(s) /\ Files(t) # {} /\ ~Satisfies(t, s)
     THEN "TARGET_FILES_UNCHANGED" ELSE found

(* _coerce_worker_failure.                                                   *)
Coerced(r, t, s) ==
  LET reason == Reason(r, t, s)
      kept   == IF r.rc # 0 /\ "selfref" \in t THEN Preserved(r, t) ELSE r
  IN IF Files(t) # {} /\ "corrupt" \in t
     THEN [r EXCEPT !.rc = 1, !.reason = "WORKER_CORRUPT_DIFF"]
     ELSE IF r.rc # 0 /\ Files(t) # {} /\ Satisfies(t, s) THEN Recovered(kept, t)
     ELSE IF r.rc # 0 /\ Files(t) = {} /\ "existing" \in s /\ ~Real(s) /\ ~EngineFailure(r)
     THEN Done({})
     ELSE IF reason = "" THEN kept
     ELSE LET failed == [kept EXCEPT !.rc = 1, !.reason = reason]
          IN IF Files(t) # {} /\ (reason = "WORKER_REPORTED_BLOCKER" \/ EngineFailure(failed))
             THEN Preserved(failed, t) ELSE failed

(* The whole judgement of one answer of the engine, of a worktree with these *)
(* fresh changes.                                                            *)
Judged(r, fresh, s, note) ==
  LET t == fresh \union Carried(s)
  IN IF OnlyCarried(r, fresh, s) THEN Inherited(s)
     ELSE RecoveredIfTargeted(Coerced(Terminalized(r, t, s, note), t, s), t, s)

(* _seed_pr_candidate_diff: a worker without a diff is given the candidate   *)
(* pull request, and counts as done.                                         *)
Seeds(r, fresh, s) ==
  /\ r.rc # 0 /\ Kind(r.reason, r.patch) \in {"worker_no_diff", "ENGINE_TOOL_LOOP_STALLED"}
  /\ Real(s) /\ Files(fresh \union Carried(s)) = {} /\ "candidate" \in s

(* _worker_result_should_retry.                                              *)
Retries(r) ==
  /\ r.rc # 0
  /\ Kind(r.reason, r.patch) \notin
       {"ENGINE_EMPTY_RESPONSE", "ENGINE_PROMPT_TIMEOUT", "ENGINE_SESSION_RUN_CONFLICT",
        "ENGINE_TOOL_LOOP_STALLED_NO_DIFF", "worker_incomplete_diff", "worker_corrupt_diff",
        "IGNORED_PATH_CHANGES", "ENGINE_PROVIDER_AUTH"}
=============================================================================
