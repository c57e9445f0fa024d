---------------------------- MODULE MCRunPipeline ----------------------------
EXTENDS RunPipeline

Way(kind, reason, sides, patch) ==
    [kind |-> kind, reason |-> reason, sides |-> sides, patch |-> patch,
     named |-> FALSE, gone |-> FALSE, glob |-> FALSE]

Ways ==
    {Way("worker_incomplete_diff", "VERIFIABLE_DIFF_TEST_FAILED", {"src", "test"}, "own"),
     Way("worker_incomplete_diff", "VERIFIABLE_DIFF_MISALIGNED_TEST", {"src", "test"}, "shared"),
     Way("worker_off_track", "OFF_TRACK_TESTLESS_DIFF", {"src"}, "own"),
     Way("worker_incomplete_diff", "TEST_ONLY_DIFF", {"test"}, "shared"),
     Way("worker_runaway_diff", "DESTRUCTIVE_DIFF", {"src", "test"}, "own"),
     Way("engine_prompt_timeout", "ENGINE_PROMPT_TIMEOUT", {"src", "test"}, "shared"),
     Way("engine_empty_response", "ENGINE_EMPTY_RESPONSE", {}, "none"),
     Way("worker_no_progress", "REPAIR_NO_CHANGE", {"src", "test"}, "shared")}

ThreeTasks == {<<"t1", "t2", "t3">>}
=============================================================================
