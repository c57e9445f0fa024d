---------------------------- MODULE EnginePrompt ----------------------------
(* One prompt of a sub-worker to the Tandem engine, with its recoveries      *)
(* (stream_tandem_prompt of core/execution/worker.py, sdk_stream_run_text of *)
(* core/engine/tandem_client_sdk.py).  The prompt runs in a session of the   *)
(* engine whose runs may edit the worker's worktree.  When a session stays   *)
(* silent it is replaced by another one.  The session in use is recorded in  *)
(* active_worker_engine_sessions.json, where the pool that gives the worker  *)
(* up finds it and deletes it in a thread of its own                         *)
(* (core/phases/worker_dispatch.py).                                         *)
EXTENDS Naturals, FiniteSets

CONSTANTS
  SyncFirst,    \* the values of ACA_WORKER_PROMPT_SYNC_FIRST, and of the switch by
  FailFast      \* which a worker without any activity is given up at once

ASSUME EnginePromptAssumption ==
  SyncFirst \subseteq BOOLEAN /\ FailFast \subseteq BOOLEAN

VARIABLES
  at,        \* the step of the prompt
  then,      \* the step after a session was created
  attempt,   \* the async attempts made
  sess,      \* session_id, 0 for none
  made,      \* the sessions created
  live,      \* the sessions the engine has
  busy,      \* the sessions with a run, which may edit the worktree
  marker,    \* the recorded session of the worker, 0 for none
  why,       \* stream_reason
  answer,    \* the result: its failure reason, "" for a success, and whether there is text
  current,   \* the worker's attempt is the current one
  cancel,    \* the deleting thread of the pool: "", "delete" or "pop", and its session
  leaked,    \* history: the sessions whose deletion failed when they were replaced
  crossed    \* history: the pool's thread overwrote the entry of another session

epVars == <<at, then, attempt, sess, made, live, busy, marker, why, answer, current,
            cancel, leaked, crossed>>

Sessions    == 1 .. 4
Steps == {"start", "create", "sync", "again", "async", "retry", "fallback", "fsync", "finally",
          "over"}
(* TERMINAL_ENGINE_STREAM_REASONS.                                           *)
TerminalReasons == {"timeout", "no_text_timeout", "dispatch_timeout", "cancelled"}
(* The other ways a stream ends without text; "": it completed.              *)
SilentReasons == {"empty_stream_timeout", "no_activity_timeout", "max_events_without_text"}
StreamReasons ==
  TerminalReasons \union SilentReasons \union {"", "session_run_conflict", "inactive"}
Reasons == {"", "RUN_ENDED", "ENGINE_EXCEPTION", "ENGINE_EMPTY_RESPONSE", "ENGINE_PROMPT_TIMEOUT",
            "ENGINE_SESSION_RUN_CONFLICT", "ENGINE_TOOL_LOOP_STALLED", "ENGINE_RUN_CANCELLED",
            "ENGINE_WORKSPACE_UNREACHABLE", "ENGINE_NO_ACTIVITY_RESPONSE"}
NoAnswer == [reason |-> "RUN_ENDED", text |-> FALSE]
Quiet    == [step |-> "", of |-> 0]

(* The kinds of the variables: a prompt uses at most four sessions, and what *)
(* the engine runs, it has.                                                  *)
EpTypeOK ==
  /\ at \in Steps /\ then \in Steps /\ attempt \in 0 .. 1
  /\ sess \in {0} \union Sessions /\ made \in 0 .. 4
  /\ live \subseteq Sessions /\ busy \subseteq live
  /\ marker \in {0} \union Sessions
  /\ why \in StreamReasons
  /\ answer \in [reason : Reasons, text : BOOLEAN]
  /\ current \in BOOLEAN
  /\ cancel \in [step : {"", "delete", "pop"}, of : {0} \union Sessions]
  /\ leaked \subseteq Sessions /\ crossed \in BOOLEAN

FirstStep == {IF b THEN "sync" ELSE "async" : b \in SyncFirst}

EpInit ==
  /\ at = "start" /\ then \in FirstStep
  /\ attempt = 0 /\ sess = 0 /\ made = 0 /\ live = {} /\ busy = {} /\ marker = 0
  /\ why = "" /\ answer = NoAnswer /\ current = TRUE /\ cancel = Quiet /\ leaked = {}
  /\ crossed = FALSE

-----------------------------------------------------------------------------
Return(reason, text) ==
  at' = "finally" /\ answer' = [reason |-> reason, text |-> text]
(* delete_tandem_session under a timeout: a call that timed out may have     *)
(* gone through.  A failure is not looked at when the session is replaced.   *)
Delete(s, ok) ==
  \/ live' = live \ {s} /\ busy' = busy \ {s}
  \/ ~ok /\ UNCHANGED <<live, busy>>
(* Prompts to a session leave a run behind when the time is over.            *)
Leaves(o) ==
  busy' = IF sess \in live /\ o \in SilentReasons \union
               {"timeout", "conflict", "lost", "no_text_timeout", "dispatch_timeout"}
          THEN busy \union {sess} ELSE busy \ {sess}

(* The first checks: a worker that was given up does not begin.              *)
Begin ==
  /\ at = "start"
  /\ IF current THEN at' = "create" /\ UNCHANGED answer
     ELSE at' = "over" /\ answer' = NoAnswer
  /\ UNCHANGED <<then, attempt, sess, made, live, busy, marker, why, current, cancel,
                 leaked, crossed>>

(* create_tandem_session, tried three times for the first session, and       *)
(* _mark_active_worker_engine_session.                                       *)
Create ==
  /\ at = "create"
  /\ \/ /\ made' = made + 1 /\ sess' = made + 1
        /\ live' = live \union {made + 1} /\ marker' = made + 1
        /\ at' = then /\ UNCHANGED answer
     \/ /\ Return("ENGINE_EXCEPTION", FALSE)
        /\ UNCHANGED <<made, sess, live, marker>>
  /\ UNCHANGED <<then, attempt, busy, why, current, cancel, leaked, crossed>>

(* The prompt_sync of a worker that is to write.  After a failure the text   *)
(* may be recovered from the engine's events and messages.                   *)
SyncReason(o, tools) ==
  CASE o = "text" -> "" [] o = "empty" -> "ENGINE_EMPTY_RESPONSE"
    [] o = "timeout" -> "ENGINE_PROMPT_TIMEOUT"
    [] o = "conflict" -> IF tools THEN "ENGINE_TOOL_LOOP_STALLED" ELSE "ENGINE_SESSION_RUN_CONFLICT"
    [] o = "lost" -> IF tools THEN "ENGINE_TOOL_LOOP_STALLED" ELSE "ENGINE_WORKSPACE_UNREACHABLE"

PromptSync ==
  /\ at = "sync"
  /\ \E o \in {"text", "empty", "timeout", "conflict", "lost", "raises"},
        found, tools, dirty \in BOOLEAN :
       /\ Leaves(o)
       /\ IF o = "raises" THEN Return("ENGINE_EXCEPTION", FALSE)
          ELSE IF o = "text" \/ found THEN Return("", TRUE)
          ELSE IF o \in {"empty", "timeout"} /\ ~dirty
          THEN at' = "again" /\ UNCHANGED answer
          ELSE Return(SyncReason(o, tools), FALSE)
  /\ UNCHANGED <<then, attempt, sess, made, live, marker, why, current, cancel, leaked,
                 crossed>>

(* _worker_stop_result: a worker that was given up recovers nothing.         *)
Stopped == ~current

(* Mutant: the silent session is left to its run.                            *)
ReplaceOnly(next, forget) ==
  /\ UNCHANGED <<live, busy, leaked>>
  /\ sess' = IF forget THEN 0 ELSE sess
  /\ at' = "create" /\ then' = next

(* The session is replaced by a fresh one; forget: session_id is emptied     *)
(* before the new session is created.                                        *)
Replace(next, forget) ==
  /\ \E ok \in BOOLEAN :
       /\ Delete(sess, ok)
       /\ leaked' = IF sess \in live' THEN leaked \union {sess} ELSE leaked
  /\ sess' = IF forget THEN 0 ELSE sess
  /\ at' = "create" /\ then' = next

Stop == Return("RUN_ENDED", FALSE)

(* The recovery of prompt_sync through the stream.                           *)
SyncAgain ==
  /\ at = "again"
  /\ \/ Stopped /\ Stop /\ UNCHANGED <<sess, live, busy, then, leaked>>
     \/ ~Stopped /\ Replace("async", FALSE) /\ UNCHANGED answer
  /\ UNCHANGED <<attempt, made, marker, why, current, cancel, crossed>>

(* The last words: what a prompt without text failed with.                   *)
Classified(w) ==
  CASE w \in {"timeout", "dispatch_timeout"} -> "ENGINE_PROMPT_TIMEOUT"
    [] w \in {"no_text_timeout", "max_events_without_text"} -> "ENGINE_TOOL_LOOP_STALLED"
    [] w = "cancelled" -> "ENGINE_RUN_CANCELLED"
    [] OTHER -> "ENGINE_EMPTY_RESPONSE"
(* The text is looked for once more, if there is a session.                  *)
LastLook(reason) ==
  \E found \in BOOLEAN :
    /\ found => sess # 0
    /\ Return(IF found THEN "" ELSE reason, found)

(* _run_async_once: the prompt is dispatched and its events are streamed.  A *)
(* second attempt without a reason of its own keeps the first one's.         *)
RunAsync ==
  /\ at = "async"
  /\ marker' = sess
  /\ \/ /\ \E r \in (StreamReasons \ {"inactive"}) \union {"text", "raises"} :
             /\ ~Stopped
             /\ Leaves(IF r = "session_run_conflict" THEN "conflict" ELSE r)
             /\ IF r = "raises" THEN Return("ENGINE_EXCEPTION", FALSE) /\ UNCHANGED why
                ELSE IF r = "text" THEN Return("", TRUE) /\ UNCHANGED why
                ELSE /\ why' = IF r = "" THEN why ELSE r
                     /\ \/ r = "" /\ Return("", TRUE)
                        \/ why' \in TerminalReasons /\ LastLook(Classified(why'))
                        \/ /\ why' \notin TerminalReasons
                           /\ at' = IF attempt = 0 THEN "retry" ELSE "fallback"
                           /\ UNCHANGED answer
     \/ /\ Stopped /\ why' = "inactive"
        /\ at' = IF attempt = 0 THEN "retry" ELSE "fallback"
        /\ UNCHANGED <<busy, answer>>
  /\ UNCHANGED <<then, attempt, sess, made, live, current, cancel, leaked, crossed>>

(* Mutant: the second attempt is not counted.                                *)
RetryUncounted ==
  /\ at = "retry"
  /\ \/ Stopped /\ Stop /\ UNCHANGED <<attempt, sess, live, busy, then, leaked>>
     \/ /\ ~Stopped
        /\ FALSE \in FailFast \/ why # "no_activity_timeout"
        /\ Replace("async", TRUE) /\ UNCHANGED attempt /\ UNCHANGED answer
     \/ /\ ~Stopped /\ TRUE \in FailFast /\ why = "no_activity_timeout"
        /\ \E ok \in BOOLEAN : Delete(sess, ok)
        /\ leaked' = IF sess \in live' THEN leaked \union {sess} ELSE leaked
        /\ sess' = 0
        /\ Return("ENGINE_NO_ACTIVITY_RESPONSE", FALSE)
        /\ UNCHANGED <<attempt, then>>
  /\ UNCHANGED <<made, marker, why, current, cancel, crossed>>

(* The second attempt, in a fresh session.                                   *)
Retry ==
  /\ at = "retry"
  /\ \/ Stopped /\ Stop /\ UNCHANGED <<attempt, sess, live, busy, then, leaked>>
     \/ /\ ~Stopped
        /\ FALSE \in FailFast \/ why # "no_activity_timeout"
        /\ Replace("async", TRUE) /\ attempt' = 1 /\ UNCHANGED answer
     \/ /\ ~Stopped /\ TRUE \in FailFast /\ why = "no_activity_timeout"
        /\ \E ok \in BOOLEAN : Delete(sess, ok)
        /\ leaked' = IF sess \in live' THEN leaked \union {sess} ELSE leaked
        /\ sess' = 0
        /\ Return("ENGINE_NO_ACTIVITY_RESPONSE", FALSE)
        /\ UNCHANGED <<attempt, then>>
  /\ UNCHANGED <<made, marker, why, current, cancel, crossed>>

(* The fall back to prompt_sync, in the same session unless it was silent.   *)
Fallback ==
  /\ at = "fallback"
  /\ \/ Stopped /\ Stop /\ UNCHANGED <<sess, live, busy, then, leaked>>
     \/ ~Stopped /\ why \in SilentReasons /\ Replace("fsync", FALSE) /\ UNCHANGED answer
     \/ /\ ~Stopped /\ why \notin SilentReasons /\ at' = "fsync"
        /\ UNCHANGED <<sess, live, busy, then, answer, leaked>>
  /\ UNCHANGED <<attempt, made, marker, why, current, cancel, crossed>>

(* Mutant: the conflict is waited for without a deadline.                    *)
FallbackWaits ==
  /\ at = "fsync"
  /\ \E o \in {"text", "empty", "timeout", "conflict", "lost", "raises"} :
       /\ Leaves(o)
       /\ CASE o = "raises" -> Return("ENGINE_EXCEPTION", FALSE)
            [] o = "text"   -> Return("", TRUE)
            [] o = "empty"  -> LastLook(Classified(why))
            [] o = "conflict" -> UNCHANGED <<at, answer>>
            [] OTHER        -> LastLook(SyncReason(o, FALSE))
  /\ UNCHANGED <<then, attempt, sess, made, live, marker, why, current, cancel, leaked,
                 crossed>>

(* A conflict with a run of the session is waited for until the deadline.    *)
FallbackSync ==
  /\ at = "fsync"
  /\ \E o \in {"text", "empty", "timeout", "conflict", "lost", "raises"} :
       /\ Leaves(o)
       /\ CASE o = "raises" -> Return("ENGINE_EXCEPTION", FALSE)
            [] o = "text"   -> Return("", TRUE)
            [] o = "empty"  -> LastLook(Classified(why))
            [] OTHER        -> LastLook(SyncReason(o, FALSE))
  /\ UNCHANGED <<then, attempt, sess, made, live, marker, why, current, cancel, leaked,
                 crossed>>

(* The finally clause: the session is deleted, or recorded as not deleted.   *)
Finally ==
  /\ at = "finally" /\ at' = "over" /\ sess' = 0
  /\ IF sess = 0 THEN UNCHANGED <<live, busy, marker>>
     ELSE \E ok \in BOOLEAN :
            /\ Delete(sess, ok)
            /\ marker' = IF ~ok THEN sess ELSE IF marker = sess THEN 0 ELSE marker
  /\ UNCHANGED <<then, attempt, made, why, answer, current, cancel, leaked, crossed>>

-----------------------------------------------------------------------------
(* A run of the engine ends by itself.                                       *)
EngineEnds(s) ==
  /\ s \in busy /\ busy' = busy \ {s}
  /\ UNCHANGED <<at, then, attempt, sess, made, live, marker, why, answer, current,
                 cancel, leaked, crossed>>

(* _cancel_active_worker_engine_session: the worker is given up, and the     *)
(* session that is recorded now is deleted by a thread.                      *)
GiveUp ==
  /\ current /\ current' = FALSE
  /\ cancel.step = ""
  /\ cancel' = IF marker = 0 THEN cancel ELSE [step |-> "delete", of |-> marker]
  /\ UNCHANGED <<at, then, attempt, sess, made, live, busy, marker, why, answer,
                 leaked, crossed>>

CancelDeletes ==
  /\ cancel.step = "delete"
  /\ \E ok \in BOOLEAN :
       /\ Delete(cancel.of, ok)
       /\ marker' = IF ok THEN marker ELSE cancel.of
       /\ cancel' = IF ok THEN [cancel EXCEPT !.step = "pop"] ELSE Quiet
       /\ crossed' = (crossed \/ (~ok /\ marker \notin {0, cancel.of}))
  /\ UNCHANGED <<at, then, attempt, sess, made, why, answer, current, leaked>>

(* The worker's entry is taken away, whichever session it names by now.      *)
CancelPops ==
  /\ cancel.step = "pop" /\ cancel' = Quiet /\ marker' = 0
  /\ crossed' = (crossed \/ marker \notin {0, cancel.of})
  /\ UNCHANGED <<at, then, attempt, sess, made, live, busy, why, answer, current, leaked>>

PromptStep ==
  \/ Begin \/ Create \/ PromptSync \/ SyncAgain \/ RunAsync \/ Retry \/ Fallback \/ FallbackSync
  \/ Finally
EpNext ==
  \/ PromptStep \/ GiveUp \/ CancelDeletes \/ CancelPops
  \/ \E s \in Sessions : EngineEnds(s)

EpSpec == EpInit /\ [][EpNext]_epVars

-----------------------------------------------------------------------------
(* A worker's worktree is edited by one run of the engine at a time, through *)
(* all the replacements of its sessions, unless the deletion of a replaced   *)
(* session failed.                                                           *)
OneEditor == leaked = {} => Cardinality(busy) <= 1
=============================================================================
