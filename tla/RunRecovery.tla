----------------------------- MODULE RunRecovery -----------------------------
(* The end of one run, and what a restart of the API server makes of it      *)
(* (core/execution/run_recovery.py, core/phases/finalize.py, api/main.py).   *)
(* The worker's prompt is EnginePrompt's.  The run lives in the API server   *)
(* or in a process of its own, and either process may die at any step.  When *)
(* the server starts it takes up the runs it believes orphaned and deletes   *)
(* the engine sessions that ended runs have left; its reaper blocks the runs *)
(* whose lease it takes.  Left out: the heartbeats, by which a run learns of *)
(* that (RunHeartbeat), the repair loop (RunPipeline), of which only a later *)
(* attempt's edits are seen, and the outbox (Outbox).                        *)
EXTENDS EnginePrompt

CONSTANTS Homes    \* where the run may live: a subset of {"api", "cli"}

ASSUME HomesAssumption == Homes \subseteq {"api", "cli"}

VARIABLES
  home,      \* the process of the run
  pc,        \* the steps of the run and of the API server's start
  file,      \* status.json: the run status; "blocked" with its active blocker
  events,    \* events.jsonl: the events that recovery and clean-up look at
  worker,    \* the workers of the blackboard: "none", "completed" or "failed"
  tree,      \* the run branch: "clean", "edited" or "committed"
  prs,       \* the pull requests asked for
  term,      \* the reaper and this run: "", "write" (it has read the file) or "over"
  swept,     \* the session the clean-up has deleted, 0 for none
  gone       \* the sessions with an event of their deletion

rcVars == <<home, pc, file, events, worker, tree, prs, term, swept, gone>>
allVars == <<epVars, rcVars>>

Who == {"run", "api"}
Points == {"work", "review", "verify", "commit", "push", "publish", "note", "complete", "sync",
           "sweep", "unmark", "idle", "ended", "down"}
MaxPrs == 2      \* bound on the requests counted
Terminal == {"blocked", "completed"}

(* The kinds of the variables.                                               *)
TypeOK ==
  /\ EpTypeOK
  /\ home \in {"api", "cli"} /\ pc \in [Who -> Points]
  /\ file \in {"running"} \union Terminal
  /\ events \subseteq {"run.completed", "run.blocked", "github_pull_request.created"}
  /\ worker \in {"none", "completed", "failed"} /\ tree \in {"clean", "edited", "committed"}
  /\ prs \in 0 .. MaxPrs /\ term \in {"", "write", "over"}
  /\ swept \in {0} \union Sessions /\ gone \subseteq Sessions

(* A run of another process is looked at once its worker is done: until then *)
(* a restart of the API server leaves it alone.                              *)
Init ==
  /\ EpInit /\ home \in Homes
  /\ \/ home = "api" /\ pc = [run |-> "work", api |-> "idle"]
        /\ worker = "none" /\ tree = "clean"
     \/ home = "cli" /\ pc = [run |-> "review", api |-> "idle"]
        /\ worker = "completed" /\ tree = "edited"
  /\ file = "running" /\ events = {}
  /\ prs = 0 /\ term = "" /\ swept = 0 /\ gone = {}

-----------------------------------------------------------------------------
Goto(w, p) == pc' = [pc EXCEPT ![w] = p]
(* After its last step the run is over, and recovery goes on to the          *)
(* sessions.                                                                 *)
Leave(w) == Goto(w, IF w = "run" THEN "ended" ELSE "sweep")
(* block_run: the status, then the event.                                    *)
Block(w) ==
  /\ file' = "blocked" /\ events' = events \union {"run.blocked"}
  /\ Leave(w)

(* The prompt goes on in the process of the run.                             *)
Prompts ==
  /\ pc["run"] = "work"
  /\ PromptStep
  /\ UNCHANGED rcVars

(* The pool gives the worker up, its thread deletes the session, and the     *)
(* engine's runs end.                                                        *)
Others ==
  /\ \/ pc["run"] = "work" /\ GiveUp
     \/ pc["run"] # "down" /\ (CancelDeletes \/ CancelPops)
     \/ \E s \in Sessions : EngineEnds(s)
  /\ UNCHANGED rcVars

(* The worker's result: its edits are copied to the run branch and the       *)
(* blackboard and the status are saved, or the run is blocked, whether the   *)
(* prompt failed or its answer was rejected (WorkerVerdict).  What the       *)
(* prompt kept in memory is not needed any more.                             *)
WorkerDone ==
  /\ pc["run"] = "work" /\ at = "over" /\ cancel = Quiet
  /\ \/ /\ answer.reason = ""
        /\ worker' = "completed" /\ tree' = "edited" /\ file' = "running"
        /\ Goto("run", "review") /\ UNCHANGED events
     \/ worker' = "failed" /\ Block("run") /\ UNCHANGED tree
  /\ answer' = NoAnswer /\ why' = "" /\ attempt' = 0 /\ then' = "sync" /\ made' = 0
  /\ UNCHANGED <<at, sess, live, busy, marker, current, cancel, leaked, crossed,
                 home, prs, term, swept, gone>>

(* The review lets the run pass, or blocks it, or has it repaired: further   *)
(* edits, and a review of them.                                              *)
Review ==
  /\ pc["run"] = "review"
  /\ \/ Goto("run", "commit") /\ file' = "running" /\ UNCHANGED <<events, tree>>
     \/ tree' = "edited" /\ file' = "running" /\ UNCHANGED <<events, pc>>
     \/ Block("run") /\ UNCHANGED tree
  /\ UNCHANGED <<epVars, home, worker, prs, term, swept, gone>>

-----------------------------------------------------------------------------
(* finalize_completed_run, by the run or by recovery *)

(* Mutant: the head of the branch is taken for the run's commit.             *)
CommitHead(w) ==
  /\ pc[w] = "commit"
  /\ \/ tree' = "committed" /\ Goto(w, "push") /\ UNCHANGED <<file, events>>
     \/ Block(w) /\ UNCHANGED tree
  /\ UNCHANGED <<epVars, home, worker, prs, term, swept, gone>>

(* commit_repository_changes, unless the repository is on another branch.    *)
(* Without a change there is nothing to push and no pull request to ask for. *)
Commit(w) ==
  /\ pc[w] = "commit"
  /\ \/ /\ tree' = "committed" /\ Goto(w, IF tree = "edited" THEN "push" ELSE "complete")
        /\ UNCHANGED <<file, events>>
     \/ Block(w) /\ UNCHANGED tree
  /\ UNCHANGED <<epVars, home, worker, prs, term, swept, gone>>

Push(w) ==
  /\ pc[w] = "push"
  /\ \/ Goto(w, "publish") /\ UNCHANGED <<file, events>>
     \/ Block(w)
  /\ UNCHANGED <<epVars, home, worker, tree, prs, term, swept, gone>>

(* _enqueue_and_dispatch_pr: the request goes to the outbox; with an answer, *)
(* the status is written, and then the event.                                *)
Publish(w) ==
  /\ pc[w] = "publish"
  /\ prs < MaxPrs /\ prs' = prs + 1
  /\ \/ file' = "running" /\ Goto(w, "note") /\ UNCHANGED events
     \/ Block(w)
  /\ UNCHANGED <<epVars, home, worker, tree, term, swept, gone>>

Note(w) ==
  /\ pc[w] = "note" /\ Goto(w, "complete")
  /\ events' = events \union {"github_pull_request.created"}
  /\ UNCHANGED <<epVars, home, file, worker, tree, prs, term, swept, gone>>

Complete(w) ==
  /\ pc[w] = "complete" /\ Goto(w, "sync")
  /\ file' = "completed"
  /\ UNCHANGED <<epVars, home, events, worker, tree, prs, term, swept, gone>>

(* The remote sync may fail; then the completed run is blocked.              *)
Sync(w) ==
  /\ pc[w] = "sync"
  /\ \/ events' = events \union {"run.completed"} /\ Leave(w) /\ UNCHANGED file
     \/ Block(w)
  /\ UNCHANGED <<epVars, home, worker, tree, prs, term, swept, gone>>

Finalize(w) == Commit(w) \/ Push(w) \/ Publish(w) \/ Note(w) \/ Complete(w) \/ Sync(w)

-----------------------------------------------------------------------------
(* The start of the API server *)

(* _restart_orphan_is_recoverable.  Nothing asks whether the run is alive.   *)
Recoverable ==
  /\ file = "running"
  /\ events = {}
  /\ worker = "completed"

(* recover_restart_orphaned_runs, then the clean-up.                         *)
Start ==
  /\ pc["api"] = "down"
  /\ Goto("api", IF Recoverable THEN "verify" ELSE "sweep")
  /\ UNCHANGED <<epVars, home, file, events, worker, tree, prs, term, swept, gone>>

(* _record_recovered_verification: whatever it comes to, the run goes on to  *)
(* its end, unless something raises.                                         *)
Verify ==
  /\ pc["api"] = "verify"
  /\ \/ file' = "running" /\ Goto("api", "commit")
     \/ Goto("api", "sweep") /\ UNCHANGED file
  /\ UNCHANGED <<epVars, home, events, worker, tree, prs, term, swept, gone>>

(* recover_restart_orphaned_run takes whatever finalize_completed_run raises.*)
Raises ==
  /\ pc["api"] \in {"commit", "push", "publish", "complete", "sync"}
  /\ Goto("api", "sweep")
  /\ UNCHANGED <<epVars, home, file, events, worker, tree, prs, term, swept, gone>>

(* _terminal_engine_sessions, without those that have an event of their      *)
(* deletion.                                                                 *)
SweepDue == file \in Terminal /\ marker \notin {0} \union gone

(* Mutant: the entry goes although the session did not.                      *)
SweepForgets ==
  /\ pc["api"] = "sweep"
  /\ IF SweepDue
     THEN \E ok \in BOOLEAN :
            /\ Delete(marker, ok)
            /\ gone' = gone \union {marker} /\ swept' = marker /\ Goto("api", "unmark")
     ELSE Goto("api", "idle") /\ UNCHANGED <<live, busy, gone, swept>>
  /\ UNCHANGED <<at, then, attempt, sess, made, marker, why, answer, current, cancel, leaked,
                 crossed, home, file, events, worker, tree, prs, term>>

(* cleanup_terminal_orphaned_engine_sessions: the recorded session of an     *)
(* ended run is deleted, with an event, unless there is such an event; a     *)
(* session that cannot be deleted is recorded again.                         *)
Sweep ==
  /\ pc["api"] = "sweep"
  /\ IF SweepDue
     THEN \E ok \in BOOLEAN :
            /\ Delete(marker, ok)
            /\ gone' = IF ok THEN gone \union {marker} ELSE gone
            /\ swept' = IF ok THEN marker ELSE 0
            /\ Goto("api", IF ok THEN "unmark" ELSE "idle")
     ELSE Goto("api", "idle") /\ UNCHANGED <<live, busy, gone, swept>>
  /\ UNCHANGED <<at, then, attempt, sess, made, marker, why, answer, current, cancel, leaked,
                 crossed, home, file, events, worker, tree, prs, term>>

(* _remove_active_session_marker compares the session.                       *)
Unmark ==
  /\ pc["api"] = "unmark" /\ Goto("api", "idle")
  /\ marker' = IF marker = swept THEN 0 ELSE marker
  /\ swept' = 0
  /\ UNCHANGED <<at, then, attempt, sess, made, live, busy, why, answer, current, cancel, leaked,
                 crossed, home, file, events, worker, tree, prs, term, gone>>

ApiStep == Verify \/ Finalize("api") \/ Raises \/ Sweep \/ Unmark

(* _terminalize_expired_coordination_run, once for the lease of the run: the *)
(* status is read, and written later.                                        *)
TermRead ==
  /\ pc["api"] # "down" /\ term = ""
  /\ term' = IF file = "running" THEN "write" ELSE "over"
  /\ UNCHANGED <<epVars, home, pc, file, events, worker, tree, prs, swept, gone>>

TermWrite ==
  /\ pc["api"] # "down" /\ term = "write" /\ term' = "over"
  /\ file' = "blocked" /\ events' = events \union {"run.blocked"}
  /\ UNCHANGED <<epVars, home, pc, worker, tree, prs, swept, gone>>

(* A process dies: the API server, with its run if that lives there, or the  *)
(* process of the run alone.  Nothing in memory is left.                     *)
Dies(p) ==
  /\ pc[IF p = "cli" THEN "run" ELSE "api"] # "down" /\ p \in {"api", home}
  /\ pc' = [w \in Who |-> IF p = (IF w = "run" THEN home ELSE "api")
                          THEN "down" ELSE pc[w]]
  /\ term' = IF p = "api" /\ term = "write" THEN "over" ELSE term
  /\ swept' = IF p = "api" THEN 0 ELSE swept
  /\ IF p = home
     THEN /\ at' = "over" /\ sess' = 0 /\ cancel' = Quiet
          /\ answer' = NoAnswer /\ why' = "" /\ attempt' = 0 /\ then' = "sync" /\ made' = 0
     ELSE UNCHANGED <<at, sess, cancel, answer, why, attempt, then, made>>
  /\ UNCHANGED <<live, busy, marker, current, leaked, crossed, home, file, events, worker,
                 tree, prs, gone>>

RunStep == Prompts \/ WorkerDone \/ Review \/ Finalize("run")

Next ==
  \/ RunStep \/ Others \/ ApiStep \/ Start \/ TermRead \/ TermWrite
  \/ \E p \in {"api", "cli"} : Dies(p)

Spec == Init /\ [][Next]_allVars
(* Every call to the engine is made under a timeout, so the prompt goes on   *)
(* while its process lives.                                                  *)
FairSpec == Spec /\ WF_allVars(Prompts)

-----------------------------------------------------------------------------
(* Properties *)

(* Once the prompt is over, or its process is dead, every session that the   *)
(* engine still has is recorded where the next start finds it, through all   *)
(* crashes and clean-ups, unless it was replaced after its deletion had      *)
(* failed, or lost its entry to the pool's thread.                           *)
OrphansStayRecorded ==
  at = "over" /\ cancel.step = "" /\ ~crossed => live \ leaked \subseteq {marker}

(* A run that lives in the API server asks for one pull request, however     *)
(* often the server dies between the steps of finalize_completed_run and     *)
(* takes the run up again.                                                   *)
OnePullRequest == home = "api" => prs <= 1

(* stream_tandem_prompt returns, whatever the engine and the pool do.        *)
PromptReturns == (pc["run"] = "work" /\ at = "start") ~> (at = "over")
=============================================================================
