---------------------------- MODULE RunHeartbeat ----------------------------
(***************************************************************************)
(* One run after its claim: how the main thread and the heartbeat thread   *)
(* of a phase find out that the lease is gone, and what the run, the       *)
(* reaper of the API server and `aca lease release` write about the run:   *)
(* the row of the runs table, status.json and the in-memory ctx.status.    *)
(* (core/execution/runner_core.py, core/phases, api/main.py)               *)
(*                                                                         *)
(* Coordination models the lease itself; here it is active until somebody  *)
(* ends it and never active again (Coordination!LeaseStatusIsFinal).       *)
(* Left out: prompts, worktrees, events, the backends that run no phases   *)
(* (coder, Linear comment, pull-request actions), and the second heartbeat *)
(* thread that a phase starts while the call of an older one is still in   *)
(* flight.                                                                 *)
(***************************************************************************)
EXTENDS Naturals

CONSTANTS
    Threshold,  \* COORDINATION_LOST_THRESHOLD
    Flaky       \* bound: whether a call to the database may raise

ASSUME HeartbeatAssumption == Threshold \in Nat \ {0} /\ Flaky \in BOOLEAN

VARIABLES
    lease,      \* leases.status
    row,        \* runs.status
    mem,        \* ctx.status: the run status and the active blocker
    file,       \* status.json, the same two fields
    misses,     \* ctx.consecutive_heartbeat_misses
    lost,       \* ctx.coordination_lost
    phase,      \* the phase the main thread is in
    at,         \* where in that phase it is
    looping,    \* the heartbeat thread of the phase runs
    call,       \* the _touch_coordination call in flight in each thread
    term        \* the terminalization of a reaped run in the API server

hbVars == <<lease, row, mem, file, misses, lost, phase, at, looping, call, term>>

-----------------------------------------------------------------------------
Threads == {"main", "loop"}
RunStatuses == {"running", "blocked", "completed"}

\* Mutant: a reaped lease counts as ended in good order.
OutcomesAndStale == {"completed", "blocked", "stale"}

\* _TERMINAL_LEASE_STATUSES; "failed" and "cancelled" are treated like "blocked".
Outcomes == {"completed", "blocked"}
Docs == [status: RunStatuses, blocker: BOOLEAN]
Phases == {"planning", "dispatch", "integration", "review", "test", "handoff"}
Points == {"enter", "touch", "again", "body", "final", "release", "exited"}

NoCall == [at |-> "off", ctx |-> FALSE, status |-> "running", n |-> 0]

Touch(status, ctx) == [at |-> "beat", ctx |-> ctx, status |-> status, n |-> 0]
Blocked == [status |-> "blocked", blocker |-> TRUE]

\* Mutant: a new run status starts with a clean blocker.
FreshStatus(m, status) == [status |-> status, blocker |-> FALSE]

\* set_status with a run_status and no blocker: the active blocker stays.
WithStatus(m, status) == [m EXCEPT !.status = status]

Calls == [Threads -> [at: {"off", "beat", "lookup", "miss", "row"}, ctx: BOOLEAN,
                      status: RunStatuses, n: 0..Threshold]]

\* The kinds and ranges of the variables.
HbTypeOK ==
    /\ lease \in {"active", "stale", "completed", "blocked"}
    /\ row \in RunStatuses
    /\ mem \in Docs
    /\ file \in Docs
    /\ misses \in 0..Threshold
    /\ lost \in BOOLEAN
    /\ phase \in Phases
    /\ at \in Points
    /\ looping \in BOOLEAN
    /\ call \in Calls
    /\ term \in {"off", "due", "write", "row"}

\* run_task_intake has just marked the task active.
HbInit ==
    /\ lease = "active"
    /\ row = "running"
    /\ mem = [status |-> "running", blocker |-> FALSE]
    /\ file = mem
    /\ misses = 0
    /\ lost = FALSE
    /\ phase = "planning"
    /\ at = "enter"
    /\ looping = FALSE
    /\ call = [th \in Threads |-> NoCall]
    /\ term = "off"

-----------------------------------------------------------------------------
(* _touch_coordination *)

\* heartbeat_lease: None unless the lease is active.  A call with a ctx resets
\* the count and mirrors the lease into status.json, with all of ctx.status.
Beat(th) ==
    /\ call[th].at = "beat"
    /\ IF lease = "active"
       THEN /\ call' = [call EXCEPT ![th].at = "row"]
            /\ misses' = IF call[th].ctx THEN 0 ELSE misses
            /\ file' = IF call[th].ctx THEN mem ELSE file
       ELSE /\ call' = [call EXCEPT ![th].at = "lookup"]
            /\ UNCHANGED <<misses, file>>
    /\ UNCHANGED <<lease, row, mem, lost, phase, at, looping, term>>

\* get_lease: a lease that was released with an outcome is no miss, and the
\* call returns before update_run.
LookupTerminal(th) ==
    /\ call[th].at = "lookup"
    /\ lease \in Outcomes
    /\ call' = [call EXCEPT ![th] = NoCall]
    /\ misses' = IF call[th].ctx THEN 0 ELSE misses
    /\ file' = IF call[th].ctx THEN mem ELSE file
    /\ UNCHANGED <<lease, row, mem, lost, phase, at, looping, term>>

\* Any other answer is a miss; so is a lookup that raises.  The count is read
\* here and written later, as the two threads do.
LookupMiss(th) ==
    /\ call[th].at = "lookup"
    /\ lease = "stale" \/ Flaky
    /\ call' = [call EXCEPT ![th] =
                  IF @.ctx THEN [@ EXCEPT !.at = "miss", !.n = misses]
                  ELSE [@ EXCEPT !.at = "row"]]
    /\ UNCHANGED <<lease, row, mem, file, misses, lost, phase, at, looping, term>>

\* The threshold is reached and the loss was not reported yet.
NowLost(n) == n + 1 >= Threshold /\ ~lost

Miss(th) ==
    /\ call[th].at = "miss"
    /\ LET n == call[th].n IN
       /\ misses' = IF n + 1 <= Threshold THEN n + 1 ELSE Threshold
       /\ IF NowLost(n)
          THEN /\ lost' = TRUE
               /\ mem' = Blocked
               /\ call' = [call EXCEPT ![th].at = "row", ![th].status = "blocked"]
          ELSE /\ call' = [call EXCEPT ![th].at = "row"]
               /\ UNCHANGED <<lost, mem>>
    /\ file' = mem'
    /\ UNCHANGED <<lease, row, phase, at, looping, term>>

\* update_run writes the status it was given, whatever the row says.
UpdateRun(th) ==
    /\ call[th].at = "row"
    /\ row' = call[th].status
    /\ call' = [call EXCEPT ![th] = NoCall]
    /\ UNCHANGED <<lease, mem, file, misses, lost, phase, at, looping, term>>

\* Mutant: an exception of the heartbeat is taken for a miss.
RaiseIsMiss(th) ==
    /\ Flaky
    /\ call[th].at = "beat"
    /\ call' = [call EXCEPT ![th].at = "lookup"]
    /\ UNCHANGED <<lease, row, mem, file, misses, lost, phase, at, looping, term>>

\* The database raises.  Nothing catches it in the heartbeat thread, which dies;
\* in the main thread the wrapper of the run does, and blocks the run.
TouchRaises(th) ==
    /\ Flaky
    /\ call[th].at \in {"beat", "row"}
    /\ call' = [call EXCEPT ![th] = NoCall]
    /\ IF th = "loop"
       THEN /\ looping' = FALSE
            /\ UNCHANGED <<row, mem, file, at>>
       ELSE /\ mem' = Blocked
            /\ file' = Blocked
            /\ row' = "blocked"
            /\ at' = "release"
            /\ UNCHANGED looping
    /\ UNCHANGED <<lease, misses, lost, phase, term>>

-----------------------------------------------------------------------------
(* The main thread: the phases of one attempt of the repair loop *)

\* Mutant: the flag is not looked at.
LossIgnored == FALSE

\* The checks of ctx.coordination_lost in the repair loop.
LossSeen == lost

\* The phases that set the run status to "running" when they begin; the active
\* blocker of ctx.status stays.
SetsRunning == {"dispatch", "review", "test"}

\* block_run, with its own update_run.
BlockRun ==
    /\ mem' = Blocked
    /\ file' = Blocked
    /\ row' = "blocked"
    /\ at' = "release"
    /\ UNCHANGED <<lease, misses, lost, phase, looping, call, term>>

\* The check at the top of the loop.
LostAtLoopTop ==
    /\ phase = "planning" /\ at = "enter"
    /\ LossSeen
    /\ BlockRun

\* A phase begins: status, then the touch that _coordination_heartbeat makes.
EnterPhase ==
    /\ at = "enter"
    /\ phase # "handoff"
    /\ phase = "planning" => ~LossSeen
    /\ mem' = IF phase \in SetsRunning THEN WithStatus(mem, "running") ELSE mem
    /\ file' = mem'
    /\ call' = [call EXCEPT !["main"] = Touch("running", TRUE)]
    /\ at' = "touch"
    /\ UNCHANGED <<lease, row, misses, lost, phase, looping, term>>

\* Review and test touch once for the transition and once for the heartbeat.
TouchAgain ==
    /\ at = "touch"
    /\ call["main"].at = "off"
    /\ phase \in {"review", "test"}
    /\ call' = [call EXCEPT !["main"] = Touch("running", TRUE)]
    /\ at' = "again"
    /\ UNCHANGED <<lease, row, mem, file, misses, lost, phase, looping, term>>

StartLoop ==
    /\ at = "again" \/ (at = "touch" /\ phase \notin {"review", "test"})
    /\ call["main"].at = "off"
    /\ looping' = TRUE
    /\ at' = "body"
    /\ UNCHANGED <<lease, row, mem, file, misses, lost, phase, call, term>>

LoopTouch ==
    /\ looping
    /\ call["loop"].at = "off"
    /\ call' = [call EXCEPT !["loop"] = Touch("running", TRUE)]
    /\ UNCHANGED <<lease, row, mem, file, misses, lost, phase, at, looping, term>>

\* The prompt or the workers are done; the thread is told to stop and joined for
\* two seconds at most.  What follows is decided by the phase: planning blocks a
\* run whose status is "blocked", dispatch a run that lost its lease.
NextPhase ==
    [planning |-> {"dispatch"}, dispatch |-> {"planning", "integration"},
     integration |-> {"planning", "review"}, review |-> {"test"},
     test |-> {"planning", "handoff"}, handoff |-> {}]

GoOn ==
    /\ at = "body"
    /\ phase = "planning" => mem.status # "blocked"
    /\ phase = "dispatch" => ~LossSeen
    /\ looping' = FALSE
    /\ at' = "enter"
    /\ phase' \in NextPhase[phase]
    /\ UNCHANGED <<lease, row, mem, file, misses, lost, call, term>>

LostAfterDispatch ==
    /\ at = "body" /\ phase = "dispatch"
    /\ LossSeen
    /\ looping' = FALSE
    /\ mem' = Blocked
    /\ file' = Blocked
    /\ row' = "blocked"
    /\ at' = "release"
    /\ UNCHANGED <<lease, misses, lost, phase, call, term>>

\* The _block_ helpers, for whatever reason the phase has: status, then a touch
\* without a ctx.
BlockPhase ==
    /\ at = "body"
    /\ phase # "review"
    /\ phase = "dispatch" => ~LossSeen
    /\ looping' = FALSE
    /\ mem' = Blocked
    /\ file' = Blocked
    /\ call' = [call EXCEPT !["main"] = Touch("blocked", FALSE)]
    /\ at' = "final"
    /\ UNCHANGED <<lease, row, misses, lost, phase, term>>

\* finalize: the status becomes completed, an active blocker stays; the touch has
\* no ctx either.
Handoff ==
    /\ phase = "handoff" /\ at = "enter"
    /\ mem' = WithStatus(mem, "completed")
    /\ file' = mem'
    /\ call' = [call EXCEPT !["main"] = Touch("completed", FALSE)]
    /\ at' = "final"
    /\ UNCHANGED <<lease, row, misses, lost, phase, looping, term>>

\* _complete_pre_satisfied: the repository already has what the plan asks for, and
\* the run completes without a dispatch and without a touch.
CompletePreSatisfied ==
    /\ at = "body" /\ phase = "planning"
    /\ mem.status # "blocked"
    /\ looping' = FALSE
    /\ phase' = "handoff"
    /\ mem' = WithStatus(mem, "completed")
    /\ file' = mem'
    /\ at' = "final"
    /\ UNCHANGED <<lease, row, misses, lost, call, term>>

\* The commit, the push or the pull request fails before the run is completed, or
\* the remote sync fails after it: block_run.
HandoffFails ==
    /\ phase = "handoff" /\ at \in {"enter", "final"}
    /\ call["main"].at = "off"
    /\ BlockRun

FinalTouchDone ==
    /\ at = "final"
    /\ call["main"].at = "off"
    /\ at' = "release"
    /\ UNCHANGED <<lease, row, mem, file, misses, lost, phase, looping, call, term>>

\* _final_lease_release_decision over ctx.status and status.json.
ReleaseDecision(m, f) ==
    IF m.blocker \/ f.blocker \/ m.status # "completed" THEN "blocked" ELSE "completed"

ReleaseLease ==
    /\ at = "release"
    /\ lease' = IF lease = "active" THEN ReleaseDecision(mem, file) ELSE lease
    /\ at' = "exited"
    /\ UNCHANGED <<row, mem, file, misses, lost, phase, looping, call, term>>

-----------------------------------------------------------------------------
(* The others *)

\* A reaper takes the lease; the one in the API server then looks at the run.
Reap ==
    /\ lease = "active"
    /\ lease' = "stale"
    /\ term' \in {"off", "due"}
    /\ UNCHANGED <<row, mem, file, misses, lost, phase, at, looping, call>>

\* `aca lease release --status ...`
CliRelease ==
    /\ lease = "active"
    /\ lease' \in {"stale"} \cup Outcomes
    /\ UNCHANGED <<row, mem, file, misses, lost, phase, at, looping, call, term>>

\* _terminalize_expired_coordination_run: status.json is read, then written, then
\* the row is updated.
TermRead ==
    /\ term = "due"
    /\ term' = IF file.status = "running" THEN "write" ELSE "off"
    /\ UNCHANGED <<lease, row, mem, file, misses, lost, phase, at, looping, call>>

TermWrite ==
    /\ term = "write"
    /\ file' = Blocked
    /\ term' = "row"
    /\ UNCHANGED <<lease, row, mem, misses, lost, phase, at, looping, call>>

TermRow ==
    /\ term = "row"
    /\ row' = "blocked"
    /\ term' = "off"
    /\ UNCHANGED <<lease, mem, file, misses, lost, phase, at, looping, call>>

-----------------------------------------------------------------------------
TouchStep(th) ==
    Beat(th) \/ LookupTerminal(th) \/ LookupMiss(th) \/ Miss(th) \/ UpdateRun(th)

\* The steps of the main thread that do not wait for the engine.
MainStep ==
    \/ LostAtLoopTop
    \/ EnterPhase
    \/ TouchAgain
    \/ StartLoop
    \/ Handoff
    \/ HandoffFails
    \/ FinalTouchDone
    \/ ReleaseLease

\* The end of an engine call.
EndPhase == GoOn \/ LostAfterDispatch \/ BlockPhase \/ CompletePreSatisfied

Environment == Reap \/ CliRelease \/ TermRead \/ TermWrite \/ TermRow

HbNext ==
    \/ \E th \in Threads : TouchStep(th) \/ TouchRaises(th)
    \/ MainStep
    \/ LoopTouch
    \/ EndPhase
    \/ Environment

HbSpec == HbInit /\ [][HbNext]_hbVars

\* The threads of a live process run on; an engine call may take for ever.
Fairness ==
    /\ \A th \in Threads : WF_hbVars(TouchStep(th))
    /\ WF_hbVars(MainStep)
    /\ WF_hbVars(LoopTouch)

FairSpec == HbSpec /\ Fairness

\* Engine calls end: every prompt and every worker has a timeout.
EngineAnswers == WF_hbVars(EndPhase)

-----------------------------------------------------------------------------
(* Properties *)

\* A run believes its lease lost only when it is: neither a database that raises
\* nor the race of the two threads on the miss count makes it give up a lease
\* that it still holds.
LostMeansGone == lost => lease # "active"

\* Once the loss is reported the run carries its blocker, in memory and in
\* status.json, to the end, although the phases go on setting the run status and
\* the API server writes the file as well.
LossStaysVisible == lost => mem.blocker /\ file.blocker

\* A run whose lease was reaped learns it, even if the engine call it waits for
\* never ends, unless an exception of the database has ended its heartbeat thread
\* during that call.
LossNoticed ==
    lease = "stale" ~> \/ lost
                       \/ at = "exited"
                       \/ at = "body" /\ ~looping

\* A run that has learnt it ends, from whichever phase it is in, if engine calls
\* end.
LostRunLeaves == EngineAnswers => (lost ~> at = "exited")
=============================================================================
