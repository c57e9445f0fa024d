--------------------------------- MODULE RunProofs ---------------------------------
(***************************************************************************)
(* One run. Its heartbeat, for every threshold and with a database that    *)
(* may raise at any time: a run gives up only a lease that is gone, and    *)
(* once it has, its blocker stays visible. Its repair loop, for every set  *)
(* of plans, of failures and of retry budgets: the loop stays within its   *)
(* bounds, replays no patch that a guard stopped, forgets no planned       *)
(* subtask and keeps rejected edits out.                                   *)
(***************************************************************************)
EXTENDS RunHeartbeat, RunPipeline, WellFoundedInduction, TLAPS

-----------------------------------------------------------------------------
(* The heartbeat *)

\* A call that is past a refused heartbeat, or in whose run the loss was
\* reported, belongs to a lease that is not active any more.
RefusedMeansGone ==
    \A th \in Threads : call[th].at \in {"lookup", "miss"} => lease # "active"

HbIInv == HbTypeOK /\ RefusedMeansGone /\ LostMeansGone /\ LossStaysVisible

-----------------------------------------------------------------------------
\* The ways in which a call in flight changes keep it well typed.
LEMMA CallType ==
    ASSUME NEW c \in Calls, NEW th \in Threads, NEW p \in {"beat", "lookup", "miss", "row"},
           NEW s \in RunStatuses, NEW x \in BOOLEAN, NEW k \in 0..Threshold
    PROVE  /\ [c EXCEPT ![th] = NoCall] \in Calls
           /\ [c EXCEPT ![th] = Touch(s, x)] \in Calls
           /\ [c EXCEPT ![th].at = p] \in Calls
           /\ [c EXCEPT ![th].at = p, ![th].status = s] \in Calls
           /\ [c EXCEPT ![th] = IF @.ctx THEN [@ EXCEPT !.at = p, !.n = k]
                                ELSE [@ EXCEPT !.at = "row"]] \in Calls
<1>1. NoCall \in [at: {"off", "beat", "lookup", "miss", "row"}, ctx: BOOLEAN,
               status: RunStatuses, n: 0..Threshold]
  BY HeartbeatAssumption DEF NoCall, RunStatuses
<1>2. Touch(s, x) \in [at: {"off", "beat", "lookup", "miss", "row"}, ctx: BOOLEAN,
                       status: RunStatuses, n: 0..Threshold]
  BY HeartbeatAssumption DEF Touch
<1>3. c[th] \in [at: {"off", "beat", "lookup", "miss", "row"}, ctx: BOOLEAN,
                 status: RunStatuses, n: 0..Threshold]
  BY DEF Calls
<1>4. /\ [c[th] EXCEPT !.at = p, !.n = k] \in [at: {"off", "beat", "lookup", "miss", "row"},
                 ctx: BOOLEAN, status: RunStatuses, n: 0..Threshold]
      /\ [c[th] EXCEPT !.at = "row"] \in [at: {"off", "beat", "lookup", "miss", "row"},
                 ctx: BOOLEAN, status: RunStatuses, n: 0..Threshold]
  BY <1>3
<1>5. [c EXCEPT ![th] = NoCall] \in Calls /\ [c EXCEPT ![th] = Touch(s, x)] \in Calls
  BY <1>1, <1>2 DEF Calls
<1>6. [c EXCEPT ![th].at = p] \in Calls /\ [c EXCEPT ![th].at = p, ![th].status = s] \in Calls
  BY DEF Calls
<1>7. [c EXCEPT ![th] = IF @.ctx THEN [@ EXCEPT !.at = p, !.n = k]
                        ELSE [@ EXCEPT !.at = "row"]] \in Calls
  BY <1>4 DEF Calls
<1> QED
  BY <1>5, <1>6, <1>7

\* A call that goes on to its next statement stays well typed.
LEMMA CallAtType ==
    ASSUME NEW c \in Calls, NEW th \in Threads, NEW p \in {"beat", "lookup", "miss", "row"}
    PROVE  [c EXCEPT ![th].at = p] \in Calls
  BY DEF Calls

\* Documents the run writes are well typed, and a blocker survives a new status.
LEMMA DocType ==
    ASSUME NEW m \in Docs, NEW s \in RunStatuses
    PROVE  /\ Blocked \in Docs /\ Blocked.blocker
           /\ WithStatus(m, s) \in Docs /\ WithStatus(m, s).blocker = m.blocker
  BY DEF Docs, Blocked, WithStatus, RunStatuses

\* The calls of _touch_coordination keep the types.
LEMMA TouchTypes ==
    ASSUME HbTypeOK, NEW th \in Threads, TouchStep(th) \/ TouchRaises(th)
    PROVE  HbTypeOK'
<1> USE DEF HbTypeOK
<1>1. 0 \in 0..Threshold /\ "running" \in RunStatuses /\ "blocked" \in RunStatuses
  BY HeartbeatAssumption DEF RunStatuses
<1>2. CASE Beat(th)
  <2>1. call' = [call EXCEPT ![th].at = "row"] \/ call' = [call EXCEPT ![th].at = "lookup"]
    BY <1>2 DEF Beat
  <2>2. call' \in Calls
    BY <2>1, CallAtType
  <2> QED
    BY <1>1, <1>2, <2>2 DEF Beat
<1>3. CASE LookupTerminal(th)
  <2>1. call' \in Calls
    BY <1>1, <1>3, CallType DEF LookupTerminal
  <2> QED
    BY <1>1, <1>3, <2>1 DEF LookupTerminal
<1>4. CASE LookupMiss(th)
  <2>1. call' \in Calls
    BY <1>1, <1>4, CallType DEF LookupMiss
  <2> QED
    BY <1>4, <2>1 DEF LookupMiss
<1>5. CASE Miss(th)
  <2>1. call[th].n \in 0..Threshold
    BY DEF Calls
  <2>2. misses' \in 0..Threshold
    BY <1>5, <2>1, HeartbeatAssumption DEF Miss
  <2>3. CASE NowLost(call[th].n)
    <3>1. call' = [call EXCEPT ![th].at = "row", ![th].status = "blocked"]
      BY <1>5, <2>3 DEF Miss
    <3>2. call' \in Calls
      BY <1>1, <3>1, CallType
    <3> QED
      BY <1>1, <1>5, <2>2, <2>3, <3>2, DocType DEF Miss
  <2>4. CASE ~NowLost(call[th].n)
    <3>1. call' \in Calls
      BY <1>1, <1>5, <2>4, CallType DEF Miss
    <3> QED
      BY <1>5, <2>2, <2>4, <3>1 DEF Miss
  <2> QED
    BY <2>3, <2>4
<1>6. CASE UpdateRun(th)
  <2>1. call[th].status \in RunStatuses
    BY DEF Calls
  <2>2. call' \in Calls
    BY <1>1, <1>6, CallType DEF UpdateRun
  <2> QED
    BY <1>6, <2>1, <2>2 DEF UpdateRun
<1>7. CASE TouchRaises(th)
  <2>1. call' \in Calls
    BY <1>1, <1>7, CallType DEF TouchRaises
  <2>2. Blocked \in Docs /\ "release" \in Points
    BY <1>1, DocType DEF Points
  <2> QED
    BY <1>1, <1>7, <2>1, <2>2 DEF TouchRaises
<1> QED
  BY <1>2, <1>3, <1>4, <1>5, <1>6, <1>7 DEF TouchStep

\* The steps of the main thread, of the loop and of the others keep the types.
LEMMA OtherTypes ==
    ASSUME HbTypeOK, MainStep \/ LoopTouch \/ EndPhase \/ Environment
    PROVE  HbTypeOK'
<1> USE DEF HbTypeOK
<1>1. /\ 0 \in 0..Threshold /\ RunStatuses = {"running", "blocked", "completed"}
      /\ Points = {"enter", "touch", "again", "body", "final", "release", "exited"}
      /\ "main" \in Threads /\ "loop" \in Threads
  BY HeartbeatAssumption DEF RunStatuses, Points, Threads
<1>2. /\ Blocked \in Docs
      /\ WithStatus(mem, "running") \in Docs /\ WithStatus(mem, "completed") \in Docs
  BY <1>1, DocType
<1>3. ASSUME NEW th \in Threads, NEW s \in RunStatuses, NEW x \in BOOLEAN
      PROVE  [call EXCEPT ![th] = Touch(s, x)] \in Calls
  BY <1>1, CallType
<1>4. CASE MainStep
  <2>1. CASE LostAtLoopTop
    BY <1>1, <1>2, <2>1 DEF LostAtLoopTop, BlockRun
  <2>2. CASE EnterPhase
    BY <1>1, <1>2, <1>3, <2>2 DEF EnterPhase
  <2>3. CASE TouchAgain
    BY <1>1, <1>3, <2>3 DEF TouchAgain
  <2>4. CASE StartLoop
    BY <1>1, <2>4 DEF StartLoop
  <2>5. CASE Handoff
    BY <1>1, <1>2, <1>3, <2>5 DEF Handoff
  <2>8. CASE HandoffFails
    BY <1>1, <1>2, <1>3, <2>8 DEF HandoffFails, BlockRun
  <2>6. CASE FinalTouchDone
    BY <1>1, <2>6 DEF FinalTouchDone
  <2>7. CASE ReleaseLease
    BY <1>1, <2>7 DEF ReleaseLease, ReleaseDecision
  <2> QED
    BY <1>4, <2>1, <2>2, <2>3, <2>4, <2>5, <2>6, <2>7, <2>8 DEF MainStep
<1>5. CASE LoopTouch
  BY <1>1, <1>3, <1>5 DEF LoopTouch
<1>6. CASE EndPhase
  <2>1. CASE GoOn
    <3>1. NextPhase[phase] \subseteq Phases
      BY DEF NextPhase, Phases
    <3> QED
      BY <1>1, <2>1, <3>1 DEF GoOn
  <2>2. CASE LostAfterDispatch
    BY <1>1, <1>2, <2>2 DEF LostAfterDispatch
  <2>3. CASE BlockPhase
    BY <1>1, <1>2, <1>3, <2>3 DEF BlockPhase
  <2>4. CASE CompletePreSatisfied
    BY <1>1, <1>2, <2>4 DEF CompletePreSatisfied, Phases, Points
  <2> QED
    BY <1>6, <2>1, <2>2, <2>3, <2>4 DEF EndPhase
<1>7. CASE Environment
  BY <1>1, <1>2, <1>7 DEF Environment, Reap, CliRelease, TermRead, TermWrite, TermRow, Outcomes
<1> QED
  BY <1>4, <1>5, <1>6, <1>7

\* Every step keeps the types.
LEMMA HbTypeStep ==
    ASSUME HbTypeOK, [HbNext]_hbVars
    PROVE  HbTypeOK'
<1>1. CASE UNCHANGED hbVars
  BY <1>1 DEF hbVars, HbTypeOK
<1> QED
  BY <1>1, TouchTypes, OtherTypes DEF HbNext

\* No step makes the lease active.
LEMMA NeverRevived ==
    ASSUME HbTypeOK, [HbNext]_hbVars, lease # "active"
    PROVE  lease' = lease
  BY DEF HbNext, TouchStep, Beat, LookupTerminal, LookupMiss, Miss, UpdateRun, TouchRaises,
         MainStep, LostAtLoopTop, BlockRun, EnterPhase, TouchAgain, StartLoop, Handoff,
         HandoffFails, FinalTouchDone, ReleaseLease, LoopTouch, EndPhase, GoOn,
         LostAfterDispatch, BlockPhase, CompletePreSatisfied,
         Environment, Reap, CliRelease, TermRead, TermWrite, TermRow, hbVars

\* A call gets past a refused heartbeat only by being refused.
LEMMA RefusedStep ==
    ASSUME HbTypeOK, RefusedMeansGone, [HbNext]_hbVars
    PROVE  RefusedMeansGone'
<1> SUFFICES ASSUME NEW q \in Threads, call'[q].at \in {"lookup", "miss"}
             PROVE  lease' # "active"
  BY DEF RefusedMeansGone
<1>1. ASSUME call[q].at \in {"lookup", "miss"}
      PROVE  lease' # "active"
  BY <1>1, NeverRevived DEF RefusedMeansGone
<1>2. ASSUME NEW th \in Threads, TouchStep(th) \/ TouchRaises(th)
      PROVE  lease' # "active"
  <2>1. CASE q # th
    <3>1. call'[q] = call[q]
      BY <1>2, <2>1
      DEF HbTypeOK, Calls, TouchStep, TouchRaises, Beat, LookupTerminal, LookupMiss, Miss, UpdateRun
    <3> QED
      BY <1>1, <3>1
  <2>2. CASE q = th /\ Beat(th)
    BY <2>2 DEF Beat, HbTypeOK, Calls
  <2>3. CASE q = th /\ (LookupMiss(th) \/ LookupTerminal(th) \/ Miss(th))
    BY <1>1, <2>3 DEF LookupMiss, LookupTerminal, Miss
  <2>4. CASE q = th /\ (UpdateRun(th) \/ TouchRaises(th))
    BY <2>4 DEF UpdateRun, TouchRaises, HbTypeOK, Calls, NoCall
  <2> QED
    BY <1>2, <2>1, <2>2, <2>3, <2>4 DEF TouchStep
<1>3. CASE MainStep \/ LoopTouch \/ EndPhase
  <2>1. call'[q] = call[q] \/ call'[q].at = "beat"
    BY <1>3
    DEF HbTypeOK, Calls, Touch, MainStep, LostAtLoopTop, BlockRun, EnterPhase, TouchAgain,
        StartLoop, Handoff, HandoffFails, FinalTouchDone, ReleaseLease, LoopTouch, EndPhase, GoOn,
        LostAfterDispatch, BlockPhase, CompletePreSatisfied
  <2> QED
    BY <1>1, <2>1
<1>4. CASE Environment \/ UNCHANGED hbVars
  <2>1. call' = call
    BY <1>4 DEF Environment, Reap, CliRelease, TermRead, TermWrite, TermRow, hbVars
  <2> QED
    BY <1>1, <2>1
<1> QED
  BY <1>2, <1>3, <1>4 DEF HbNext

\* The loss is reported only by a call that was refused.
LEMMA LostStep ==
    ASSUME HbTypeOK, RefusedMeansGone, LostMeansGone, [HbNext]_hbVars
    PROVE  LostMeansGone'
<1>1. ASSUME ~lost, lost'
      PROVE  lease # "active"
  <2>1. PICK th \in Threads : Miss(th)
    BY <1>1
    DEF HbNext, TouchStep, Beat, LookupTerminal, LookupMiss, UpdateRun, TouchRaises,
        MainStep, LostAtLoopTop, BlockRun, EnterPhase, TouchAgain, StartLoop, Handoff,
        HandoffFails, FinalTouchDone, ReleaseLease, LoopTouch, EndPhase, GoOn,
        LostAfterDispatch, BlockPhase, CompletePreSatisfied,
        Environment, Reap, CliRelease, TermRead, TermWrite, TermRow, hbVars
  <2> QED
    BY <2>1 DEF Miss, RefusedMeansGone
<1> QED
  BY <1>1, NeverRevived DEF LostMeansGone

\* Every document written after the loss carries the blocker.
LEMMA VisibleStep ==
    ASSUME HbTypeOK, LossStaysVisible, [HbNext]_hbVars
    PROVE  LossStaysVisible'
<1>1. /\ Blocked.blocker
      /\ WithStatus(mem, "running").blocker = mem.blocker
      /\ WithStatus(mem, "completed").blocker = mem.blocker
  BY DocType DEF HbTypeOK, RunStatuses
<1>2. ASSUME NEW th \in Threads, TouchStep(th) \/ TouchRaises(th)
      PROVE  LossStaysVisible'
  BY <1>1, <1>2
  DEF LossStaysVisible, TouchStep, TouchRaises, Beat, LookupTerminal, LookupMiss, Miss,
  NowLost, UpdateRun
<1>3. CASE MainStep \/ LoopTouch \/ EndPhase
  BY <1>1, <1>3
  DEF LossStaysVisible, MainStep, LostAtLoopTop, BlockRun, EnterPhase, TouchAgain, StartLoop,
      Handoff, HandoffFails, FinalTouchDone, ReleaseLease, LoopTouch, EndPhase, GoOn,
      LostAfterDispatch, BlockPhase, CompletePreSatisfied
<1>4. CASE Environment \/ UNCHANGED hbVars
  BY <1>1, <1>4
  DEF LossStaysVisible, Environment, Reap, CliRelease, TermRead, TermWrite, TermRow, hbVars
<1> QED
  BY <1>2, <1>3, <1>4 DEF HbNext

\* The invariant holds when the run begins to work.
LEMMA HbInvariantInit ==
    ASSUME HbInit
    PROVE  HbIInv
<1>1. call \in Calls /\ \A th \in Threads : call[th].at = "off"
  BY HeartbeatAssumption DEF HbInit, Calls, NoCall, RunStatuses
<1>2. mem \in Docs /\ file \in Docs
  BY DEF HbInit, Docs, RunStatuses
<1>3. /\ lease \in {"active", "stale", "completed", "blocked"}
      /\ row \in RunStatuses /\ phase \in Phases /\ at \in Points
      /\ term \in {"off", "due", "write", "row"}
      /\ lost \in BOOLEAN /\ looping \in BOOLEAN
  BY DEF HbInit, RunStatuses, Phases, Points
<1>4. misses \in 0..Threshold
  BY HeartbeatAssumption DEF HbInit
<1>5. HbTypeOK
  BY <1>1, <1>2, <1>3, <1>4 DEF HbTypeOK
<1>6. RefusedMeansGone
  BY <1>1 DEF RefusedMeansGone
<1>7. LostMeansGone /\ LossStaysVisible
  BY DEF HbInit, LostMeansGone, LossStaysVisible
<1> QED
  BY <1>5, <1>6, <1>7 DEF HbIInv

\* The inductive invariant holds in every reachable state of the run.
THEOREM HbInvariance == HbSpec => []HbIInv
<1>1. HbIInv /\ [HbNext]_hbVars => HbIInv'
  BY HbTypeStep, RefusedStep, LostStep, VisibleStep DEF HbIInv
<1> QED
  BY <1>1, HbInvariantInit, PTL DEF HbSpec

\* The miss count stays within the threshold although both threads change it
\* without a lock (_touch_coordination), and the rest of the run's state in its
\* types.
THEOREM HeartbeatTyping == HbSpec => []HbTypeOK
<1>1. HbIInv => HbTypeOK
  BY DEF HbIInv
<1> QED
  BY <1>1, HbInvariance, PTL

\* A run flips coordination_lost only when its lease is really gone, whatever the
\* threshold, the race of its two threads on the count and the database do.
THEOREM NoFalseLoss == HbSpec => []LostMeansGone
<1>1. HbIInv => LostMeansGone
  BY DEF HbIInv
<1> QED
  BY <1>1, HbInvariance, PTL

\* The coordination_lost blocker stays in ctx.status and in status.json.
THEOREM LossVisible == HbSpec => []LossStaysVisible
<1>1. HbIInv => LossStaysVisible
  BY DEF HbIInv
<1> QED
  BY <1>1, HbInvariance, PTL

-----------------------------------------------------------------------------
(* Numbers and sequences *)

\* A set of naturals that is not empty has a least member.
LEMMA Least ==
    ASSUME NEW T \in SUBSET Nat, T # {}
    PROVE  \E x \in T : \A y \in T : x <= y
<1>1. PICK x \in T : \A y \in T : ~ (<<y, x>> \in OpToRel(<, Nat))
  BY NatLessThanWellFounded, WFMin, Zenon
<1>2. \A y \in T : ~ (y < x)
  BY <1>1 DEF OpToRel
<1> QED
  BY <1>2

\* A bounded one has a greatest.
LEMMA Greatest ==
    ASSUME NEW b \in Nat, NEW T \in SUBSET (0 .. b), T # {}
    PROVE  \E x \in T : \A y \in T : x >= y
<1> DEFINE U == {k \in Nat : b - k \in T}
<1>1. PICK x \in T : TRUE
  OBVIOUS
<1>2. b - x \in U /\ U \in SUBSET Nat
  BY <1>1
<1>3. PICK k \in U : \A j \in U : k <= j
  BY <1>2, Least
<1>4. b - k \in T
  BY <1>3
<1>5. ASSUME NEW y \in T
      PROVE  b - k >= y
  <2>1. b - y \in U /\ y \in 0 .. b /\ k \in Nat
    BY <1>3, <1>5
  <2>2. k <= b - y
    BY <2>1, <1>3
  <2> QED
    BY <2>1, <2>2
<1> QED
  BY <1>4, <1>5

\* Min is a member, of a set of naturals that is not empty;
LEMMA MinIn ==
    ASSUME NEW T \in SUBSET Nat, T # {}
    PROVE  Min(T) \in T
  BY Least DEF Min

\* so is Max, if the set is bounded.
LEMMA MaxIn ==
    ASSUME NEW b \in Nat, NEW T \in SUBSET (0 .. b), T # {}
    PROVE  Max(T) \in T
  BY Greatest DEF Max

\* The same for positions in a sequence.
LEMMA MaxOf ==
    ASSUME NEW b \in Nat, NEW T \in SUBSET (1 .. b), T # {}
    PROVE  Max(T) \in T
<1>1. T \in SUBSET (0 .. b)
  OBVIOUS
<1> QED
  BY <1>1, MaxIn

\* And for the least of them.
LEMMA MinOf ==
    ASSUME NEW b \in Nat, NEW T \in SUBSET (1 .. b), T # {}
    PROVE  Min(T) \in T
<1>1. T \in SUBSET Nat
  OBVIOUS
<1> QED
  BY <1>1, MinIn

\* The greatest member is Max.
LEMMA MaxIs ==
    ASSUME NEW T \in SUBSET Int, NEW x \in T, \A y \in T : x >= y
    PROVE  Max(T) = x
<1>1. Max(T) \in T /\ \A y \in T : Max(T) >= y
  BY DEF Max
<1>2. Max(T) \in Int /\ x \in Int /\ Max(T) >= x /\ x >= Max(T)
  BY <1>1
<1> QED
  BY <1>2

\* What is in a sequence.
LEMMA MemberIs ==
    ASSUME NEW S, NEW s \in Seq(S)
    PROVE  /\ \A i \in 1 .. Len(s) : s[i] \in ToSet(s) /\ s[i] \in S
           /\ \A x \in ToSet(s) : x \in S /\ \E i \in 1 .. Len(s) : x = s[i]
           /\ Len(s) \in Nat
           /\ s = <<>> <=> Len(s) = 0
  BY DEF ToSet

\* An appended element is one more member.
LEMMA ToSetAppend ==
    ASSUME NEW S, NEW s \in Seq(S), NEW e \in S
    PROVE  /\ Append(s, e) \in Seq(S)
           /\ ToSet(Append(s, e)) = ToSet(s) \cup {e}
<1>1. /\ Append(s, e) \in Seq(S) /\ Len(Append(s, e)) = Len(s) + 1
      /\ Append(s, e)[Len(s) + 1] = e
      /\ \A i \in 1 .. Len(s) : Append(s, e)[i] = s[i]
      /\ Len(s) \in Nat
  OBVIOUS
<1> QED
  BY <1>1 DEF ToSet

\* One unfolding of the function that Picked computes.
PickStep(s, I, f, k) ==
    f[k] = IF k = 0 THEN <<>> ELSE IF k \in I THEN Append(f[k - 1], s[k]) ELSE f[k - 1]

\* It has been unfolded up to k, with the right members.
PickedUpTo(S, s, I, f, k) ==
    /\ f \in [0 .. k -> Seq(S)]
    /\ \A j \in 0 .. k : PickStep(s, I, f, j) /\ ToSet(f[j]) = {s[i] : i \in I \cap (1 .. j)}

\* The function exists up to every position.
LEMMA Unrolled ==
    ASSUME NEW S, NEW s \in Seq(S), NEW I
    PROVE  \A k \in 0 .. Len(s) : \E f : PickedUpTo(S, s, I, f, k)
<1> DEFINE Fine(f, k) == \A j \in 0 .. k : /\ PickStep(s, I, f, j)
                                           /\ ToSet(f[j]) = {s[i] : i \in I \cap (1 .. j)}
           Ok(k) == \E f \in [0 .. k -> Seq(S)] : Fine(f, k)
           Bad == {k \in Nat : k <= Len(s) /\ ~Ok(k)}
<1> HIDE DEF Ok
<1>0. Len(s) \in Nat
  OBVIOUS
<1>1. SUFFICES ASSUME Bad # {} PROVE FALSE
  <2>1. \A k \in 0 .. Len(s) : Ok(k)
    BY <1>0, <1>1
  <2> QED
    BY <2>1 DEF Ok, PickedUpTo
<1>2. PICK m \in Bad : \A k \in Bad : m <= k
  <2>1. Bad \in SUBSET Nat
    OBVIOUS
  <2> QED
    BY <1>1, <2>1, Least
<1>3. m \in Nat /\ m <= Len(s) /\ ~Ok(m)
  BY <1>2
<1>4. CASE m = 0
  <2> DEFINE f == [k \in 0 .. 0 |-> <<>>]
  <2>1. f \in [0 .. 0 -> Seq(S)]
    OBVIOUS
  <2>2. ASSUME NEW j \in 0 .. 0
        PROVE  PickStep(s, I, f, j) /\ ToSet(f[j]) = {s[i] : i \in I \cap (1 .. j)}
    <3>1. j = 0 /\ f[j] = <<>> /\ 1 .. j = {}
      OBVIOUS
    <3>2. ToSet(f[j]) = {}
      BY <3>1 DEF ToSet
    <3> QED
      BY <3>1, <3>2 DEF PickStep
  <2>3. Fine(f, 0)
    BY <2>2
  <2>4. Ok(0)
    <3> HIDE DEF Fine, f
    <3> QED
      BY <2>1, <2>3 DEF Ok
  <2> QED
    BY <1>3, <1>4, <2>4
<1>5. CASE m # 0
  <2>1. m - 1 \in Nat /\ m \in 1 .. Len(s) /\ m - 1 <= Len(s)
    BY <1>0, <1>3, <1>5
  <2>2. m - 1 \notin Bad
    BY <1>2, <1>3, <2>1
  <2>3. Ok(m - 1)
    BY <2>1, <2>2
  <2>4. PICK f \in [0 .. m - 1 -> Seq(S)] : Fine(f, m - 1)
    BY <2>3 DEF Ok
  <2> DEFINE new == IF m \in I THEN Append(f[m - 1], s[m]) ELSE f[m - 1]
             g == [k \in 0 .. m |-> IF k = m THEN new ELSE f[k]]
  <2>5. f[m - 1] \in Seq(S) /\ s[m] \in S
    BY <2>1, <2>4
  <2>6. /\ new \in Seq(S)
        /\ ToSet(new) = {s[i] : i \in I \cap (1 .. m)}
    <3>1. ToSet(f[m - 1]) = {s[i] : i \in I \cap (1 .. m - 1)}
      BY <2>1, <2>4
    <3>2. CASE m \in I
      <4>1. I \cap (1 .. m) = (I \cap (1 .. m - 1)) \cup {m}
        BY <2>1, <3>2
      <4>2. new \in Seq(S) /\ ToSet(new) = ToSet(f[m - 1]) \cup {s[m]}
        BY <2>5, <3>2, ToSetAppend
      <4> QED
        BY <3>1, <4>1, <4>2
    <3>3. CASE m \notin I
      <4>1. I \cap (1 .. m) = I \cap (1 .. m - 1)
        BY <2>1, <3>3
      <4> QED
        BY <2>5, <3>1, <3>3, <4>1
    <3> QED
      BY <3>2, <3>3
  <2>7. g \in [0 .. m -> Seq(S)]
    <3> HIDE DEF new
    <3> QED
      BY <2>1, <2>4, <2>6
  <2>8. ASSUME NEW j \in 0 .. m
        PROVE  PickStep(s, I, g, j) /\ ToSet(g[j]) = {s[i] : i \in I \cap (1 .. j)}
    <3>1. CASE j = m
      <4>1. g[j] = new /\ g[j - 1] = f[m - 1]
        BY <1>5, <2>1, <3>1
      <4> QED
        BY <1>5, <2>6, <3>1, <4>1 DEF PickStep
    <3>2. CASE j # m
      <4>1. j \in 0 .. m - 1 /\ g[j] = f[j] /\ (j # 0 => g[j - 1] = f[j - 1])
        BY <2>1, <3>2
      <4>2. PickStep(s, I, f, j) /\ ToSet(f[j]) = {s[i] : i \in I \cap (1 .. j)}
        BY <2>4, <4>1
      <4> QED
        BY <4>1, <4>2 DEF PickStep
    <3> QED
      BY <3>1, <3>2
  <2>9. Fine(g, m)
    BY <2>8
  <2>10. Ok(m)
    <3> HIDE DEF Fine, g
    <3> QED
      BY <2>7, <2>9 DEF Ok
  <2> QED
    BY <1>3, <2>10
<1> QED
  BY <1>4, <1>5

\* Picked yields a sequence of the members at the positions it is given.
LEMMA PickedIs ==
    ASSUME NEW S, NEW s \in Seq(S), NEW I
    PROVE  /\ Picked(s, I) \in Seq(S)
           /\ ToSet(Picked(s, I)) = {s[i] : i \in I \cap (1 .. Len(s))}
<1> DEFINE Def(f) == f = [k \in 0 .. Len(s) |-> IF k = 0 THEN <<>>
                           ELSE IF k \in I THEN Append(f[k - 1], s[k]) ELSE f[k - 1]]
           F == CHOOSE f : Def(f)
<1>0. Len(s) \in 0 .. Len(s)
  OBVIOUS
<1>1. \E f : PickedUpTo(S, s, I, f, Len(s))
  BY <1>0, Unrolled
<1>2. PICK f : PickedUpTo(S, s, I, f, Len(s))
  BY <1>1
<1>3. Def(f)
  BY <1>2 DEF PickStep, PickedUpTo
<1>4. Def(F)
  <2> HIDE DEF Def
  <2> QED
    BY <1>3, Zenon
<1>5. Picked(s, I) = F[Len(s)]
  BY DEF Picked
<1> HIDE DEF F
<1> DEFINE Bad == {k \in Nat : k <= Len(s) /\ F[k] # f[k]}
<1>6. Bad = {}
  <2>1. SUFFICES ASSUME Bad # {} PROVE FALSE
    OBVIOUS
  <2>2. PICK m \in Bad : \A k \in Bad : m <= k
    <3>1. Bad \in SUBSET Nat
      OBVIOUS
    <3> QED
      BY <2>1, <3>1, Least
  <2>3. m \in 0 .. Len(s) /\ F[m] # f[m]
    BY <1>0, <2>2
  <2>4. m # 0 => F[m - 1] = f[m - 1]
    <3>1. SUFFICES ASSUME m # 0 PROVE F[m - 1] = f[m - 1]
      OBVIOUS
    <3>2. m - 1 \in Nat /\ m - 1 <= Len(s) /\ ~(m <= m - 1)
      BY <1>0, <2>3, <3>1
    <3>3. m - 1 \notin Bad
      BY <2>2, <3>2
    <3> QED
      BY <3>2, <3>3
  <2>5. /\ F[m] = IF m = 0 THEN <<>> ELSE IF m \in I THEN Append(F[m - 1], s[m]) ELSE F[m - 1]
        /\ f[m] = IF m = 0 THEN <<>> ELSE IF m \in I THEN Append(f[m - 1], s[m]) ELSE f[m - 1]
    BY <1>3, <1>4, <2>3
  <2> QED
    BY <2>3, <2>4, <2>5
<1>7. F[Len(s)] = f[Len(s)]
  BY <1>0, <1>6
<1> QED
  BY <1>0, <1>2, <1>5, <1>7 DEF PickedUpTo

-----------------------------------------------------------------------------
(* The state of the repair loop *)

\* A subtask's id: a name, and the attempts that renamed it.
Ids == {q \in Seq(Names \cup Nat) : q # <<>> /\ q[1] \in Names}
Reasons == {"none"} \cup {c.reason : c \in Failures}
Paths == Nat \X Nat
Edits == Ids \X Nat
Subtasks == [task : Ids, carry : SUBSET Paths, why : Reasons, drop : BOOLEAN]
Arts == [task : Ids, reason : Reasons, sides : SUBSET BothSides, path : Paths, ok : BOOLEAN]
Saved == [reasons : SUBSET Reasons, edits : SUBSET Edits]
Records == [arts : Seq(Arts), done : SUBSET Ids, deferred : Seq(Subtasks),
            partial : BOOLEAN, used : 0 .. Empty]

\* The reasons of patches that are not to be applied again.
Unsafe == Rewrites \cup {"VERIFIABLE_DIFF_MISALIGNED_TEST"}

\* A subtask carries only patches of kept failures that may be applied again.
FromKept(s, arts) ==
    \A p \in s.carry :
        \E i \in 1 .. Len(arts) : p = arts[i].path /\ (arts[i].ok \/ arts[i].reason \notin Unsafe)

\* Names are ids; a renamed subtask keeps its name.
LEMMA IdType ==
    /\ \A x \in Names : <<x>> \in Ids
    /\ \A q \in Ids : \A k \in Nat : Append(q, k) \in Ids /\ Append(q, k)[1] = q[1]
    /\ \A q \in Ids : q[1] \in Names
<1>1. ASSUME NEW q \in Ids, NEW k \in Nat
      PROVE  Append(q, k) \in Ids /\ Append(q, k)[1] = q[1]
  <2>1. q \in Seq(Names \cup Nat) /\ q # <<>> /\ q[1] \in Names /\ k \in Names \cup Nat
    BY DEF Ids
  <2>2. Append(q, k) \in Seq(Names \cup Nat) /\ Append(q, k)[1] = q[1] /\ Append(q, k) # <<>>
    BY <2>1
  <2> QED
    BY <2>1, <2>2 DEF Ids
<1>2. ASSUME NEW x \in Names
      PROVE  <<x>> \in Ids
  BY <1>2 DEF Ids
<1>3. \A q \in Ids : q[1] \in Names
  BY DEF Ids
<1> QED
  BY <1>1, <1>2, <1>3

\* The three kinds of planned subtasks, and what each carries.
LEMMA SubtaskType ==
    ASSUME NEW id \in Ids, NEW paths \in SUBSET Paths, NEW why \in Reasons
    PROVE  /\ Subtask(id) \in Subtasks /\ Subtask(id).carry = {} /\ Subtask(id).task = id
           /\ Carrying(id, paths, why) \in Subtasks /\ Carrying(id, paths, why).carry = paths
           /\ Dropping(id) \in Subtasks /\ Dropping(id).carry = {}
  BY DEF Subtask, Carrying, Dropping, Subtasks, Reasons

\* What is left of the kept patches once completed subtasks are set aside.
LEMMA ActiveIs ==
    ASSUME NEW arts \in Seq(Arts), NEW done
    PROVE  /\ Active(arts, done) \in Seq(Arts)
           /\ ToSet(Active(arts, done)) \subseteq ToSet(arts)
           /\ arts # <<>> => Active(arts, done) # <<>>
<1> DEFINE I == {i \in 1 .. Len(arts) : arts[i].task \notin done}
           live == Picked(arts, I)
<1>1. live \in Seq(Arts) /\ ToSet(live) = {arts[i] : i \in I \cap (1 .. Len(arts))}
  BY PickedIs
<1>3. Active(arts, done) = IF live = <<>> THEN arts ELSE live
  BY DEF Active
<1> HIDE DEF live
<1>2. ToSet(live) \subseteq ToSet(arts)
  BY <1>1, MemberIs
<1> QED
  BY <1>1, <1>2, <1>3

\* A repair plan is empty or one subtask; it carries only kept patches that may
\* be applied again: by their reason, or by the mark they were kept with.
LEMMA RepairPlanIs ==
    ASSUME NEW kept \in Seq(Arts), NEW done
    PROVE  /\ RepairPlan(kept, done) \in Seq(Subtasks)
           /\ \A i \in 1 .. Len(RepairPlan(kept, done)) : FromKept(RepairPlan(kept, done)[i], kept)
<1> DEFINE arts == Active(kept, done)
           syntax == {i \in 1 .. Len(arts) : arts[i].reason = "SYNTAX_INVALID_DIFF"
                                               /\ arts[i].sides = BothSides}
           failed == {i \in 1 .. Len(arts) : arts[i].reason \in TestFailures
                                               /\ arts[i].sides = BothSides}
           weak == {i \in 1 .. Len(arts) : arts[i].reason \in WeakTests
                                               /\ arts[i].sides = BothSides}
           oneSided == {i \in 1 .. Len(arts) : arts[i].reason \in OneSidedReasons}
           src == {i \in 1 .. Len(arts) : SourceOnly(arts[i])}
           tst == {i \in 1 .. Len(arts) : TestOnlyPatch(arts[i])}
           other == weak \cup oneSided \cup {i \in 1 .. Len(arts) : TimedOut(arts[i])}
           r == RepairPlan(kept, done)
           Fine(s) == s \in Subtasks /\ FromKept(s, kept)
<1>0. /\ arts \in Seq(Arts) /\ Len(arts) \in Nat
      /\ \A i \in 1 .. Len(arts) : arts[i] \in Arts
      /\ \A i \in 1 .. Len(arts) : \E j \in 1 .. Len(kept) : arts[i] = kept[j]
  BY ActiveIs, MemberIs
<1> HIDE DEF arts
<1>1. r = CASE kept = <<>> -> <<>>
            [] syntax # {} -> SyntaxPlan(arts[Max(syntax)])
            [] failed # {} -> FailedPlan(arts[Max(failed)])
            [] ~WeakLater(weak, oneSided) /\ src # {} /\ tst # {} ->
                  <<ComplementaryPlan(arts, Min(src), Min(tst))>>
            [] other # {} -> <<Replay(arts[Max(other)])>>
            [] OTHER -> <<>>
  BY DEF RepairPlan, arts
<1>2. ASSUME NEW i \in 1 .. Len(arts), arts[i].ok \/ arts[i].reason \notin Unsafe
      PROVE  Fine(Carrying(arts[i].task, {arts[i].path}, arts[i].reason))
  <2>1. arts[i] \in Arts
    BY <1>0
  <2>2. arts[i].task \in Ids /\ {arts[i].path} \in SUBSET Paths /\ arts[i].reason \in Reasons
    BY <2>1 DEF Arts
  <2> DEFINE s == Carrying(arts[i].task, {arts[i].path}, arts[i].reason)
  <2>3. s \in Subtasks /\ s.carry = {arts[i].path}
    BY <2>2 DEF Carrying, Subtask, Subtasks
  <2>4. PICK j \in 1 .. Len(kept) : arts[i] = kept[j]
    BY <1>0
  <2> HIDE DEF s
  <2>5. FromKept(s, kept)
    BY <1>2, <2>3, <2>4 DEF FromKept
  <2> QED
    BY <2>3, <2>5 DEF s
<1>3. ASSUME NEW i \in 1 .. Len(arts)
      PROVE  Fine(Dropping(arts[i].task))
  <2>1. arts[i].task \in Ids /\ {} \in SUBSET Paths /\ "none" \in Reasons
    BY <1>0 DEF Arts, Reasons
  <2> QED
    BY <2>1, SubtaskType DEF FromKept
<1>4. ASSUME NEW i \in 1 .. Len(arts), NEW j \in 1 .. Len(arts),
             arts[i].reason \notin Unsafe, arts[j].reason \notin Unsafe
      PROVE  Fine(Carrying(arts[j].task, {arts[i].path, arts[j].path}, "none"))
  <2>1. arts[i] \in Arts /\ arts[j] \in Arts
    BY <1>0
  <2>2. arts[j].task \in Ids /\ {arts[i].path, arts[j].path} \in SUBSET Paths /\ "none" \in Reasons
    BY <2>1 DEF Arts, Reasons
  <2> DEFINE s == Carrying(arts[j].task, {arts[i].path, arts[j].path}, "none")
  <2>3. s \in Subtasks /\ s.carry = {arts[i].path, arts[j].path}
    BY <2>2 DEF Carrying, Subtask, Subtasks
  <2>4. PICK k \in 1 .. Len(kept) : arts[i] = kept[k]
    BY <1>0
  <2>5. PICK m \in 1 .. Len(kept) : arts[j] = kept[m]
    BY <1>0
  <2> HIDE DEF s
  <2>6. FromKept(s, kept)
    BY <1>4, <2>3, <2>4, <2>5 DEF FromKept
  <2> QED
    BY <2>3, <2>6 DEF s
<1>5. ASSUME NEW s, Fine(s), r = <<s>>
      PROVE  r \in Seq(Subtasks) /\ \A i \in 1 .. Len(r) : FromKept(r[i], kept)
  <2>1. Len(r) = 1 /\ r[1] = s /\ r \in Seq(Subtasks)
    BY <1>5
  <2> HIDE DEF r
  <2> QED
    BY <1>5, <2>1
<1>6. CASE r = <<>>
  BY <1>6
<1>7. CASE syntax # {} /\ r = SyntaxPlan(arts[Max(syntax)])
  <2>1. Max(syntax) \in syntax
    BY <1>0, <1>7, MaxOf
  <2>2. arts[Max(syntax)].reason \notin Unsafe
    BY <2>1 DEF Unsafe, Rewrites
  <2> QED
    BY <1>2, <1>5, <1>7, <2>1, <2>2 DEF SyntaxPlan
<1>8. CASE failed # {} /\ r = FailedPlan(arts[Max(failed)])
  <2>1. Max(failed) \in failed
    BY <1>0, <1>8, MaxOf
  <2>2. arts[Max(failed)].reason \notin Unsafe
    BY <2>1 DEF Unsafe, Rewrites, TestFailures
  <2> QED
    BY <1>2, <1>5, <1>8, <2>1, <2>2 DEF FailedPlan
<1>9. CASE src # {} /\ tst # {} /\ r = <<ComplementaryPlan(arts, Min(src), Min(tst))>>
  <2>1. Min(src) \in src /\ Min(tst) \in tst
    BY <1>0, <1>9, MinOf
  <2>2. arts[Min(src)].reason \notin Unsafe /\ arts[Min(tst)].reason \notin Unsafe
    BY <2>1 DEF Unsafe, Rewrites, SourceOnly, TestOnlyPatch
  <2>3. Fine(ComplementaryPlan(arts, Min(src), Min(tst)))
    BY <1>3, <1>4, <2>1, <2>2 DEF ComplementaryPlan
  <2> QED
    BY <1>5, <1>9, <2>3
<1>10. CASE other # {} /\ r = <<Replay(arts[Max(other)])>>
  <2>1. Max(other) \in 1 .. Len(arts)
    BY <1>0, <1>10, MaxOf
  <2>2. Fine(Replay(arts[Max(other)]))
    BY <1>2, <1>3, <2>1 DEF Replay
  <2> QED
    BY <1>5, <1>10, <2>2
<1> HIDE DEF r, syntax, failed, src, tst, other, weak, oneSided
<1>11. \/ r = <<>>
       \/ syntax # {} /\ r = SyntaxPlan(arts[Max(syntax)])
       \/ failed # {} /\ r = FailedPlan(arts[Max(failed)])
       \/ src # {} /\ tst # {} /\ r = <<ComplementaryPlan(arts, Min(src), Min(tst))>>
       \/ other # {} /\ r = <<Replay(arts[Max(other)])>>
  BY <1>1
<1> QED
  BY <1>6, <1>7, <1>8, <1>9, <1>10, <1>11 DEF r

\* A function on the first numbers is a sequence.
LEMMA SeqFrom ==
    ASSUME NEW S, NEW m \in Nat, NEW f \in [1 .. m -> S]
    PROVE  f \in Seq(S) /\ Len(f) = m /\ \A i \in 1 .. m : f[i] \in S
  OBVIOUS

\* A manager's plan starts with nothing carried.
LEMMA SlicesIs ==
    ASSUME NEW names \in Seq(Names)
    PROVE  /\ Slices(names) \in Seq(Subtasks)
           /\ \A i \in 1 .. Len(Slices(names)) : Slices(names)[i].carry = {}
<1> DEFINE r == Slices(names)
<1>1. r = [i \in 1 .. Len(names) |-> Subtask(<<names[i]>>)] /\ Len(names) \in Nat
  BY DEF Slices
<1>2. ASSUME NEW i \in 1 .. Len(names)
      PROVE  Subtask(<<names[i]>>) \in Subtasks /\ Subtask(<<names[i]>>).carry = {}
  <2>1. <<names[i]>> \in Ids /\ {} \in SUBSET Paths /\ "none" \in Reasons
    BY <1>2, IdType DEF Reasons
  <2> QED
    BY <2>1, SubtaskType
<1> HIDE DEF r
<1>3. r \in [1 .. Len(names) -> Subtasks]
  BY <1>1, <1>2
<1>4. r \in Seq(Subtasks) /\ Len(r) = Len(names)
  BY <1>1, <1>3, SeqFrom
<1>5. \A i \in 1 .. Len(r) : r[i].carry = {}
  BY <1>1, <1>2, <1>4
<1> QED
  BY <1>4, <1>5 DEF r

\* A subtask that is mended keeps its id; what it carries then is what it carried
\* before, or a kept patch that may be applied again.
LEMMA MendedIs ==
    ASSUME NEW s \in Subtasks, NEW a \in Arts
    PROVE  /\ MendedWith(s, a) \in Subtasks /\ MendedWith(s, a).task = s.task
           /\ \/ MendedWith(s, a).carry = s.carry
              \/ MendedWith(s, a).carry = {a.path} /\ (a.ok \/ a.reason \notin Unsafe)
<1>1. CASE (a.reason \in TestFailures /\ a.sides = BothSides) \/ (a.ok /\ ~TimedOut(a))
  <2>1. MendedWith(s, a) = [s EXCEPT !.carry = {a.path}, !.why = a.reason]
    BY <1>1 DEF MendedWith
  <2>2. a.ok \/ a.reason \notin Unsafe
    BY <1>1 DEF Unsafe, Rewrites, TestFailures
  <2>3. a.path \in Paths /\ a.reason \in Reasons
    BY DEF Arts
  <2> QED
    BY <2>1, <2>2, <2>3 DEF Subtasks
<1>2. CASE ~((a.reason \in TestFailures /\ a.sides = BothSides) \/ (a.ok /\ ~TimedOut(a)))
  <2>1. MendedWith(s, a) = [s EXCEPT !.drop = TRUE]
    BY <1>2 DEF MendedWith
  <2> QED
    BY <2>1 DEF Subtasks
<1> QED
  BY <1>1, <1>2

\* A kept patch belongs to a subtask of the plan, which one the ids decide.
LEMMA ChosenIs ==
    ASSUME NEW p \in Seq(Subtasks), NEW q \in Seq(Subtasks), NEW a, p # <<>>, Len(q) = Len(p),
           \A i \in 1 .. Len(p) : q[i].task = p[i].task
    PROVE  Chosen(p, a) \in 1 .. Len(p) /\ Chosen(q, a) = Chosen(p, a)
<1> DEFINE own == {i \in 1 .. Len(p) : p[i].task = a.task}
           alike == {i \in 1 .. Len(p) : p[i].task[1] = a.task[1]}
<1>1. Chosen(p, a) = IF own # {} THEN Min(own) ELSE IF alike # {} THEN Min(alike) ELSE 1
  BY DEF Chosen
<1>2. /\ {i \in 1 .. Len(q) : q[i].task = a.task} = own
      /\ {i \in 1 .. Len(q) : q[i].task[1] = a.task[1]} = alike
  OBVIOUS
<1>3. Chosen(q, a) = Chosen(p, a)
  BY <1>1, <1>2 DEF Chosen
<1>4. Len(p) \in Nat /\ 1 \in 1 .. Len(p)
  OBVIOUS
<1>5. own # {} => Min(own) \in 1 .. Len(p)
  BY <1>4, MinOf
<1>6. alike # {} => Min(alike) \in 1 .. Len(p)
  BY <1>4, MinOf
<1> HIDE DEF own, alike
<1> QED
  BY <1>1, <1>3, <1>4, <1>5, <1>6

\* The kept patches among the latest k that belong to the i-th subtask.
Latest(p, arts, k, i) ==
    {j \in 1 .. Len(arts) : j > Len(arts) - k /\ Chosen(p, arts[j]) = i}

\* The plan once the latest k patches were carried into it: each subtask has the
\* latest of the patches that belong to it, unless it repairs one already.
CarriedAfter(p, arts, k) ==
    [i \in 1 .. Len(p) |->
        IF Repairing(p[i]) \/ Latest(p, arts, k, i) = {} THEN p[i]
        ELSE MendedWith(p[i], arts[Max(Latest(p, arts, k, i))])]

\* One turn of the loop.
CarryStep(arts, k, p) ==
    LET a == arts[Len(arts) + 1 - k]
        i == Chosen(p, a)
    IN IF p = <<>> \/ Repairing(p[i]) THEN p ELSE [p EXCEPT ![i] = MendedWith(p[i], a)]

\* The latest of them is one of them.
LEMMA LatestIs ==
    ASSUME NEW p, NEW arts \in Seq(Arts), NEW k \in Nat, NEW i, Latest(p, arts, k, i) # {}
    PROVE  Max(Latest(p, arts, k, i)) \in Latest(p, arts, k, i)
<1>1. Len(arts) \in Nat /\ Latest(p, arts, k, i) \in SUBSET (1 .. Len(arts))
  BY DEF Latest
<1> QED
  BY <1>1, MaxOf

\* The plan stays a plan of the same subtasks, each mended at most once.
LEMMA CarriedAfterIs ==
    ASSUME NEW p \in Seq(Subtasks), NEW arts \in Seq(Arts), NEW k \in Nat
    PROVE  LET q == CarriedAfter(p, arts, k) IN
           /\ q \in Seq(Subtasks) /\ Len(q) = Len(p)
           /\ \A i \in 1 .. Len(p) :
                 /\ q[i].task = p[i].task
                 /\ Repairing(q[i]) <=> Repairing(p[i]) \/ Latest(p, arts, k, i) # {}
<1> DEFINE new(i) == IF Repairing(p[i]) \/ Latest(p, arts, k, i) = {} THEN p[i]
                     ELSE MendedWith(p[i], arts[Max(Latest(p, arts, k, i))])
           q == CarriedAfter(p, arts, k)
<1>1. q = [i \in 1 .. Len(p) |-> new(i)] /\ Len(p) \in Nat /\ Len(arts) \in Nat
  BY DEF CarriedAfter
<1>2. ASSUME NEW i \in 1 .. Len(p)
      PROVE  /\ new(i) \in Subtasks /\ new(i).task = p[i].task
             /\ Repairing(new(i)) <=> Repairing(p[i]) \/ Latest(p, arts, k, i) # {}
  <2>1. p[i] \in Subtasks
    BY <1>2
  <2>2. CASE Repairing(p[i]) \/ Latest(p, arts, k, i) = {}
    BY <2>1, <2>2
  <2>3. CASE ~(Repairing(p[i]) \/ Latest(p, arts, k, i) = {})
    <3> DEFINE m == Max(Latest(p, arts, k, i))
               s == MendedWith(p[i], arts[m])
    <3>1. m \in 1 .. Len(arts)
      <4>1. m \in Latest(p, arts, k, i)
        BY <2>3, LatestIs
      <4> QED
        BY <4>1 DEF Latest
    <3>2. arts[m] \in Arts
      BY <3>1
    <3>3. new(i) = s
      BY <2>3
    <3> HIDE DEF m
    <3>4. s \in Subtasks /\ s.task = p[i].task
      BY <2>1, <3>2, MendedIs
    <3>5. Repairing(s)
      BY <2>1 DEF MendedWith, Repairing, Subtasks
    <3> HIDE DEF s, new
    <3> QED
      BY <2>3, <3>3, <3>4, <3>5
  <2> QED
    BY <2>2, <2>3
<1> HIDE DEF q, new
<1>3. q \in [1 .. Len(p) -> Subtasks]
  BY <1>1, <1>2
<1>4. q \in Seq(Subtasks) /\ Len(q) = Len(p)
  BY <1>1, <1>3, SeqFrom
<1>5. \A i \in 1 .. Len(p) : q[i] = new(i)
  BY <1>1
<1>6. ASSUME NEW i \in 1 .. Len(p)
      PROVE  /\ q[i].task = p[i].task
             /\ Repairing(q[i]) <=> Repairing(p[i]) \/ Latest(p, arts, k, i) # {}
  BY <1>2, <1>5
<1> QED
  BY <1>4, <1>6 DEF q

\* One more turn of the loop takes in one more patch.
LEMMA CarryStepIs ==
    ASSUME NEW p \in Seq(Subtasks), NEW arts \in Seq(Arts), NEW k \in 1 .. Len(arts)
    PROVE  CarriedAfter(p, arts, k) = CarryStep(arts, k, CarriedAfter(p, arts, k - 1))
<1> DEFINE q == CarriedAfter(p, arts, k - 1)
           r == CarriedAfter(p, arts, k)
           m == Len(arts) + 1 - k
           a == arts[m]
           i == Chosen(p, a)
           L(j) == Latest(p, arts, k - 1, j)
           M(j) == Latest(p, arts, k, j)
<1>0. Len(arts) \in Nat /\ k - 1 \in Nat /\ k \in Nat /\ m \in 1 .. Len(arts)
  OBVIOUS
<1>1. /\ q \in Seq(Subtasks) /\ Len(q) = Len(p)
      /\ \A j \in 1 .. Len(p) : /\ q[j].task = p[j].task
                                /\ Repairing(q[j]) <=> Repairing(p[j]) \/ L(j) # {}
  BY <1>0, CarriedAfterIs
<1>2. /\ r \in Seq(Subtasks) /\ Len(r) = Len(p)
  BY <1>0, CarriedAfterIs
<1>3. \A j \in 1 .. Len(p) :
         /\ q[j] = IF Repairing(p[j]) \/ L(j) = {} THEN p[j] ELSE MendedWith(p[j], arts[Max(L(j))])
         /\ r[j] = IF Repairing(p[j]) \/ M(j) = {} THEN p[j] ELSE MendedWith(p[j], arts[Max(M(j))])
  BY DEF CarriedAfter
<1>4. \A j : /\ j # i => M(j) = L(j)
             /\ j = i => M(j) = L(j) \cup {m}
             /\ \A x \in L(j) : x \in Int /\ x > m
  BY <1>0 DEF Latest
<1> HIDE DEF q, r, L, M
<1>5. CASE p = <<>>
  <2>1. q = <<>> /\ r = <<>>
    BY <1>1, <1>2, <1>5
  <2> QED
    BY <2>1 DEF CarryStep, q, r
<1>6. CASE p # <<>>
  <2>1. i \in 1 .. Len(p) /\ Chosen(q, a) = i /\ q # <<>>
    <3>1. Chosen(p, a) \in 1 .. Len(p) /\ Chosen(q, a) = Chosen(p, a)
      BY <1>1, <1>6, ChosenIs
    <3> QED
      BY <1>1, <1>6, <3>1
  <2> HIDE DEF i, a
  <2>2. \A j \in 1 .. Len(p) : j # i => r[j] = q[j]
    BY <1>3, <1>4
  <2>3. CASE Repairing(q[i])
    <3>1. r[i] = q[i]
      <4>1. CASE Repairing(p[i])
        BY <1>3, <2>1, <4>1
      <4>2. CASE ~Repairing(p[i])
        <5>1. L(i) # {}
          BY <1>1, <2>1, <2>3, <4>2
        <5>2. PICK x \in L(i) : \A y \in L(i) : x >= y
          <6>1. L(i) \in SUBSET (0 .. Len(arts))
            BY DEF L, Latest
          <6> QED
            BY <1>0, <5>1, <6>1, Greatest
        <5>3. Max(L(i)) = x
          <6>1. L(i) \in SUBSET Int
            BY <1>4
          <6> QED
            BY <5>2, <6>1, MaxIs
        <5>4. Max(M(i)) = x
          <6>1. M(i) \in SUBSET Int /\ x \in M(i) /\ \A y \in M(i) : x >= y
            BY <1>0, <1>4, <5>2
          <6> QED
            BY <6>1, MaxIs
        <5>5. M(i) # {}
          BY <1>4
        <5> QED
          BY <1>3, <2>1, <4>2, <5>1, <5>3, <5>4, <5>5
      <4> QED
        BY <4>1, <4>2
    <3>2. \A j \in 1 .. Len(p) : r[j] = q[j]
      BY <2>2, <3>1
    <3>3. r = q
      BY <1>1, <1>2, <3>2
    <3>4. CarryStep(arts, k, q) = q
      BY <2>1, <2>3 DEF CarryStep, a
    <3> QED
      BY <3>3, <3>4 DEF q, r
  <2>4. CASE ~Repairing(q[i])
    <3>1. ~Repairing(p[i]) /\ L(i) = {}
      BY <1>1, <2>1, <2>4
    <3>2. q[i] = p[i] /\ M(i) = {m}
      BY <1>3, <1>4, <2>1, <3>1
    <3>3. Max(M(i)) = m
      <4>1. M(i) \in SUBSET Int /\ m \in M(i) /\ \A y \in M(i) : m >= y
        BY <1>0, <3>2
      <4> QED
        BY <4>1, MaxIs
    <3>4. r[i] = MendedWith(q[i], a)
      <4>1. r[i] = MendedWith(p[i], arts[Max(M(i))])
        BY <1>3, <2>1, <3>1, <3>2
      <4> QED
        BY <3>2, <3>3, <4>1 DEF a
    <3> DEFINE w == [q EXCEPT ![i] = MendedWith(q[i], a)]
    <3>5. CarryStep(arts, k, q) = w
      BY <2>1, <2>4 DEF CarryStep, a
    <3>6. r = w
      <4>1. r \in [1 .. Len(p) -> Subtasks] /\ q \in [1 .. Len(p) -> Subtasks]
        BY <1>1, <1>2
      <4>2. \A j \in 1 .. Len(p) : r[j] = w[j]
        BY <2>1, <2>2, <3>4, <4>1
      <4>3. DOMAIN w = 1 .. Len(p)
        BY <4>1
      <4> QED
        BY <4>1, <4>2, <4>3
    <3> QED
      BY <3>5, <3>6 DEF q, r
  <2> QED
    BY <2>3, <2>4
<1> QED
  BY <1>5, <1>6

\* _carry_forward_partial_diff_artifacts, which walks the kept patches from the
\* latest to the first, gives each subtask the latest patch that belongs to it.
THEOREM CarryingIs ==
    ASSUME NEW p \in Seq(Subtasks), NEW arts \in Seq(Arts)
    PROVE  CarriedInto(p, arts) = CarriedAfter(p, arts, Len(arts))
<1> DEFINE Def(f) == f = [k \in 0 .. Len(arts) |-> IF k = 0 THEN p ELSE CarryStep(arts, k, f[k - 1])]
           F == CHOOSE f : Def(f)
           G == [k \in 0 .. Len(arts) |-> CarriedAfter(p, arts, k)]
<1>0. Len(arts) \in Nat /\ Len(arts) \in 0 .. Len(arts)
  OBVIOUS
<1>1. CarriedAfter(p, arts, 0) = p
  <2>1. \A i : Latest(p, arts, 0, i) = {}
    BY <1>0 DEF Latest
  <2>2. CarriedAfter(p, arts, 0) = [i \in 1 .. Len(p) |-> p[i]]
    BY <2>1 DEF CarriedAfter
  <2> QED
    BY <2>2
<1>2. Def(G)
  <2>1. ASSUME NEW k \in 0 .. Len(arts), k # 0
        PROVE  G[k] = CarryStep(arts, k, G[k - 1])
    <3>1. k \in 1 .. Len(arts) /\ k - 1 \in 0 .. Len(arts)
      BY <1>0, <2>1
    <3>2. CarriedAfter(p, arts, k) = CarryStep(arts, k, CarriedAfter(p, arts, k - 1))
      BY <3>1, CarryStepIs
    <3> QED
      BY <3>1, <3>2
  <2> QED
    BY <1>1, <2>1
<1>3. Def(F)
  <2> HIDE DEF Def
  <2> QED
    BY <1>2, Zenon
<1>4. CarriedInto(p, arts) = F[Len(arts)]
  BY DEF CarriedInto, CarryStep
<1> HIDE DEF F
<1> DEFINE Bad == {k \in Nat : k <= Len(arts) /\ F[k] # G[k]}
<1>5. Bad = {}
  <2>1. SUFFICES ASSUME Bad # {} PROVE FALSE
    OBVIOUS
  <2>2. PICK m \in Bad : \A k \in Bad : m <= k
    <3>1. Bad \in SUBSET Nat
      OBVIOUS
    <3> QED
      BY <2>1, <3>1, Least
  <2>3. m \in 0 .. Len(arts) /\ F[m] # G[m]
    BY <1>0, <2>2
  <2>4. m # 0 => F[m - 1] = G[m - 1]
    <3>1. SUFFICES ASSUME m # 0 PROVE F[m - 1] = G[m - 1]
      OBVIOUS
    <3>2. m - 1 \in Nat /\ m - 1 <= Len(arts) /\ ~(m <= m - 1)
      BY <1>0, <2>3, <3>1
    <3>3. m - 1 \notin Bad
      BY <2>2, <3>2
    <3> QED
      BY <3>2, <3>3
  <2> HIDE DEF G
  <2>5. /\ F[m] = IF m = 0 THEN p ELSE CarryStep(arts, m, F[m - 1])
        /\ G[m] = IF m = 0 THEN p ELSE CarryStep(arts, m, G[m - 1])
    BY <1>2, <1>3, <2>3
  <2> QED
    BY <2>3, <2>4, <2>5
<1>6. Len(arts) \notin Bad
  BY <1>5
<1>7. F[Len(arts)] = G[Len(arts)]
  <2> HIDE DEF G
  <2> QED
    BY <1>0, <1>6
<1>8. G[Len(arts)] = CarriedAfter(p, arts, Len(arts))
  BY <1>0
<1> QED
  BY <1>4, <1>7, <1>8

\* Carrying kept patches into a plan brings in only those that may be applied again.
LEMMA CarriedIntoIs ==
    ASSUME NEW p \in Seq(Subtasks), NEW arts \in Seq(Arts),
           \A i \in 1 .. Len(p) : FromKept(p[i], arts)
    PROVE  /\ CarriedInto(p, arts) \in Seq(Subtasks)
           /\ \A i \in 1 .. Len(CarriedInto(p, arts)) : FromKept(CarriedInto(p, arts)[i], arts)
<1> DEFINE mine(i) == Latest(p, arts, Len(arts), i)
           new(i) == IF Repairing(p[i]) \/ mine(i) = {} THEN p[i]
                     ELSE MendedWith(p[i], arts[Max(mine(i))])
           r == CarriedInto(p, arts)
<1>1. r = [i \in 1 .. Len(p) |-> new(i)] /\ Len(p) \in Nat /\ Len(arts) \in Nat
  BY CarryingIs DEF CarriedAfter
<1>2. ASSUME NEW i \in 1 .. Len(p)
      PROVE  new(i) \in Subtasks /\ FromKept(new(i), arts)
  <2>1. p[i] \in Subtasks /\ FromKept(p[i], arts)
    BY <1>2
  <2>2. CASE Repairing(p[i]) \/ mine(i) = {}
    BY <2>1, <2>2
  <2>3. CASE ~(Repairing(p[i]) \/ mine(i) = {})
    <3> DEFINE k == Max(mine(i))
    <3>1. k \in mine(i)
      BY <1>1, <2>3, LatestIs
    <3>2. k \in 1 .. Len(arts) /\ arts[k] \in Arts
      BY <3>1 DEF Latest
    <3> DEFINE s == MendedWith(p[i], arts[k])
    <3>3. new(i) = s
      BY <2>3
    <3> HIDE DEF k
    <3>4. /\ s \in Subtasks
          /\ \/ s.carry = p[i].carry
             \/ s.carry = {arts[k].path} /\ (arts[k].ok \/ arts[k].reason \notin Unsafe)
      BY <2>1, <3>2, MendedIs
    <3> HIDE DEF s
    <3>5. FromKept(s, arts)
      BY <2>1, <3>2, <3>4 DEF FromKept
    <3> HIDE DEF new
    <3> QED
      BY <3>3, <3>4, <3>5
  <2> QED
    BY <2>2, <2>3
<1> HIDE DEF r, new
<1>3. r \in [1 .. Len(p) -> Subtasks]
  BY <1>1, <1>2
<1>4. r \in Seq(Subtasks) /\ Len(r) = Len(p)
  BY <1>1, <1>3, SeqFrom
<1>5. \A i \in 1 .. Len(r) : FromKept(r[i], arts)
  BY <1>1, <1>2, <1>4
<1> QED
  BY <1>4, <1>5 DEF r

\* What is kept of a plan past the base attempts was in it.
LEMMA ConstrainedIs ==
    ASSUME NEW p \in Seq(Subtasks), NEW arts, NEW k
    PROVE  /\ Constrained(p, arts, k) \in Seq(Subtasks)
           /\ \A i \in 1 .. Len(Constrained(p, arts, k)) :
                 \E j \in 1 .. Len(p) : Constrained(p, arts, k)[i] = p[j]
<1> DEFINE carried == {i \in 1 .. Len(p) : p[i].carry # {}}
           dropped == {i \in 1 .. Len(p) : p[i].drop}
           some == IF carried # {} THEN carried ELSE dropped
           r == Constrained(p, arts, k)
<1>1. r = IF arts = <<>> \/ k < Base \/ some = {} THEN p ELSE <<p[Min(some)]>>
  BY DEF Constrained
<1>2. CASE r = p
  BY <1>2
<1>3. CASE some # {} /\ r = <<p[Min(some)]>>
  <2>1. Len(p) \in Nat /\ some \in SUBSET (1 .. Len(p))
    OBVIOUS
  <2> HIDE DEF some
  <2>2. Min(some) \in 1 .. Len(p)
    BY <1>3, <2>1, MinOf
  <2>3. p[Min(some)] \in Subtasks
    BY <2>2
  <2>4. r \in Seq(Subtasks) /\ Len(r) = 1 /\ r[1] = p[Min(some)]
    BY <1>3, <2>3
  <2> HIDE DEF r
  <2>5. \A i \in 1 .. Len(r) : r[i] = p[Min(some)]
    BY <2>4
  <2> QED
    BY <2>2, <2>4, <2>5 DEF r
<1> QED
  BY <1>1, <1>2, <1>3

\* The deferred subtasks come back, under their ids.
LEMMA WithDeferredIs ==
    ASSUME NEW p \in Seq(Subtasks), NEW d \in Seq(Subtasks)
    PROVE  /\ WithDeferred(p, d) \in Seq(Subtasks)
           /\ \A i \in 1 .. Len(WithDeferred(p, d)) :
                 \/ \E j \in 1 .. Len(p) : WithDeferred(p, d)[i] = p[j]
                 \/ WithDeferred(p, d)[i] \in ToSet(d)
           /\ \A x \in ToSet(d) : \E i \in 1 .. Len(WithDeferred(p, d)) :
                 WithDeferred(p, d)[i].task = x.task
<1> DEFINE I == {j \in 1 .. Len(d) : \A i \in 1 .. Len(p) : p[i].task # d[j].task}
           q == Picked(d, I)
           r == WithDeferred(p, d)
<1>1. q \in Seq(Subtasks) /\ ToSet(q) = {d[i] : i \in I \cap (1 .. Len(d))}
  BY PickedIs
<1>2. r = p \o q
  BY DEF WithDeferred
<1> HIDE DEF q
<1>3. /\ r \in Seq(Subtasks) /\ Len(r) = Len(p) + Len(q)
      /\ Len(p) \in Nat /\ Len(q) \in Nat
      /\ \A i \in 1 .. Len(p) : r[i] = p[i]
      /\ \A i \in 1 .. Len(q) : r[Len(p) + i] = q[i]
      /\ \A i \in Len(p) + 1 .. Len(p) + Len(q) : r[i] = q[i - Len(p)]
  BY <1>1, <1>2
<1> HIDE DEF r
<1>4. ASSUME NEW i \in 1 .. Len(r)
      PROVE  (\E j \in 1 .. Len(p) : r[i] = p[j]) \/ r[i] \in ToSet(d)
  <2>1. CASE i \in 1 .. Len(p)
    BY <1>3, <2>1
  <2>2. CASE i \notin 1 .. Len(p)
    <3>1. i \in Len(p) + 1 .. Len(p) + Len(q) /\ i - Len(p) \in 1 .. Len(q)
      BY <1>3, <1>4, <2>2
    <3>2. r[i] \in ToSet(q)
      <4> HIDE DEF I
      <4>1. q \in Seq(Subtasks) /\ r[i] = q[i - Len(p)]
        BY <1>1, <1>3, <3>1
      <4> QED
        BY <3>1, <4>1 DEF ToSet
    <3> QED
      BY <1>1, <3>2, MemberIs
  <2> QED
    BY <2>1, <2>2
<1>5. ASSUME NEW x \in ToSet(d)
      PROVE  \E i \in 1 .. Len(r) : r[i].task = x.task
  <2>1. PICK j \in 1 .. Len(d) : x = d[j]
    BY <1>5, MemberIs
  <2>2. CASE \E i \in 1 .. Len(p) : p[i].task = d[j].task
    <3>1. PICK i \in 1 .. Len(p) : p[i].task = d[j].task
      BY <2>2
    <3>2. i \in 1 .. Len(r) /\ r[i] = p[i]
      BY <1>3, <3>1
    <3> QED
      BY <2>1, <3>1, <3>2
  <2>3. CASE ~ \E i \in 1 .. Len(p) : p[i].task = d[j].task
    <3>1. j \in I
      BY <2>3
    <3>2. x \in ToSet(q)
      BY <1>1, <2>1, <3>1
    <3>3. PICK i \in 1 .. Len(q) : x = q[i]
      <4> HIDE DEF I
      <4>1. q \in Seq(Subtasks)
        BY <1>1
      <4> QED
        BY <3>2, <4>1 DEF ToSet
    <3>4. Len(p) + i \in 1 .. Len(r) /\ r[Len(p) + i] = x
      BY <1>3, <3>3
    <3> QED
      BY <3>4
  <2> QED
    BY <2>2, <2>3
<1> QED
  BY <1>3, <1>4, <1>5 DEF r

\* A renamed subtask keeps its name and what it carries.
LEMMA NamespacedIs ==
    ASSUME NEW p \in Seq(Subtasks), NEW arts, NEW done, NEW k \in Nat
    PROVE  /\ Namespaced(p, arts, done, k) \in Seq(Subtasks)
           /\ Len(Namespaced(p, arts, done, k)) = Len(p)
           /\ \A i \in 1 .. Len(p) : /\ Namespaced(p, arts, done, k)[i].carry = p[i].carry
                                     /\ Namespaced(p, arts, done, k)[i].task[1] = p[i].task[1]
<1> DEFINE new(i) == IF p[i].task \in done THEN [p[i] EXCEPT !.task = Append(p[i].task, k + 1)]
                     ELSE p[i]
           r == Namespaced(p, arts, done, k)
<1>1. CASE arts = <<>>
  <2>1. r = p
    BY <1>1 DEF Namespaced
  <2> QED
    BY <2>1
<1>2. CASE arts # <<>>
  <2>1. r = [i \in 1 .. Len(p) |-> new(i)] /\ Len(p) \in Nat
    BY <1>2 DEF Namespaced
  <2>2. ASSUME NEW i \in 1 .. Len(p)
        PROVE  /\ new(i) \in Subtasks /\ new(i).carry = p[i].carry
               /\ new(i).task[1] = p[i].task[1]
    <3>0. p[i] \in Subtasks
      BY <2>2
    <3>1. p[i] \in Subtasks /\ p[i].task \in Ids
      BY <3>0 DEF Subtasks
    <3>2. k + 1 \in Nat
      OBVIOUS
    <3>3. Append(p[i].task, k + 1) \in Ids /\ Append(p[i].task, k + 1)[1] = p[i].task[1]
      BY <3>1, <3>2, IdType
    <3> QED
      BY <3>1, <3>3 DEF Subtasks
  <2> HIDE DEF r, new
  <2>3. r \in [1 .. Len(p) -> Subtasks]
    BY <2>1, <2>2
  <2>4. r \in Seq(Subtasks) /\ Len(r) = Len(p)
    BY <2>1, <2>3, SeqFrom
  <2>5. \A i \in 1 .. Len(p) : r[i].carry = p[i].carry /\ r[i].task[1] = p[i].task[1]
    BY <2>1, <2>2
  <2> QED
    BY <2>4, <2>5 DEF r
<1> QED
  BY <1>1, <1>2

\* A capped plan is a beginning of the plan, an uncapped one all of it.
LEMMA CappedIs ==
    ASSUME NEW S, NEW p \in Seq(S), NEW cap \in BOOLEAN
    PROVE  /\ Capped(p, cap) \in Seq(S)
           /\ Len(Capped(p, cap)) \in 0 .. Len(p)
           /\ \A i \in 1 .. Len(Capped(p, cap)) : Capped(p, cap)[i] = p[i]
           /\ ~cap => Capped(p, cap) = p
<1>1. CASE cap /\ Len(p) > Limit
  <2>1. /\ Capped(p, cap) = SubSeq(p, 1, Limit)
        /\ Limit \in Nat \ {0} /\ Len(p) \in Nat
    BY <1>1, RunPipelineAssumption DEF Capped
  <2>2. /\ SubSeq(p, 1, Limit) \in Seq(S)
        /\ Len(SubSeq(p, 1, Limit)) = Limit
        /\ \A i \in 1 .. Limit : SubSeq(p, 1, Limit)[i] = p[i]
    BY <1>1, <2>1
  <2>3. Limit \in 0 .. Len(p) /\ cap
    BY <1>1, <2>1
  <2>4. Len(Capped(p, cap)) \in 0 .. Len(p) /\ Capped(p, cap) \in Seq(S)
    BY <2>1, <2>2, <2>3
  <2>5. \A i \in 1 .. Len(Capped(p, cap)) : Capped(p, cap)[i] = p[i]
    BY <2>1, <2>2
  <2> QED
    BY <2>3, <2>4, <2>5
<1>2. CASE ~(cap /\ Len(p) > Limit)
  <2>1. Capped(p, cap) = p
    BY <1>2 DEF Capped
  <2> QED
    BY <2>1
<1> QED
  BY <1>1, <1>2

\* Types, and the bounds of the loop.
Types ==
    /\ pc \in {"plan", "work", "integrate", "review", "finalize", "done"}
    /\ n \in 0 .. MaxLoops
    /\ pc \notin {"plan", "done"} => n < MaxLoops
    /\ pc = "done" <=> outcome # "running"
    /\ capped \in BOOLEAN
    /\ checkout \subseteq Edits /\ rejected \subseteq Edits
    /\ DOMAIN files \subseteq Paths
    /\ \A p \in DOMAIN files : files[p] \in Saved
    /\ repair \in Records
    /\ plan \in Seq(Subtasks) /\ pending \in Seq(Subtasks)
    /\ ToSet(pending) \subseteq ToSet(plan)
    /\ skipped \subseteq Ids

\* Some failure saved there left a patch that may be applied again.
Good(p) == p \in DOMAIN files /\ files[p].reasons \ Unsafe # {}

\* So did one for every patch that is or may be carried.
Replayable ==
    /\ \A s \in ToSet(plan) : \A p \in s.carry : Good(p)
    /\ \A s \in ToSet(repair.deferred) : \A p \in s.carry : Good(p)
    /\ \A a \in ToSet(repair.arts) : /\ a.path \in DOMAIN files
                                     /\ a.ok => a.reason \notin Unsafe
                                     /\ a.reason \notin Unsafe => Good(a.path)

\* Where the names that were planned are while an attempt goes on.
Remembered ==
    ~capped =>
        /\ pc = "plan" => asked \subseteq did \cup tried \cup NamesIn(repair.deferred)
        /\ pc = "work" => asked \subseteq did \cup tried \cup NamesIn(pending)
        /\ (pc \in {"integrate", "review", "finalize"} \/ outcome = "completed") =>
              asked \subseteq did \cup tried

\* Edits are of this attempt or an earlier one, rejected ones of an earlier one.
Dated ==
    /\ \A e \in checkout : e[2] <= n
    /\ \A p \in DOMAIN files : \A e \in files[p].edits : e[2] <= n
    /\ \A e \in rejected : e[2] < n

CleanPatch(p) == files[p].edits \cap rejected = {}

\* While nothing is deferred, no rejected edit is in the checkout, in a kept
\* patch or in one that the attempt carries.
Clean ==
    repair.deferred = <<>> =>
        /\ checkout \cap rejected = {}
        /\ \A a \in ToSet(repair.arts) : CleanPatch(a.path)
        /\ pc = "work" => \A s \in ToSet(plan) : \A p \in s.carry : CleanPatch(p)

IInv == Types /\ Replayable /\ Remembered /\ Dated /\ Clean

-----------------------------------------------------------------------------
(* One attempt's plan *)

\* What a plan is made of: kept patches that may be applied again, and what
\* deferred subtasks carried; unless the plan is capped no deferred name is left out.
LEMMA PlannedIs ==
    ASSUME Types, NEW base \in Seq(Subtasks), NEW cap \in BOOLEAN,
           \A i \in 1 .. Len(base) : FromKept(base[i], repair.arts)
    PROVE  /\ Planned(base, cap) \in Seq(Subtasks)
           /\ \A i \in 1 .. Len(Planned(base, cap)) :
                 \/ FromKept(Planned(base, cap)[i], repair.arts)
                 \/ \E d \in ToSet(repair.deferred) : Planned(base, cap)[i].carry = d.carry
           /\ ~cap => NamesIn(repair.deferred) \subseteq NamesIn(Planned(base, cap))
<1> DEFINE arts == repair.arts
           c == CarriedInto(base, arts)
           k == Constrained(c, arts, n)
           w == WithDeferred(k, repair.deferred)
           m == Namespaced(w, arts, repair.done, n)
           r == Capped(m, cap)
           Fine(s) == FromKept(s, arts) \/ \E d \in ToSet(repair.deferred) : s.carry = d.carry
<1>0. arts \in Seq(Arts) /\ repair.deferred \in Seq(Subtasks) /\ n \in Nat
  BY DEF Types, Records
<1>1. Planned(base, cap) = r
  BY DEF Planned
<1>2. c \in Seq(Subtasks) /\ \A i \in 1 .. Len(c) : FromKept(c[i], arts)
  BY <1>0, CarriedIntoIs
<1> HIDE DEF c
<1>3. /\ k \in Seq(Subtasks)
      /\ \A i \in 1 .. Len(k) : \E j \in 1 .. Len(c) : k[i] = c[j]
  BY <1>2, ConstrainedIs
<1> HIDE DEF k
<1>4. /\ w \in Seq(Subtasks)
      /\ \A i \in 1 .. Len(w) : \/ \E j \in 1 .. Len(k) : w[i] = k[j]
                                \/ w[i] \in ToSet(repair.deferred)
      /\ \A x \in ToSet(repair.deferred) : \E i \in 1 .. Len(w) : w[i].task = x.task
  BY <1>0, <1>3, WithDeferredIs
<1> HIDE DEF w
<1>5. /\ m \in Seq(Subtasks) /\ Len(m) = Len(w)
      /\ \A i \in 1 .. Len(w) : m[i].carry = w[i].carry /\ m[i].task[1] = w[i].task[1]
  BY <1>0, <1>4, NamespacedIs
<1> HIDE DEF m
<1>6. /\ r \in Seq(Subtasks) /\ Len(r) \in 0 .. Len(m)
      /\ \A i \in 1 .. Len(r) : r[i] = m[i]
      /\ ~cap => r = m
  BY <1>5, CappedIs
<1> HIDE DEF r
<1>7. \A i \in 1 .. Len(w) : Fine(w[i])
  BY <1>2, <1>3, <1>4
<1>8. ASSUME NEW i \in 1 .. Len(r)
      PROVE  Fine(r[i])
  <2>1. i \in 1 .. Len(w) /\ r[i].carry = w[i].carry
    BY <1>5, <1>6, <1>8
  <2>2. Fine(w[i])
    BY <1>7, <2>1
  <2> QED
    BY <2>1, <2>2 DEF FromKept
<1>9. ASSUME ~cap, NEW x \in NamesIn(repair.deferred)
      PROVE  x \in NamesIn(r)
  <2>1. PICK j \in 1 .. Len(repair.deferred) : x = repair.deferred[j].task[1]
    BY <1>9 DEF NamesIn
  <2>2. repair.deferred[j] \in ToSet(repair.deferred)
    BY <1>0, <2>1, MemberIs
  <2>3. PICK i \in 1 .. Len(w) : w[i].task = repair.deferred[j].task
    BY <1>4, <2>2
  <2>4. i \in 1 .. Len(r) /\ r[i].task[1] = x
    BY <1>5, <1>6, <1>9, <2>1, <2>3
  <2> QED
    BY <2>4 DEF NamesIn
<1> QED
  BY <1>1, <1>6, <1>8, <1>9

\* The step that plans: where the new plan, the workers' share of it and the
\* accepted part come from, and where the loop goes next.
LEMMA PlanIs ==
    ASSUME Types, Plan
    PROVE  /\ plan' \in Seq(Subtasks)
           /\ \A i \in 1 .. Len(plan') :
                 \/ FromKept(plan'[i], repair.arts)
                 \/ \E d \in ToSet(repair.deferred) : plan'[i].carry = d.carry
           /\ capped' \in BOOLEAN /\ (~capped' => ~capped)
           /\ ~capped' => NamesIn(repair.deferred) \subseteq NamesIn(plan')
           /\ asked' = asked \cup NamesIn(plan')
           /\ pending' \in Seq(Subtasks)
           /\ ToSet(pending') \subseteq ToSet(plan')
           /\ did \subseteq did'
           /\ NamesIn(plan') \subseteq did' \cup NamesIn(pending')
           /\ skipped' \subseteq Ids
           /\ \/ pc' = "work" /\ outcome' = outcome
              \/ pc' = "done" /\ outcome' \in {"completed", "github_sync_failed"}
                   /\ pending' = <<>>
           /\ pc = "plan" /\ n < MaxLoops
           /\ UNCHANGED <<n, remote, checkout, files, repair, rejected, tried>>
<1> DEFINE fixed == RepairPlan(repair.arts, repair.done)
           asks == fixed = <<>>
<1>1. PICK names \in Plans, invalid \in BOOLEAN :
         LET base  == IF asks THEN Slices(names) ELSE fixed
             cap   == capped \/ (asks /\ invalid)
             new   == Planned(base, cap)
         IN /\ plan' = new
            /\ capped' = cap
            /\ asked' = asked \cup NamesIn(new)
            /\ \E sat : PreScreen(new, sat, remote \/ (asks /\ invalid))
  BY DEF Plan
<1> DEFINE base == IF asks THEN Slices(names) ELSE fixed
           cap == capped \/ (asks /\ invalid)
           new == Planned(base, cap)
           force == remote \/ (asks /\ invalid)
<1>2a. PICK sat : PreScreen(new, sat, force)
  BY <1>1
<1>2. /\ plan' = new /\ capped' = cap /\ asked' = asked \cup NamesIn(new)
      /\ PreScreen(new, sat, force)
  BY <1>1, <1>2a
<1>3. repair.arts \in Seq(Arts) /\ capped \in BOOLEAN
  BY DEF Types, Records
<1>4. names \in Seq(Names)
  BY RunPipelineAssumption
<1>5. base \in Seq(Subtasks) /\ \A i \in 1 .. Len(base) : FromKept(base[i], repair.arts)
  <2>1. CASE asks
    <3>1. base = Slices(names)
      BY <2>1
    <3> HIDE DEF base, fixed
    <3> QED
      BY <1>4, <3>1, SlicesIs DEF FromKept
  <2>2. CASE ~asks
    <3>1. base = fixed
      BY <2>2
    <3> HIDE DEF base
    <3> QED
      BY <1>3, <3>1, RepairPlanIs
  <2> QED
    BY <2>1, <2>2
<1>6. cap \in BOOLEAN
  OBVIOUS
<1> HIDE DEF base, cap
<1>7. /\ new \in Seq(Subtasks)
      /\ \A i \in 1 .. Len(new) :
            \/ FromKept(new[i], repair.arts)
            \/ \E d \in ToSet(repair.deferred) : new[i].carry = d.carry
      /\ ~cap => NamesIn(repair.deferred) \subseteq NamesIn(new)
  BY <1>5, <1>6, PlannedIs
<1> DEFINE accepted == {i \in 1 .. Len(new) : PreSatisfied(new[i], sat, force)}
           todo == Picked(new, (1 .. Len(new)) \ accepted)
<1>8. /\ pending' = todo
      /\ skipped' = {new[i].task : i \in {j \in accepted : CarriedOver(new[j], sat)}}
      /\ did' = did \cup {new[i].task[1] : i \in accepted}
      /\ \/ todo = <<>> /\ ~remote /\ Completes
         \/ (todo # <<>> \/ remote) /\ pc' = "work" /\ UNCHANGED outcome
  <2> HIDE DEF new
  <2> QED
    BY <1>2 DEF PreScreen
<1> HIDE DEF new, force, fixed
<1>9. /\ todo \in Seq(Subtasks)
      /\ ToSet(todo) = {new[i] : i \in ((1 .. Len(new)) \ accepted) \cap (1 .. Len(new))}
  BY <1>7, PickedIs
<1> HIDE DEF todo
<1>10. ToSet(todo) \subseteq ToSet(new)
  BY <1>7, <1>9, MemberIs
<1>11. NamesIn(new) \subseteq did' \cup NamesIn(todo)
  <2> SUFFICES ASSUME NEW i \in 1 .. Len(new)
               PROVE  new[i].task[1] \in did' \cup NamesIn(todo)
    BY DEF NamesIn
  <2>1. CASE i \in accepted
    BY <1>8, <2>1
  <2>2. CASE i \notin accepted
    <3>1. new[i] \in ToSet(todo)
      BY <1>9, <2>2
    <3>2. PICK j \in 1 .. Len(todo) : new[i] = todo[j]
      <4>1. todo \in Seq(Subtasks)
        BY <1>9
      <4> HIDE DEF accepted
      <4> QED
        BY <3>1, <4>1 DEF ToSet
    <3> QED
      BY <3>2 DEF NamesIn
  <2> QED
    BY <2>1, <2>2
<1>12. skipped' \subseteq Ids
  <2>1. ASSUME NEW i \in 1 .. Len(new) PROVE new[i].task \in Ids
    <3>1. new[i] \in Subtasks
      BY <1>7
    <3> QED
      BY <3>1 DEF Subtasks
  <2> QED
    BY <1>8, <2>1
<1>13. \/ pc' = "work" /\ outcome' = outcome
       \/ pc' = "done" /\ outcome' \in {"completed", "github_sync_failed"} /\ pending' = <<>>
  BY <1>8 DEF Completes, Ends
<1>14. /\ pc = "plan" /\ n < MaxLoops
       /\ UNCHANGED <<n, remote, checkout, files, repair, rejected, tried>>
  BY DEF Plan
<1>15. capped' \in BOOLEAN /\ (~capped' => ~capped /\ ~cap)
  BY <1>2, <1>3, <1>6 DEF cap
<1>16. did \subseteq did'
  BY <1>8
<1> HIDE DEF accepted
<1> QED
  BY <1>2, <1>7, <1>8, <1>9, <1>10, <1>11, <1>12, <1>13, <1>14, <1>15, <1>16

-----------------------------------------------------------------------------
(* The workers *)

\* The edits a worker ends with are those of the attempt and of the patches it
\* started from.
LEMMA EditsAre ==
    ASSUME Types, Replayable, Dated, NEW s \in ToSet(plan)
    PROVE  /\ s \in Subtasks
           /\ EditsOf(s) \subseteq Edits
           /\ \A e \in EditsOf(s) : e[2] <= n
           /\ pc = "work" /\ Clean /\ repair.deferred = <<>> => EditsOf(s) \cap rejected = {}
<1>1. s \in Subtasks /\ n \in Nat
  BY MemberIs DEF Types
<1>2. <<s.task, n>> \in Edits /\ <<s.task, n>>[2] <= n
  BY <1>1 DEF Edits, Subtasks
<1>3. ASSUME NEW p \in s.carry
      PROVE  /\ p \in DOMAIN files /\ files[p].edits \subseteq Edits
             /\ \A e \in files[p].edits : e[2] <= n
  <2>1. p \in DOMAIN files
    BY <1>3 DEF Replayable, Good
  <2>2. files[p] \in Saved
    BY <2>1 DEF Types
  <2>3. files[p].edits \subseteq Edits
    BY <2>2 DEF Saved
  <2> QED
    BY <2>1, <2>3 DEF Dated
<1>4. ASSUME pc = "work", Clean, repair.deferred = <<>>
      PROVE  EditsOf(s) \cap rejected = {}
  <2>1. <<s.task, n>> \notin rejected
    <3>1. ASSUME <<s.task, n>> \in rejected PROVE FALSE
      <4>1. <<s.task, n>>[2] < n
        BY <3>1 DEF Dated
      <4> QED
        BY <1>1, <4>1
    <3> QED
      BY <3>1
  <2>2. \A p \in s.carry : files[p].edits \cap rejected = {}
    BY <1>4 DEF Clean, CleanPatch
  <2> QED
    BY <2>1, <2>2 DEF EditsOf
<1>5. EditsOf(s) \subseteq Edits
  BY <1>2, <1>3 DEF EditsOf
<1>6. \A e \in EditsOf(s) : e[2] <= n
  BY <1>2, <1>3 DEF EditsOf
<1> QED
  BY <1>1, <1>4, <1>5, <1>6

\* So does the checkout after some workers' edits were synced to it.
LEMMA SyncedIs ==
    ASSUME Types, Replayable, Dated, NEW k \in 0 .. Len(pending)
    PROVE  /\ SyncedBy(k) \subseteq Edits
           /\ \A e \in SyncedBy(k) : e[2] <= n
           /\ pc = "work" /\ Clean /\ repair.deferred = <<>> => SyncedBy(k) \cap rejected = {}
<1>1. \A i \in 1 .. k : pending[i] \in ToSet(plan)
  <2>1. pending \in Seq(Subtasks) /\ ToSet(pending) \subseteq ToSet(plan) /\ Len(pending) \in Nat
    BY DEF Types
  <2>2. \A i \in 1 .. Len(pending) : pending[i] \in ToSet(pending)
    BY <2>1, MemberIs
  <2> QED
    BY <2>1, <2>2
<1>2. checkout \subseteq Edits /\ \A e \in checkout : e[2] <= n
  BY DEF Types, Dated
<1>3. \A i \in 1 .. k : EditsOf(pending[i]) \subseteq Edits
  BY <1>1, EditsAre
<1>4. \A i \in 1 .. k : \A e \in EditsOf(pending[i]) : e[2] <= n
  BY <1>1, EditsAre
<1>5. ASSUME pc = "work", Clean, repair.deferred = <<>>
      PROVE  SyncedBy(k) \cap rejected = {}
  <2>1. \A i \in 1 .. k : EditsOf(pending[i]) \cap rejected = {}
    BY <1>1, <1>5, EditsAre
  <2>2. checkout \cap rejected = {}
    BY <1>5 DEF Clean
  <2> HIDE DEF EditsOf
  <2> QED
    BY <2>1, <2>2 DEF SyncedBy
<1> QED
  BY <1>2, <1>3, <1>4, <1>5 DEF SyncedBy

\* A failed worker, of the k + 1st pending subtask: what it leaves on disk and
\* in the repair record.
FailsAt(k, c, path, arts) ==
    LET s    == pending[k + 1]
        rest == SubSeq(pending, k + 2, Len(pending))
    IN /\ k \in 0 .. Len(pending) - 1 /\ c \in Failures
       /\ path \in Paths /\ arts \in Seq(Arts)
       /\ Unchanged(c) => path \in s.carry
       /\ \A a \in ToSet(arts) :
             \/ a \in ToSet(repair.arts)
             \/ /\ a.path = path
                /\ a.ok => a.reason \notin Unsafe
                /\ Unchanged(c) \/ (c.patch # "none" /\ a.reason = c.reason)
       /\ tried' = tried \cup {s.task[1]}
       /\ checkout' = SyncedBy(k)
       /\ did' = did \cup {pending[i].task[1] : i \in 1 .. k}
       /\ IF c.patch # "none" /\ ~Unchanged(c)
          THEN /\ DOMAIN files' = DOMAIN files \cup {path}
               /\ \A p \in DOMAIN files : p # path => files'[p] = files[p]
               /\ path \in DOMAIN files => files[path].reasons \subseteq files'[path].reasons
               /\ c.reason \in files'[path].reasons
               /\ files'[path].edits = EditsOf(s)
               /\ files'[path] \in Saved
          ELSE files' = files
       /\ repair'.arts = arts
       /\ \/ /\ pc' = "plan" /\ n' = n + 1 /\ outcome' = outcome
             /\ repair'.deferred = IF rest = <<>> THEN repair.deferred ELSE rest
          \/ /\ pc' = "done" /\ n' = n /\ outcome' = c.kind
             /\ repair'.deferred = repair.deferred
       /\ repair' \in Records
       /\ pc = "work"
       /\ UNCHANGED <<remote, capped, plan, pending, skipped, rejected, asked>>

\* The kept list with the patch of a failure merged in.
LEMMA MergedIs ==
    ASSUME NEW arts \in Seq(Arts), NEW a \in Arts
    PROVE  /\ Merged(arts, a) \in Seq(Arts)
           /\ \A x \in ToSet(Merged(arts, a)) : x \in ToSet(arts) \/ x = a
<1>1. /\ Append(arts, a) \in Seq(Arts)
      /\ ToSet(Append(arts, a)) = ToSet(arts) \cup {a}
  BY ToSetAppend
<1>2. Merged(arts, a) = arts \/ Merged(arts, a) = Append(arts, a)
  BY DEF Merged
<1> QED
  BY <1>1, <1>2

\* An artifact's mark agrees with its reason.
LEMMA ArtifactIs ==
    ASSUME NEW c \in Failures, NEW s \in Subtasks, NEW path \in Paths
    PROVE  LET a == Artifact(Failure(c, s), path) IN
           /\ a \in Arts /\ a.path = path
           /\ a.ok => a.reason \notin Unsafe
           /\ ~Unchanged(c) => a.reason = c.reason
<1> DEFINE f == Failure(c, s)
           why == IF f.kept # "none" THEN f.kept ELSE f.reason
           a == Artifact(f, path)
<1>1. /\ f.task = s.task /\ f.reason = c.reason /\ f.sides = c.sides /\ f.kind = c.kind
      /\ f.kept = IF Unchanged(c) THEN s.why ELSE "none"
  BY DEF Failure
<1>2. c.reason \in Reasons /\ s.why \in Reasons /\ s.task \in Ids /\ c.sides \subseteq BothSides
  BY RunPipelineAssumption DEF Reasons, Subtasks
<1>3. a = [task |-> f.task, reason |-> why, sides |-> f.sides, path |-> path,
           ok |-> Reusable(f.kind, why)]
  BY DEF Artifact
<1> HIDE DEF f
<1>4. why \in Reasons /\ (~Unchanged(c) => why = c.reason)
  BY <1>1, <1>2
<1>5. Reusable(f.kind, why) \in BOOLEAN /\ (Reusable(f.kind, why) => why \notin Unsafe)
  BY DEF Reusable, Unsafe
<1> HIDE DEF why, a
<1>6. a \in Arts
  BY <1>1, <1>2, <1>3, <1>4, <1>5 DEF Arts
<1> QED
  BY <1>3, <1>4, <1>5, <1>6 DEF a, f

\* A retry after an empty response is granted only within its budget.
LEMMA EmptyWithinBudget ==
    ASSUME NEW arts, NEW f, NEW k, NEW used, WorkerRetry(arts, f, k, used) = "empty"
    PROVE  used < Empty
<1> DEFINE feedback == f.kind \in Retryable
           cycle    == OneSidedCycle(arts, f)
           followup == cycle /\ FollowupCanRetry(arts, f)
           spent    == /\ f.kind = "engine_empty_response" /\ arts # <<>>
                       /\ ~EmptyCanRetry(arts, f, k, used)
           own      == /\ feedback /\ (CanRetry(f, k) \/ followup) /\ (cycle => followup)
                       /\ ~spent
           told     == feedback /\ (cycle => followup) /\ ~(spent /\ CanRetry(f, k))
<1>1. WorkerRetry(arts, f, k, used) =
         CASE own -> "own"
           [] told /\ ~cycle /\ Complementary(arts, k) -> "complementary"
           [] told /\ ~cycle /\ TestFailedAgain(arts, f, k) -> "test_failed"
           [] ~told /\ DestructiveCanRetry(arts, f, k) -> "destructive"
           [] told /\ StalledCanRetry(arts, f, k) -> "stalled"
           [] told /\ EmptyCanRetry(arts, f, k, used) -> "empty"
           [] OTHER -> "no"
  BY DEF WorkerRetry
<1> HIDE DEF own, told, cycle
<1>2. told /\ EmptyCanRetry(arts, f, k, used)
  BY <1>1
<1> QED
  BY <1>2 DEF EmptyCanRetry

\* The step in which a worker fails.
LEMMA FailsIs ==
    ASSUME Types, Replayable, Dated, WorkerFails
    PROVE  \E k, c, path, arts : FailsAt(k, c, path, arts)
<1> DEFINE Path(k, c) == IF Unchanged(c) THEN CHOOSE p \in pending[k + 1].carry : TRUE
                         ELSE <<k + 1, IF Failure(c, pending[k + 1]).patch = "own"
                                       THEN n + 1 ELSE 0>>
           Kept(k, c, path) ==
              IF HasPatch(Failure(c, pending[k + 1]))
              THEN Merged(repair.arts, Artifact(Failure(c, pending[k + 1]), path))
              ELSE repair.arts
           Were(path) == IF path \in DOMAIN files THEN files[path].reasons ELSE {}
           Done(k) == {pending[i].task : i \in 1 .. k} \cup skipped \cup repair.done
                        \cup {plan[i].task : i \in {j \in 1 .. Len(plan) :
                                \A m \in 1 .. Len(pending) : pending[m] # plan[j]}}
           Rest(k) == SubSeq(pending, k + 2, Len(pending))
           Written(k, c, path) ==
              IF HasPatch(Failure(c, pending[k + 1])) /\ ~Unchanged(c)
              THEN [p \in DOMAIN files \cup {path} |->
                      IF p = path
                      THEN [reasons |-> Were(path) \cup {Failure(c, pending[k + 1]).reason},
                            edits |-> EditsOf(pending[k + 1])]
                      ELSE files[p]]
              ELSE files
           Retry(k, c, arts) == WorkerRetry(arts, Failure(c, pending[k + 1]), n, repair.used)
<1>0. PICK k \in 0 .. Len(pending) - 1, c \in Failures :
          LET s    == pending[k + 1]
              f    == Failure(c, s)
              path == IF Unchanged(c) THEN CHOOSE p \in s.carry : TRUE
                      ELSE <<k + 1, IF f.patch = "own" THEN n + 1 ELSE 0>>
              were == IF path \in DOMAIN files THEN files[path].reasons ELSE {}
              arts == IF HasPatch(f) THEN Merged(repair.arts, Artifact(f, path)) ELSE repair.arts
              retry == WorkerRetry(arts, f, n, repair.used)
              ids  == {pending[i].task : i \in 1 .. k} \cup skipped \cup repair.done
                        \cup {plan[i].task : i \in {j \in 1 .. Len(plan) :
                                \A m \in 1 .. Len(pending) : pending[m] # plan[j]}}
              rest == SubSeq(pending, k + 2, Len(pending))
          IN /\ Unchanged(c) => s.carry # {}
             /\ tried' = tried \cup {s.task[1]}
             /\ checkout' = SyncedBy(k)
             /\ did' = did \cup {pending[i].task[1] : i \in 1 .. k}
             /\ files' = IF HasPatch(f) /\ ~Unchanged(c)
                         THEN [p \in DOMAIN files \cup {path} |->
                                 IF p = path
                                 THEN [reasons |-> were \cup {f.reason}, edits |-> EditsOf(s)]
                                 ELSE files[p]]
                         ELSE files
             /\ \/ /\ retry # "no"
                   /\ Again
                   /\ repair' = [arts |-> arts, done |-> ids,
                                 deferred |-> IF rest = <<>> THEN repair.deferred ELSE rest,
                                 partial |-> repair.partial \/ arts # <<>>,
                                 used |-> repair.used + IF retry = "empty" THEN 1 ELSE 0]
                \/ /\ retry = "no"
                   /\ Ends(f.kind)
                   /\ repair' = [repair EXCEPT !.arts = arts]
                   /\ UNCHANGED n
  BY DEF WorkerFails
<1>1. /\ Unchanged(c) => pending[k + 1].carry # {}
      /\ tried' = tried \cup {pending[k + 1].task[1]}
      /\ checkout' = SyncedBy(k)
      /\ did' = did \cup {pending[i].task[1] : i \in 1 .. k}
      /\ files' = Written(k, c, Path(k, c))
      /\ \/ /\ Retry(k, c, Kept(k, c, Path(k, c))) # "no"
            /\ Again
            /\ repair' = [arts |-> Kept(k, c, Path(k, c)), done |-> Done(k),
                          deferred |-> IF Rest(k) = <<>> THEN repair.deferred ELSE Rest(k),
                          partial |-> repair.partial \/ Kept(k, c, Path(k, c)) # <<>>,
                          used |-> repair.used +
                             IF Retry(k, c, Kept(k, c, Path(k, c))) = "empty" THEN 1 ELSE 0]
         \/ /\ Ends(Failure(c, pending[k + 1]).kind)
            /\ repair' = [repair EXCEPT !.arts = Kept(k, c, Path(k, c))]
            /\ UNCHANGED n
  BY <1>0, Zenon
<1> DEFINE s == pending[k + 1]
           path == Path(k, c)
           f == Failure(c, s)
           arts == Kept(k, c, path)
           rest == Rest(k)
<1>2. /\ pending \in Seq(Subtasks) /\ plan \in Seq(Subtasks) /\ Len(pending) \in Nat
      /\ k + 1 \in 1 .. Len(pending) /\ s \in Subtasks /\ s \in ToSet(plan) /\ n \in Nat
      /\ repair \in Records /\ repair.arts \in Seq(Arts) /\ repair.deferred \in Seq(Subtasks)
  <2>1. pending \in Seq(Subtasks) /\ Len(pending) \in Nat /\ plan \in Seq(Subtasks)
    BY DEF Types
  <2>2. k + 1 \in 1 .. Len(pending)
    BY <1>1, <2>1
  <2>3. s \in Subtasks /\ s \in ToSet(pending)
    BY <2>1, <2>2, MemberIs
  <2> QED
    BY <2>1, <2>2, <2>3 DEF Types, Records
<1>3. f.patch = c.patch /\ f.reason = c.reason /\ f.kind = c.kind
  BY DEF Failure
<1>4. path \in Paths /\ (Unchanged(c) => path \in s.carry)
  <2>1. CASE Unchanged(c)
    <3>1. path \in s.carry
      BY <1>1, <2>1
    <3> QED
      BY <1>2, <3>1 DEF Subtasks
  <2>2. CASE ~Unchanged(c)
    BY <1>1, <1>2, <2>2 DEF Paths
  <2> QED
    BY <2>1, <2>2
<1> HIDE DEF Path
<1> DEFINE a == Artifact(f, path)
<1>5. /\ a \in Arts /\ a.path = path
      /\ a.ok => a.reason \notin Unsafe
      /\ ~Unchanged(c) => a.reason = c.reason
  BY <1>2, <1>4, ArtifactIs
<1>6. /\ arts \in Seq(Arts)
      /\ \A x \in ToSet(arts) : x \in ToSet(repair.arts) \/ (HasPatch(f) /\ x = a)
  <2>1. CASE HasPatch(f)
    <3>1. arts = Merged(repair.arts, a)
      BY <2>1
    <3> HIDE DEF arts, a
    <3> QED
      BY <1>2, <1>5, <2>1, <3>1, MergedIs
  <2>2. CASE ~HasPatch(f)
    BY <1>2, <2>2
  <2> QED
    BY <2>1, <2>2
<1>7. \A x \in ToSet(arts) :
             \/ x \in ToSet(repair.arts)
             \/ /\ x.path = path
                /\ x.ok => x.reason \notin Unsafe
                /\ Unchanged(c) \/ (c.patch # "none" /\ x.reason = c.reason)
  <2> HIDE DEF arts, a
  <2> QED
    BY <1>3, <1>5, <1>6 DEF HasPatch
<1>8. IF c.patch # "none" /\ ~Unchanged(c)
      THEN /\ DOMAIN files' = DOMAIN files \cup {path}
           /\ \A p \in DOMAIN files : p # path => files'[p] = files[p]
           /\ path \in DOMAIN files => files[path].reasons \subseteq files'[path].reasons
           /\ c.reason \in files'[path].reasons
           /\ files'[path].edits = EditsOf(s)
           /\ files'[path] \in Saved
      ELSE files' = files
  <2>1. CASE c.patch # "none" /\ ~Unchanged(c)
    <3> DEFINE new == [reasons |-> Were(path) \cup {f.reason}, edits |-> EditsOf(s)]
    <3>1. files' = [p \in DOMAIN files \cup {path} |-> IF p = path THEN new ELSE files[p]]
      BY <1>1, <1>3, <2>1 DEF HasPatch
    <3>2. new \in Saved
      <4>1. EditsOf(s) \subseteq Edits
        BY <1>2, EditsAre
      <4>2. Were(path) \subseteq Reasons
        BY DEF Types, Saved
      <4>3. f.reason \in Reasons
        BY <1>1, <1>3 DEF Reasons
      <4> QED
        BY <4>1, <4>2, <4>3 DEF Saved
    <3>3. /\ new.edits = EditsOf(s) /\ c.reason \in new.reasons
          /\ path \in DOMAIN files => files[path].reasons \subseteq new.reasons
      BY <1>3
    <3> HIDE DEF new, path
    <3> QED
      BY <2>1, <3>1, <3>2, <3>3
  <2>2. CASE ~(c.patch # "none" /\ ~Unchanged(c))
    BY <1>1, <1>3, <2>2 DEF HasPatch
  <2> QED
    BY <2>1, <2>2
<1>9. repair.used \in 0 .. Empty /\ Empty \in Nat
  BY <1>2, RepairPolicyAssumption DEF Records
<1>10. rest \in Seq(Subtasks)
  BY <1>1, <1>2
<1>11. Done(k) \subseteq Ids
  <2>1. ASSUME NEW i \in 1 .. Len(pending) PROVE pending[i].task \in Ids
    <3>1. pending[i] \in Subtasks
      BY <1>2
    <3> QED
      BY <3>1 DEF Subtasks
  <2>2. ASSUME NEW i \in 1 .. Len(plan) PROVE plan[i].task \in Ids
    <3>1. plan[i] \in Subtasks
      BY <1>2
    <3> QED
      BY <3>1 DEF Subtasks
  <2>3. skipped \subseteq Ids /\ repair.done \subseteq Ids
    BY <1>2 DEF Types, Records
  <2>4. 1 .. k \subseteq 1 .. Len(pending)
    BY <1>1, <1>2
  <2> QED
    BY <2>1, <2>2, <2>3, <2>4
<1>12. CASE /\ Again
            /\ repair' = [arts |-> arts, done |-> Done(k),
                          deferred |-> IF rest = <<>> THEN repair.deferred ELSE rest,
                          partial |-> repair.partial \/ arts # <<>>,
                          used |-> repair.used + IF Retry(k, c, arts) = "empty" THEN 1 ELSE 0]
  <2>1. Retry(k, c, arts) = "empty" => repair.used < Empty
    BY EmptyWithinBudget
  <2> DEFINE used == repair.used + IF Retry(k, c, arts) = "empty" THEN 1 ELSE 0
  <2>2. used \in 0 .. Empty
    <3> HIDE DEF Retry
    <3> QED
      BY <1>9, <2>1
  <2>3. (repair.partial \/ arts # <<>>) \in BOOLEAN
    OBVIOUS
  <2>4. (IF rest = <<>> THEN repair.deferred ELSE rest) \in Seq(Subtasks)
    BY <1>2, <1>10
  <2> HIDE DEF used, arts, rest, Done
  <2>5. /\ repair' \in Records /\ repair'.arts = arts
        /\ repair'.deferred = IF rest = <<>> THEN repair.deferred ELSE rest
    BY <1>6, <1>11, <1>12, <2>2, <2>3, <2>4 DEF Records, used
  <2>6. pc' = "plan" /\ n' = n + 1 /\ outcome' = outcome
    BY <1>12 DEF Again
  <2> HIDE DEF path, s
  <2>7. FailsAt(k, c, path, arts)
    BY <1>1, <1>4, <1>6, <1>7, <1>8, <2>5, <2>6 DEF FailsAt, s, rest, WorkerFails
  <2> QED
    BY <2>7
<1>13. CASE /\ Ends(f.kind)
            /\ repair' = [repair EXCEPT !.arts = arts]
            /\ UNCHANGED n
  <2> HIDE DEF arts
  <2>1. repair' \in Records /\ repair'.arts = arts /\ repair'.deferred = repair.deferred
    BY <1>2, <1>6, <1>13 DEF Records
  <2>2. pc' = "done" /\ n' = n /\ outcome' = c.kind
    BY <1>3, <1>13 DEF Ends
  <2> HIDE DEF path, s, rest
  <2>3. FailsAt(k, c, path, arts)
    BY <1>1, <1>4, <1>6, <1>7, <1>8, <2>1, <2>2 DEF FailsAt, s, WorkerFails
  <2> QED
    BY <2>3
<1> QED
  BY <1>1, <1>12, <1>13

-----------------------------------------------------------------------------
(* The inductive steps *)

\* The loop has a bound, whatever the budgets are.
LEMMA MaxLoopsType == MaxLoops \in Nat
<1> DEFINE T == {Inc, Off, Empty, Failed, Weak, Named}
           b == Inc + Off + Empty + Failed + Weak + Named
<1>1. {Inc, Off, Empty, Failed, Weak, Named, Ver, Integ, Comp} \subseteq Nat /\ Base \in Nat
  BY RepairPolicyAssumption
<1>2. b \in Nat /\ T \in SUBSET (0 .. b) /\ T # {}
  BY <1>1
<1>3. Max(T) \in T
  BY <1>2, MaxIn
<1>4. WorkerExtra \in Nat
  BY <1>1, <1>3 DEF WorkerExtra
<1> QED
  BY <1>1, <1>4 DEF MaxLoops

\* The steps that leave the files, the plan and what is pending of it alone.
Lean == IntegrationPasses \/ NoDiff \/ IntegrationRejects \/ ReviewPasses \/ ReviewRejects
        \/ Finalize \/ PublishFails \/ Exhaust \/ BlockLost \/ ManagerBlocks \/ UNCHANGED vars

\* Where those steps lead: they go on, end, or start over; they keep the
\* checkout, drop it, or drop it as rejected together with the kept patches.
LEMMA LeanIs ==
    ASSUME Types, Lean
    PROVE  /\ UNCHANGED <<capped, files, plan, pending, skipped, asked, did, tried>>
           /\ \/ pc' = pc /\ n' = n /\ outcome' = outcome
              \/ /\ pc \notin {"plan", "work", "done"}
                 /\ pc' \in {"review", "finalize"} /\ n' = n /\ outcome' = outcome
              \/ /\ pc # "done" /\ pc' = "done" /\ n' = n /\ outcome' # "running"
                 /\ outcome' = "completed" => pc = "finalize"
              \/ pc = "integrate" /\ pc' = "plan" /\ n' = n + 1 /\ outcome' = outcome
              \/ pc = "review" /\ pc' = "plan" /\ n' = n + 1 /\ outcome' = outcome
           /\ \/ UNCHANGED <<checkout, repair, rejected>>
              \/ checkout' = {} /\ UNCHANGED <<repair, rejected>>
              \/ /\ rejected' = rejected \cup checkout /\ checkout' = {} /\ n' = n + 1
                 /\ repair' = [repair EXCEPT !.arts = <<>>, !.partial = FALSE]
<1>1. CASE IntegrationPasses
  BY <1>1 DEF IntegrationPasses
<1>2. CASE NoDiff
  BY <1>2 DEF NoDiff, Again, Ends
<1>3. CASE IntegrationRejects
  BY <1>3 DEF IntegrationRejects, Again, Ends, Reject
<1>4. CASE ReviewPasses
  BY <1>4 DEF ReviewPasses
<1>5. CASE ReviewRejects
  <2> HIDE DEF Verdicts
  <2> QED
    BY <1>5 DEF ReviewRejects, Again, Ends, Reject
<1>6. CASE Finalize
  BY <1>6 DEF Finalize, Ends
<1>7. CASE PublishFails
  BY <1>7 DEF PublishFails, Ends
<1>8. CASE Exhaust
  BY <1>8 DEF Exhaust, Ends
<1>9. CASE BlockLost
  BY <1>9 DEF BlockLost, Ends
<1>10. CASE ManagerBlocks
  BY <1>10 DEF ManagerBlocks, Ends
<1>11. CASE UNCHANGED vars
  BY <1>11 DEF vars
<1> QED
  BY <1>1, <1>2, <1>3, <1>4, <1>5, <1>6, <1>7, <1>8, <1>9, <1>10, <1>11 DEF Lean

\* What they leave of the repair record.
LEMMA LeanRepair ==
    ASSUME Types, Lean
    PROVE  /\ repair' \in Records /\ repair'.deferred = repair.deferred
           /\ repair'.arts = repair.arts \/ repair'.arts = <<>>
<1>1. repair' = repair \/ repair' = [repair EXCEPT !.arts = <<>>, !.partial = FALSE]
  BY LeanIs
<1>2. repair \in Records /\ <<>> \in Seq(Arts)
  BY DEF Types
<1>3. CASE repair' = repair
  BY <1>2, <1>3
<1>4. CASE repair' = [repair EXCEPT !.arts = <<>>, !.partial = FALSE]
  BY <1>2, <1>4 DEF Records
<1> QED
  BY <1>1, <1>3, <1>4

\* Every step keeps the types and the bounds.
LEMMA TypesStep ==
    ASSUME Types, Replayable, Dated, [Next]_vars
    PROVE  Types'
<1>0. MaxLoops \in Nat /\ n \in 0 .. MaxLoops
  BY MaxLoopsType DEF Types
<1>1. CASE Lean
  <2>1. repair' \in Records /\ checkout' \subseteq Edits /\ rejected' \subseteq Edits
    <3>1. checkout' \subseteq Edits /\ rejected' \subseteq Edits
      BY <1>1, LeanIs DEF Types
    <3> QED
      BY <1>1, <3>1, LeanRepair
  <2>2. /\ pc' \in {"plan", "work", "integrate", "review", "finalize", "done"}
        /\ n' \in 0 .. MaxLoops
        /\ pc' \notin {"plan", "done"} => n' < MaxLoops
        /\ pc' = "done" <=> outcome' # "running"
    BY <1>0, <1>1, LeanIs DEF Types
  <2>3. UNCHANGED <<capped, files, plan, pending, skipped>>
    BY <1>1, LeanIs
  <2> QED
    BY <2>1, <2>2, <2>3 DEF Types
<1>2. CASE Plan
  <2>1. /\ pc' \in {"plan", "work", "integrate", "review", "finalize", "done"}
        /\ n' \in 0 .. MaxLoops
        /\ pc' \notin {"plan", "done"} => n' < MaxLoops
        /\ pc' = "done" <=> outcome' # "running"
    BY <1>0, <1>2, PlanIs DEF Types
  <2>2. /\ plan' \in Seq(Subtasks) /\ pending' \in Seq(Subtasks) /\ capped' \in BOOLEAN
        /\ ToSet(pending') \subseteq ToSet(plan') /\ skipped' \subseteq Ids
        /\ UNCHANGED <<checkout, files, repair, rejected>>
    BY <1>2, PlanIs
  <2> QED
    BY <2>1, <2>2 DEF Types
<1>3. CASE WorkersDone
  <2>1. SyncedBy(Len(pending)) \subseteq Edits
    <3>1. Len(pending) \in 0 .. Len(pending)
      BY DEF Types
    <3> QED
      BY <3>1, SyncedIs
  <2>2. /\ pc' \in {"plan", "work", "integrate", "review", "finalize", "done"}
        /\ n' \in 0 .. MaxLoops
        /\ pc' \notin {"plan", "done"} => n' < MaxLoops
        /\ pc' = "done" <=> outcome' # "running"
    BY <1>0, <1>3 DEF Types, WorkersDone, Again, Ends
  <2>3. checkout' \subseteq Edits /\ UNCHANGED <<capped, files, repair, plan, pending, skipped, rejected>>
    BY <1>3, <2>1 DEF WorkersDone
  <2> QED
    BY <2>2, <2>3 DEF Types
<1>4. CASE WorkerFails
  <2>1. PICK k, c, path, arts : FailsAt(k, c, path, arts)
    BY <1>4, FailsIs
  <2>2. k \in 0 .. Len(pending) /\ c.kind \notin {"running", "completed"}
    BY <2>1, RunPipelineAssumption DEF FailsAt, Types
  <2>3. /\ pc' \in {"plan", "work", "integrate", "review", "finalize", "done"}
        /\ n' \in 0 .. MaxLoops
        /\ pc' \notin {"plan", "done"} => n' < MaxLoops
        /\ pc' = "done" <=> outcome' # "running"
    BY <1>0, <2>1, <2>2 DEF Types, FailsAt
  <2>4. checkout' \subseteq Edits
    BY <2>1, <2>2, SyncedIs DEF FailsAt
  <2>5. DOMAIN files' \subseteq Paths /\ \A p \in DOMAIN files' : files'[p] \in Saved
    BY <2>1 DEF Types, FailsAt
  <2>6. repair' \in Records /\ UNCHANGED <<capped, plan, pending, skipped, rejected>>
    BY <2>1 DEF FailsAt
  <2> QED
    BY <2>3, <2>4, <2>5, <2>6 DEF Types
<1> QED
  BY <1>1, <1>2, <1>3, <1>4 DEF Next, Lean

\* A patch is carried, kept or deferred only if it may be applied again: the
\* reasons a file was saved for are never forgotten, and plans take from the kept
\* and the deferred ones only.
LEMMA ReplayableStep ==
    ASSUME Types, Replayable, Dated, [Next]_vars
    PROVE  Replayable'
<1>1. CASE Lean
  <2>1. \A a \in ToSet(repair'.arts) : a \in ToSet(repair.arts)
    BY <1>1, LeanRepair DEF ToSet
  <2>2. UNCHANGED <<files, plan>> /\ repair'.deferred = repair.deferred
    BY <1>1, LeanIs, LeanRepair
  <2> QED
    BY <2>1, <2>2 DEF Replayable, Good
<1>2. CASE Plan
  <2>1. UNCHANGED <<files, repair>> /\ plan' \in Seq(Subtasks)
    BY <1>2, PlanIs
  <2>2. ASSUME NEW s \in ToSet(plan'), NEW p \in s.carry
        PROVE  Good(p)
    <3>1. PICK i \in 1 .. Len(plan') : s = plan'[i]
      BY <2>1, <2>2 DEF ToSet
    <3>2. CASE FromKept(s, repair.arts)
      <4>1. PICK j \in 1 .. Len(repair.arts) :
               p = repair.arts[j].path /\ (repair.arts[j].ok \/ repair.arts[j].reason \notin Unsafe)
        BY <2>2, <3>2 DEF FromKept
      <4>2. repair.arts[j] \in ToSet(repair.arts)
        BY <4>1, MemberIs DEF Types, Records
      <4> QED
        BY <4>1, <4>2 DEF Replayable
    <3>3. CASE \E d \in ToSet(repair.deferred) : s.carry = d.carry
      BY <2>2, <3>3 DEF Replayable
    <3> QED
      BY <1>2, <3>1, <3>2, <3>3, PlanIs
  <2> QED
    BY <2>1, <2>2 DEF Replayable, Good
<1>3. CASE WorkersDone
  BY <1>3 DEF WorkersDone, Replayable, Good
<1>4. CASE WorkerFails
  <2>1. PICK k, c, path, arts : FailsAt(k, c, path, arts)
    BY <1>4, FailsIs
  <2> DEFINE s == pending[k + 1]
             rest == SubSeq(pending, k + 2, Len(pending))
  <2>2. /\ pending \in Seq(Subtasks) /\ Len(pending) \in Nat /\ k \in 0 .. Len(pending) - 1
        /\ ToSet(pending) \subseteq ToSet(plan)
    BY <2>1 DEF Types, FailsAt
  <2>3. s \in ToSet(plan)
    <3>1. k + 1 \in 1 .. Len(pending)
      BY <2>2
    <3> QED
      BY <2>2, <3>1, MemberIs
  <2>4. ASSUME NEW p, Good(p)
        PROVE  Good(p)'
    BY <2>1, <2>4 DEF FailsAt, Good
  <2>5. DOMAIN files \subseteq DOMAIN files'
    BY <2>1 DEF FailsAt
  <2>6. ASSUME NEW a \in ToSet(arts)
        PROVE  /\ a.path \in DOMAIN files'
               /\ a.ok => a.reason \notin Unsafe
               /\ a.reason \notin Unsafe => Good(a.path)'
    <3>1. CASE a \in ToSet(repair.arts)
      BY <2>4, <2>5, <3>1 DEF Replayable
    <3>2. CASE /\ a.path = path /\ (a.ok => a.reason \notin Unsafe) /\ Unchanged(c)
      <4>1. Good(path)
        BY <2>1, <2>3, <3>2 DEF FailsAt, Replayable
      <4> QED
        BY <2>4, <3>2, <4>1 DEF Good
    <3>3. CASE /\ a.path = path /\ (a.ok => a.reason \notin Unsafe)
               /\ ~Unchanged(c) /\ c.patch # "none" /\ a.reason = c.reason
      <4>1. path \in DOMAIN files' /\ c.reason \in files'[path].reasons
        BY <2>1, <3>3 DEF FailsAt
      <4> QED
        BY <3>3, <4>1 DEF Good
    <3> QED
      BY <2>1, <2>6, <3>1, <3>2, <3>3 DEF FailsAt
  <2>7. ASSUME NEW d \in ToSet(repair'.deferred)
        PROVE  d \in ToSet(repair.deferred) \/ d \in ToSet(plan)
    <3>1. CASE repair'.deferred = repair.deferred
      BY <2>7, <3>1
    <3>2. CASE repair'.deferred = rest
      <4>1. /\ rest \in Seq(Subtasks)
            /\ \A i \in 1 .. Len(rest) : k + 1 + i \in 1 .. Len(pending) /\ rest[i] = pending[k + 1 + i]
        BY <2>2
      <4> HIDE DEF rest
      <4>2. PICK i \in 1 .. Len(rest) : d = rest[i]
        BY <2>7, <3>2, <4>1 DEF ToSet
      <4>3. d \in ToSet(pending)
        BY <2>2, <4>1, <4>2, MemberIs
      <4> QED
        BY <2>2, <4>3
    <3> QED
      BY <2>1, <3>1, <3>2 DEF FailsAt
  <2>8. plan' = plan /\ repair'.arts = arts
    BY <2>1 DEF FailsAt
  <2> HIDE DEF Good
  <2>9. \A x \in ToSet(plan') : \A p \in x.carry : Good(p)'
    BY <2>4, <2>8 DEF Replayable
  <2>10. \A x \in ToSet(repair'.deferred) : \A p \in x.carry : Good(p)'
    BY <2>4, <2>7 DEF Replayable
  <2> QED
    BY <2>6, <2>8, <2>9, <2>10 DEF Replayable
<1> QED
  BY <1>1, <1>2, <1>3, <1>4 DEF Next, Lean

\* Edits are dated by the attempt that makes them, and an attempt ends when its
\* checkout is rejected.
LEMMA DatedStep ==
    ASSUME Types, Replayable, Dated, [Next]_vars
    PROVE  Dated'
<1>0. n \in Nat
  BY MaxLoopsType DEF Types
<1>1. CASE Lean
  <2>1. files' = files /\ (n' = n \/ n' = n + 1)
    BY <1>1, LeanIs
  <2>2. \A e \in Edits : e[2] \in Nat
    BY DEF Edits
  <2>3. /\ checkout \subseteq Edits /\ rejected \subseteq Edits
        /\ \A p \in DOMAIN files : files[p].edits \subseteq Edits
    BY DEF Types, Saved
  <2>4. CASE UNCHANGED rejected
    <3>1. \A e \in checkout' : e \in checkout
      BY <1>1, <2>4, LeanIs
    <3> QED
      BY <1>0, <2>1, <2>2, <2>3, <2>4, <3>1 DEF Dated
  <2>5. CASE rejected' = rejected \cup checkout /\ checkout' = {} /\ n' = n + 1
    BY <1>0, <2>1, <2>2, <2>3, <2>5 DEF Dated
  <2> QED
    BY <1>1, <2>4, <2>5, LeanIs
<1>2. CASE Plan
  <2>1. UNCHANGED <<n, checkout, files, rejected>>
    BY <1>2, PlanIs
  <2> QED
    BY <2>1 DEF Dated
<1>3. ASSUME NEW k \in 0 .. Len(pending), checkout' = SyncedBy(k), rejected' = rejected,
             n' = n \/ n' = n + 1
      PROVE  /\ \A e \in checkout' : e[2] <= n'
             /\ \A e \in rejected' : e[2] < n'
  <2>1. \A e \in SyncedBy(k) : e[2] <= n /\ e[2] \in Nat
    BY SyncedIs DEF Edits
  <2>2. \A e \in rejected : e[2] < n /\ e[2] \in Nat
    BY DEF Dated, Types, Edits
  <2> QED
    BY <1>0, <1>3, <2>1, <2>2
<1>4. ASSUME n' = n \/ n' = n + 1, NEW p \in DOMAIN files
      PROVE  \A e \in files[p].edits : e[2] <= n'
  <2>1. \A e \in files[p].edits : e[2] <= n /\ e[2] \in Nat
    BY DEF Dated, Types, Edits, Saved
  <2> QED
    BY <1>0, <1>4, <2>1
<1>5. CASE WorkersDone
  <2>1. Len(pending) \in 0 .. Len(pending)
    BY DEF Types
  <2>2. /\ checkout' = SyncedBy(Len(pending)) /\ rejected' = rejected /\ files' = files
        /\ n' = n \/ n' = n + 1
    BY <1>5 DEF WorkersDone, Again
  <2> QED
    BY <1>3, <1>4, <2>1, <2>2 DEF Dated
<1>6. CASE WorkerFails
  <2>1. PICK k, c, path, arts : FailsAt(k, c, path, arts)
    BY <1>6, FailsIs
  <2>2. /\ k \in 0 .. Len(pending) /\ k + 1 \in 1 .. Len(pending)
        /\ pending \in Seq(Subtasks) /\ ToSet(pending) \subseteq ToSet(plan)
    BY <2>1 DEF FailsAt, Types
  <2>3. /\ checkout' = SyncedBy(k) /\ rejected' = rejected /\ (n' = n \/ n' = n + 1)
    BY <2>1 DEF FailsAt
  <2>4. pending[k + 1] \in ToSet(plan)
    BY <2>2, MemberIs
  <2>5. \A e \in EditsOf(pending[k + 1]) : e[2] <= n'
    <3>1. \A e \in EditsOf(pending[k + 1]) : e[2] <= n /\ e[2] \in Nat
      BY <2>4, EditsAre DEF Edits
    <3> QED
      BY <1>0, <2>3, <3>1
  <2>6. ASSUME NEW p \in DOMAIN files'
        PROVE  \A e \in files'[p].edits : e[2] <= n'
    <3>1. \/ p \in DOMAIN files /\ files'[p] = files[p]
          \/ files'[p].edits = EditsOf(pending[k + 1])
      BY <2>1 DEF FailsAt
    <3> QED
      BY <1>4, <2>3, <2>5, <3>1
  <2> QED
    BY <1>3, <2>2, <2>3, <2>6 DEF Dated
<1> QED
  BY <1>1, <1>2, <1>5, <1>6 DEF Next, Lean

\* A rejection drops all kept patches with the checkout, and later edits are of
\* a later attempt.
LEMMA CleanStep ==
    ASSUME Types, Replayable, Dated, Clean, [Next]_vars
    PROVE  Clean'
<1>0. SUFFICES ASSUME repair'.deferred = <<>>
               PROVE  /\ checkout' \cap rejected' = {}
                      /\ \A a \in ToSet(repair'.arts) : files'[a.path].edits \cap rejected' = {}
                      /\ pc' = "work" => \A s \in ToSet(plan') : \A p \in s.carry :
                                            files'[p].edits \cap rejected' = {}
  BY DEF Clean, CleanPatch
<1>1. CASE Lean
  <2>1. repair.deferred = <<>>
    BY <1>0, <1>1, LeanRepair
  <2>2. /\ checkout \cap rejected = {}
        /\ \A a \in ToSet(repair.arts) : files[a.path].edits \cap rejected = {}
        /\ pc = "work" => \A s \in ToSet(plan) : \A p \in s.carry :
                              files[p].edits \cap rejected = {}
    BY <2>1 DEF Clean, CleanPatch
  <2>3. CASE UNCHANGED rejected
    <3>1. /\ UNCHANGED <<files, plan>> /\ checkout' \subseteq checkout
          /\ pc' = "work" => pc = "work"
      BY <1>1, <2>3, LeanIs
    <3>2. ToSet(repair'.arts) \subseteq ToSet(repair.arts)
      BY <1>1, LeanRepair DEF ToSet
    <3> QED
      BY <2>2, <2>3, <3>1, <3>2
  <2>4. CASE checkout' = {} /\ n' = n + 1 /\ repair' = [repair EXCEPT !.arts = <<>>, !.partial = FALSE]
    <3>1. repair'.arts = <<>>
      BY <2>4 DEF Types, Records
    <3>2. ToSet(repair'.arts) = {}
      BY <3>1 DEF ToSet
    <3>3. pc' # "work"
      BY <1>1, <2>4, LeanIs, MaxLoopsType DEF Types
    <3> QED
      BY <2>4, <3>2, <3>3
  <2> QED
    BY <1>1, <2>3, <2>4, LeanIs
<1>2. CASE Plan
  <2>1. UNCHANGED <<checkout, files, repair, rejected>> /\ plan' \in Seq(Subtasks)
    BY <1>2, PlanIs
  <2>2. /\ checkout \cap rejected = {}
        /\ \A a \in ToSet(repair.arts) : files[a.path].edits \cap rejected = {}
    BY <1>0, <2>1 DEF Clean, CleanPatch
  <2>3. ASSUME NEW s \in ToSet(plan'), NEW p \in s.carry
        PROVE  files[p].edits \cap rejected = {}
    <3>1. PICK i \in 1 .. Len(plan') : s = plan'[i]
      BY <2>1, <2>3 DEF ToSet
    <3>2. ToSet(repair.deferred) = {}
      BY <1>0, <2>1 DEF ToSet
    <3>3. FromKept(s, repair.arts)
      BY <1>2, <3>1, <3>2, PlanIs
    <3>4. PICK j \in 1 .. Len(repair.arts) : p = repair.arts[j].path
      BY <2>3, <3>3 DEF FromKept
    <3>5. repair.arts[j] \in ToSet(repair.arts)
      BY <3>4, MemberIs DEF Types, Records
    <3> QED
      BY <2>2, <3>4, <3>5
  <2> QED
    BY <2>1, <2>2, <2>3
<1>3. CASE WorkersDone
  <2>1. repair' = repair /\ files' = files /\ rejected' = rejected /\ pc = "work" /\ pc' # "work"
        /\ checkout' = SyncedBy(Len(pending))
    BY <1>3 DEF WorkersDone, Again, Ends
  <2>2. Len(pending) \in 0 .. Len(pending)
    BY DEF Types
  <2>3. SyncedBy(Len(pending)) \cap rejected = {}
    BY <1>0, <2>1, <2>2, SyncedIs
  <2>4. \A a \in ToSet(repair.arts) : files[a.path].edits \cap rejected = {}
    BY <1>0, <2>1 DEF Clean, CleanPatch
  <2> QED
    BY <2>1, <2>3, <2>4
<1>4. CASE WorkerFails
  <2>1. PICK k, c, path, arts : FailsAt(k, c, path, arts)
    BY <1>4, FailsIs
  <2>2. /\ k \in 0 .. Len(pending) /\ k + 1 \in 1 .. Len(pending)
        /\ pending \in Seq(Subtasks) /\ ToSet(pending) \subseteq ToSet(plan)
    BY <2>1 DEF FailsAt, Types
  <2>3. /\ checkout' = SyncedBy(k) /\ rejected' = rejected /\ pc = "work" /\ pc' # "work"
        /\ repair'.arts = arts /\ repair.deferred = <<>>
    BY <1>0, <2>1 DEF FailsAt
  <2>4. pending[k + 1] \in ToSet(plan)
    BY <2>2, MemberIs
  <2>5. EditsOf(pending[k + 1]) \cap rejected = {} /\ SyncedBy(k) \cap rejected = {}
    BY <2>2, <2>3, <2>4, EditsAre, SyncedIs
  <2>6. /\ \A a \in ToSet(repair.arts) : files[a.path].edits \cap rejected = {}
        /\ \A p \in pending[k + 1].carry : files[p].edits \cap rejected = {}
    BY <2>3, <2>4 DEF Clean, CleanPatch
  <2>7. ASSUME NEW a \in ToSet(arts)
        PROVE  files'[a.path].edits \cap rejected = {}
    <3>1. CASE files'[a.path].edits = EditsOf(pending[k + 1])
      BY <2>5, <3>1
    <3>2. CASE a \in ToSet(repair.arts) /\ files'[a.path] = files[a.path]
      BY <2>6, <3>2
    <3>3. CASE a.path = path /\ Unchanged(c)
      <4>1. path \in pending[k + 1].carry /\ files' = files
        BY <2>1, <3>3 DEF FailsAt
      <4> QED
        BY <2>6, <3>3, <4>1
    <3>4. a \in ToSet(repair.arts) => a.path \in DOMAIN files
      BY DEF Replayable
    <3> QED
      BY <2>1, <2>7, <3>1, <3>2, <3>3, <3>4 DEF FailsAt
  <2> QED
    BY <2>3, <2>5, <2>7
<1> QED
  BY <1>1, <1>2, <1>3, <1>4 DEF Next, Lean

\* What a failed worker leaves pending is deferred, and what is deferred is in
\* the next plan.
LEMMA RememberedStep ==
    ASSUME Types, Replayable, Dated, Remembered, [Next]_vars
    PROVE  Remembered'
<1>1. CASE Lean
  <2>1. UNCHANGED <<capped, pending, asked, did, tried>> /\ repair'.deferred = repair.deferred
    BY <1>1, LeanIs, LeanRepair
  <2>2. pc = "done" <=> outcome # "running"
    BY DEF Types
  <2>3. \/ pc' = pc /\ outcome' = outcome
        \/ pc \notin {"plan", "work", "done"} /\ pc' \notin {"work"}
        \/ pc' = "done" /\ outcome' # "completed"
    BY <1>1, LeanIs DEF Types
  <2>4. CASE pc' = pc /\ outcome' = outcome
    BY <2>1, <2>4 DEF Remembered, NamesIn
  <2>5. CASE pc \notin {"plan", "work", "done"} /\ pc' \notin {"work"}
    <3>1. pc \in {"integrate", "review", "finalize"}
      BY <2>5 DEF Types
    <3> QED
      BY <2>1, <2>5, <3>1 DEF Remembered, NamesIn
  <2>6. CASE pc' = "done" /\ outcome' # "completed"
    BY <2>6 DEF Remembered
  <2> QED
    BY <2>3, <2>4, <2>5, <2>6
<1>2. CASE Plan
  <2>1. SUFFICES ASSUME ~capped' PROVE asked' \subseteq did' \cup tried' \cup NamesIn(pending')
    <3>1. pending' = <<>> => NamesIn(pending') = {}
      BY DEF NamesIn
    <3>2. \/ pc' = "work" /\ outcome' = "running"
          \/ pc' = "done" /\ pending' = <<>>
      BY <1>2, PlanIs DEF Types
    <3> QED
      BY <2>1, <3>1, <3>2 DEF Remembered, NamesIn
  <2>2. asked \subseteq did \cup tried \cup NamesIn(repair.deferred)
    BY <1>2, <2>1, PlanIs DEF Remembered
  <2>3. /\ NamesIn(repair.deferred) \subseteq NamesIn(plan') /\ tried' = tried
        /\ NamesIn(plan') \subseteq did' \cup NamesIn(pending') /\ did \subseteq did'
        /\ asked' = asked \cup NamesIn(plan')
    BY <1>2, <2>1, PlanIs
  <2> QED
    BY <2>2, <2>3
<1>3. CASE WorkersDone
  <2>1. SUFFICES ASSUME ~capped' PROVE asked' \subseteq did' \cup tried'
    BY <2>1 DEF Remembered
  <2>2. asked \subseteq did \cup tried \cup NamesIn(pending)
    BY <1>3, <2>1 DEF Remembered, WorkersDone
  <2>3. did' = did \cup NamesIn(pending) /\ asked' = asked /\ tried' = tried
    BY <1>3 DEF WorkersDone, NamesIn
  <2> QED
    BY <2>2, <2>3
<1>4. CASE WorkerFails
  <2>1. PICK k, c, path, arts : FailsAt(k, c, path, arts)
    BY <1>4, FailsIs
  <2> DEFINE rest == SubSeq(pending, k + 2, Len(pending))
  <2>2. c.kind # "completed"
    BY <2>1, RunPipelineAssumption DEF FailsAt
  <2>3. pc = "work" /\ outcome = "running"
    BY <2>1 DEF FailsAt, Types
  <2>4. CASE pc' = "done" /\ outcome' = c.kind
    BY <2>2, <2>4 DEF Remembered
  <2>5. CASE /\ pc' = "plan" /\ outcome' = outcome
             /\ repair'.deferred = IF rest = <<>> THEN repair.deferred ELSE rest
    <3>1. SUFFICES ASSUME ~capped'
                   PROVE  asked' \subseteq did' \cup tried' \cup NamesIn(repair'.deferred)
      BY <2>3, <2>5, <3>1 DEF Remembered, NamesIn
    <3>2. asked \subseteq did \cup tried \cup NamesIn(pending) /\ asked' = asked
      BY <2>1, <3>1 DEF Remembered, FailsAt
    <3>3. /\ tried' = tried \cup {pending[k + 1].task[1]}
          /\ did' = did \cup {pending[i].task[1] : i \in 1 .. k}
          /\ k \in 0 .. Len(pending) - 1 /\ pending \in Seq(Subtasks) /\ Len(pending) \in Nat
      BY <2>1 DEF FailsAt, Types
    <3>4. ASSUME NEW i \in 1 .. Len(pending)
          PROVE  pending[i].task[1] \in did' \cup tried' \cup NamesIn(repair'.deferred)
      <4>1. CASE i \in 1 .. k
        BY <3>3, <4>1
      <4>2. CASE i = k + 1
        BY <3>3, <4>2
      <4>3. CASE i \in k + 2 .. Len(pending)
        <5>1. /\ rest \in Seq(Subtasks) /\ Len(rest) = Len(pending) - k - 1
              /\ i - k - 1 \in 1 .. Len(rest) /\ rest[i - k - 1] = pending[i]
          BY <3>3, <4>3
        <5>2. rest # <<>>
          BY <5>1
        <5> HIDE DEF rest
        <5>3. repair'.deferred = rest
          BY <2>5, <5>2
        <5>4. pending[i].task[1] \in NamesIn(rest)
          BY <5>1 DEF NamesIn
        <5> QED
          BY <5>3, <5>4
      <4> QED
        BY <3>3, <3>4, <4>1, <4>2, <4>3
    <3>5. NamesIn(pending) \subseteq did' \cup tried' \cup NamesIn(repair'.deferred)
      BY <3>4 DEF NamesIn
    <3> QED
      BY <3>2, <3>3, <3>5
  <2> QED
    BY <2>1, <2>4, <2>5 DEF FailsAt
<1> QED
  BY <1>1, <1>2, <1>3, <1>4 DEF Next, Lean

\* The invariant holds before the first attempt.
LEMMA InvariantInit ==
    ASSUME Init
    PROVE  IInv
<1>1. MaxLoops \in Nat /\ Empty \in Nat
  BY MaxLoopsType, RepairPolicyAssumption
<1>2. repair \in Records
  BY <1>1 DEF Init, NoRepair, Records
<1>3. /\ plan = <<>> /\ pending = <<>> /\ repair.arts = <<>> /\ repair.deferred = <<>>
      /\ ToSet(<<>>) = {} /\ DOMAIN files = {}
  BY DEF Init, NoRepair, ToSet
<1>4. Types
  <2>1. plan \in Seq(Subtasks) /\ pending \in Seq(Subtasks) /\ ToSet(pending) \subseteq ToSet(plan)
    BY <1>3
  <2>2. /\ pc = "plan" /\ outcome = "running" /\ capped \in BOOLEAN
        /\ checkout = {} /\ rejected = {} /\ skipped = {}
    BY DEF Init
  <2>3. n \in 0 .. MaxLoops
    BY <1>1 DEF Init
  <2> QED
    BY <1>2, <1>3, <2>1, <2>2, <2>3 DEF Types
<1>5. Replayable /\ Clean /\ Dated
  BY <1>3 DEF Init, Replayable, Clean, Dated
<1>6. Remembered
  BY DEF Init, Remembered
<1> QED
  BY <1>4, <1>5, <1>6 DEF IInv

\* The inductive invariant holds in every reachable state of the repair loop.
THEOREM Invariance == Spec => []IInv
<1>1. IInv /\ [Next]_vars => IInv'
  BY TypesStep, ReplayableStep, RememberedStep, DatedStep, CleanStep DEF IInv
<1> QED
  BY <1>1, InvariantInit, PTL DEF Spec

\* Whatever plans the manager makes and however the workers fail: the loop stays
\* within MaxLoops attempts, the empty-response budget is never overdrawn, and
\* every patch a plan or the repair record names has been saved.
THEOREM Typing == Spec => []TypeOK
<1>1. ASSUME IInv PROVE TypeOK
  <2>1. ASSUME NEW s \in ToSet(plan)
        PROVE  s.task[1] \in Names /\ s.carry \subseteq DOMAIN files
    <3>1. s \in Subtasks
      BY <1>1, <2>1, MemberIs DEF IInv, Types
    <3>2. s.task \in Ids
      BY <3>1 DEF Subtasks
    <3> QED
      BY <1>1, <2>1, <3>2, IdType DEF IInv, Replayable, Good
  <2>2. repair.used \in 0 .. Empty
    BY <1>1 DEF IInv, Types, Records
  <2>3. \A a \in ToSet(repair.arts) : a.path \in DOMAIN files
    BY <1>1 DEF IInv, Replayable
  <2>4. Types
    BY <1>1 DEF IInv
  <2> QED
    BY <2>1, <2>2, <2>3, <2>4 DEF TypeOK, Types
<1> QED
  BY <1>1, Invariance, PTL

\* No attempt applies a patch that only guards' rejections were saved under
\* (patch_reusable), by whichever of the planners' ways it could come back.
THEOREM NoUnsafeReplay == Spec => []UnsafeNeverReplayed
<1>1. IInv => UnsafeNeverReplayed
  BY DEF IInv, Replayable, Good, Unsafe, UnsafeNeverReplayed
<1> QED
  BY <1>1, Invariance, PTL

\* A run whose manager always planned completes only when every subtask that was
\* ever in a plan was done or tried, whatever was narrowed away or deferred.
THEOREM EveryPlanTakenUp == Spec => []NothingForgotten
<1>1. IInv => NothingForgotten
  BY DEF IInv, Remembered, NothingForgotten
<1> QED
  BY <1>1, Invariance, PTL

\* As long as nothing is deferred, rejected edits are in no later checkout and in
\* no patch that a later attempt starts from.
THEOREM RejectedGone == Spec => []RejectedStaysOut
<1>1. IInv => RejectedStaysOut
  BY DEF IInv, Clean, CleanPatch, RejectedStaysOut
<1> QED
  BY <1>1, Invariance, PTL

=============================================================================
