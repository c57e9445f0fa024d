----------------------- MODULE CoderSupervisorProofs -----------------------
(* Theorems about CoderSupervisor, for any numbers of operators' requests,   *)
(* attempts, executions and restarts, and any states of the pull request.    *)
EXTENDS CoderSupervisor, TLAPS

(* The two ways in which a thread goes on.                                   *)
LEMMA GotoType ==
  ASSUME me \in [Threads -> Local], NEW a \in Threads, NEW s \in Steps, Goto(a, s)
  PROVE  me' \in [Threads -> Local]
<1>1. me[a] \in Local
  OBVIOUS
<1>2. Idle \in Local /\ Fresh \in Meta /\ "idle" \in Steps /\ "" \in Lifecycles
  BY DEF Idle, Local, Fresh, Meta, Steps, Lifecycles, Decisions, TandemStatuses
<1>3. [Idle EXCEPT !.pc = s] \in Local
  BY <1>2 DEF Local
<1>4. [me[a] EXCEPT !.pc = s, !.nxt = "idle", !.copy = Fresh, !.lc = ""] \in Local
  BY <1>1, <1>2 DEF Local
<1> QED BY <1>3, <1>4 DEF Goto

LEMMA ReadBackType ==
  ASSUME me \in [Threads -> Local], NEW a \in Threads, NEW m \in Meta, NEW s \in Steps,
         ReadBack(a, m, s)
  PROVE  me' \in [Threads -> Local]
<1>1. me[a] \in Local /\ "write" \in Steps
  BY DEF Steps
<1>2. [me[a] EXCEPT !.copy = m, !.pc = "write", !.nxt = s] \in Local
  BY <1>1 DEF Local
<1>3. me' = [me EXCEPT ![a] = [me[a] EXCEPT !.copy = m, !.pc = "write", !.nxt = s]]
  BY <1>1 DEF ReadBack
<1> QED BY <1>2, <1>3

(* A pass of any thread ends in one of two steps.                            *)
LEMMA OutType == \A a : Out(a) \in {"idle", "end"} /\ Out(a) \in Steps
  BY DEF Out, Steps

(* pull_request_lifecycle_state has a name for every pull request.           *)
LEMMA LifecycleType ==
  ASSUME NEW v \in View
  PROVE  LifecycleState(v) \in Lifecycles /\ (LifecycleState(v) = "merged" => v.merged)
         /\ LifecycleState(v) # "needs-human"
<1>1. v.merged \in BOOLEAN /\ v.closed \in BOOLEAN
  BY DEF View
<1>2. CASE v.merged
  BY <1>1, <1>2 DEF LifecycleState, Lifecycles
<1>3. CASE ~v.merged /\ v.closed
  BY <1>1, <1>3 DEF LifecycleState, Lifecycles
<1>4. CASE ~v.merged /\ ~v.closed
  BY <1>1, <1>4 DEF LifecycleState, Lifecycles
<1> QED BY <1>1, <1>2, <1>3, <1>4

(* What GitHub says of the pull request is a view.                           *)
LEMMA ViewType ==
  ASSUME TypeOK
  PROVE  /\ pr.view \in View /\ pr.feedback \in 0 .. MaxFeedback
         /\ \A v \in PrViews : v \in View /\ Merged(v) \in View
         /\ Merged(pr.view) \in PrViews \union {Merged(v) : v \in PrViews}
         /\ Merged(pr.view).merged
         /\ pr = [view |-> pr.view, feedback |-> pr.feedback]
<1>1. \A v \in PrViews : v \in View /\ Merged(v) \in View
  BY SupervisorAssumption DEF View, Merged
<1>2. pr.view \in PrViews \union {Merged(v) : v \in PrViews} /\ pr.feedback \in 0 .. MaxFeedback
  BY DEF TypeOK
<1>3. \A v \in View : Merged(Merged(v)) = Merged(v) /\ Merged(v).merged
  BY DEF View, Merged
<1>4. pr = [view |-> pr.view, feedback |-> pr.feedback]
  BY DEF TypeOK
<1> QED BY <1>1, <1>2, <1>3, <1>4

(* The decisions of the repair gate, with a breaker of the metadata's kind.  *)
(* A pass that may go ahead has an attempt and an execution left, and counts *)
(* the attempt.                                                              *)
LEMMA DecidedType ==
  ASSUME NEW m \in Meta, NEW g \in Nat, NEW d \in Decided(m, g)
  PROVE  /\ d[1] \in Decisions /\ d[2] \in Meta
         /\ d[1] = "proceed" => /\ d[2].attempts = m.attempts + 1 /\ m.attempts < MaxAttempts
                                /\ ~OverBudget(m)
         /\ d[1] # "proceed" => d[2].attempts = m.attempts
         /\ d[1] \in {"proceed", "defer"} => d[2].escalated = m.escalated
<1> DEFINE e == [m EXCEPT !.escalated = TRUE]
           q == [m EXCEPT !.attempts = @ + 1, !.signature = g]
<1>m. /\ m.attempts \in Nat /\ m.attempts + 1 \in Nat
      /\ m = [attempts |-> m.attempts, signature |-> m.signature, escalated |-> m.escalated,
              tokens |-> m.tokens, cost |-> m.cost, executions |-> m.executions]
  BY DEF Meta
<1>e. e \in Meta /\ e.attempts = m.attempts
  BY <1>m DEF Meta
<1>q. q \in Meta /\ q.attempts = m.attempts + 1
  BY <1>m DEF Meta
<1>b. q.escalated = m.escalated
  BY <1>m
<1>2. \/ d = <<"escalate", e>> \/ d = <<"skip", e>>
      \/ d = <<"skip", m>> \/ d = <<"defer", m>>
      \/ d = <<"proceed", q>> /\ ~OverBudget(m) /\ ~(m.attempts >= MaxAttempts)
      \/ d = <<"proceed", q>> /\ ~OverBudget(m) /\ m.attempts = 0
  BY DEF Decided
<1>3. MaxAttempts \in Nat \ {0}
  BY SupervisorAssumption
<1> HIDE DEF e, q
<1>4. CASE d = <<"escalate", e>> \/ d = <<"skip", e>>
  <2>1. d[1] \in {"escalate", "skip"} /\ d[2] = e
    BY <1>4
  <2> QED BY <2>1, <1>e DEF Decisions
<1>5. CASE d = <<"skip", m>> \/ d = <<"defer", m>>
  <2>1. d[1] \in {"skip", "defer"} /\ d[2] = m
    BY <1>5
  <2> QED BY <2>1 DEF Decisions
<1>6. CASE d = <<"proceed", q>> /\ ~OverBudget(m) /\ (~(m.attempts >= MaxAttempts) \/ m.attempts = 0)
  <2>1. d[1] = "proceed" /\ d[2] = q
    BY <1>6
  <2>2. m.attempts < MaxAttempts
    BY <1>6, <1>3, <1>m
  <2> QED BY <1>6, <2>1, <2>2, <1>q, <1>b DEF Decisions
<1> QED BY <1>2, <1>4, <1>5, <1>6

(* A thread that spends what a coder run reports.                            *)
LEMMA SpendType ==
  ASSUME NEW m \in Meta, NEW u \in Usages
  PROVE  [m EXCEPT !.tokens = @ + u.tokens, !.cost = @ + u.cost, !.executions = @ + 1] \in Meta
<1>1. u.tokens \in Nat /\ u.cost \in Nat
  BY SupervisorAssumption
<1>2. m.tokens \in Nat /\ m.cost \in Nat /\ m.executions \in Nat
  BY DEF Meta
<1>3. m.tokens + u.tokens \in Nat /\ m.cost + u.cost \in Nat /\ m.executions + 1 \in Nat
  BY <1>1, <1>2
<1> QED BY <1>3 DEF Meta

-----------------------------------------------------------------------------
(* A step of a thread over the pull request or the coder keeps the types.    *)
LEMMA ThreadTypes ==
  ASSUME TypeOK, NEW a \in Threads, PullRequestStep(a) \/ ReconcileStep(a)
  PROVE  TypeOK'
<1> USE OutType
<1>m. /\ me \in [Threads -> Local] /\ me[a] \in Local /\ meta \in Meta
      /\ me[a].lc \in Lifecycles /\ me[a].nxt \in Steps /\ me[a].copy \in Meta
      /\ me[a].breaker \in Meta /\ me[a].got \in TandemStatuses
      /\ file \in [status : Statuses, lc : Lifecycles, src : BOOLEAN]
  BY DEF TypeOK, Local
<1>k. TypeOK' <=>
        /\ file' \in [status : Statuses, lc : Lifecycles, src : BOOLEAN]
        /\ meta' \in Meta
        /\ me' \in [Threads -> Local]
        /\ pr' \in [view : PrViews \union {Merged(v) : v \in PrViews}, feedback : 0 .. MaxFeedback]
        /\ tandem' \in TandemStatuses
        /\ passes' \in Nat
        /\ settled' \in {"no", "done", "blocked"}
        /\ overlap' \in BOOLEAN
        /\ crashes' \in 0 .. MaxCrashes
  BY DEF TypeOK
<1>s. /\ {"record", "rebase", "context", "merge", "dispatch", "persist", "spend", "apply", "merged",
          "settle", "write"} \subseteq Steps
      /\ {"running", "blocked", "completed", "cancelled"} \subseteq Statuses
      /\ {"needs-human", "merged"} \subseteq Lifecycles
  BY DEF Steps, Statuses, Lifecycles
<1>f. ASSUME NEW l \in Lifecycles PROVE [file EXCEPT !.lc = l] \in [status : Statuses, lc : Lifecycles, src : BOOLEAN]
  BY <1>m
<1>g. ASSUME NEW s \in Statuses PROVE [file EXCEPT !.status = s] \in [status : Statuses, lc : Lifecycles, src : BOOLEAN]
  BY <1>m
<1>1. CASE Refresh(a)
  <2>1. LifecycleState(pr.view) \in Lifecycles
    BY ViewType, LifecycleType
  <2>2. me' \in [Threads -> Local]
    BY <1>1, <1>m, <1>s, <2>1 DEF Refresh, Local
  <2> QED BY <1>1, <1>k, <2>2 DEF Refresh, TypeOK
<1>2. CASE RefreshFails(a)
  <2>1. me' \in [Threads -> Local]
    BY <1>2, <1>m, ReadBackType DEF RefreshFails
  <2> QED BY <1>2, <1>k, <1>m, <1>f, <2>1 DEF RefreshFails, TypeOK
<1>3. CASE Record(a)
  <2>1. me' \in [Threads -> Local]
    <3> DEFINE nxt == CASE me[a].lc = "needs-rebase" -> "rebase"
                         [] me[a].lc \in {"needs-repair", "conflicted"} -> "context"
                         [] me[a].lc = "ready-to-merge" /\ AutoMerge -> "merge"
                         [] OTHER -> Out(a)
    <3>1. nxt \in Steps
      BY <1>s
    <3>2. ReadBack(a, meta, nxt)
      BY <1>3 DEF Record
    <3> HIDE DEF nxt
    <3> QED BY <3>1, <3>2, <1>m, ReadBackType
  <2> QED BY <1>3, <1>k, <1>m, <1>f, <2>1 DEF Record, TypeOK
<1>4. CASE UpdateBranch(a) \/ NoAction(a) \/ MergeRefused(a)
  <2>1. me' \in [Threads -> Local]
    BY <1>4, <1>m, ReadBackType DEF UpdateBranch, NoAction, MergeRefused
  <2> QED BY <1>4, <1>k, <2>1 DEF UpdateBranch, NoAction, MergeRefused, TypeOK
<1>5. CASE ContextFails(a)
  <2>1. me' \in [Threads -> Local]
    BY <1>5, <1>m, GotoType DEF ContextFails
  <2> QED BY <1>5, <1>k, <2>1 DEF ContextFails, TypeOK
<1>d. \A d \in Decided(meta, Signature) : d[1] \in Decisions /\ d[2] \in Meta
  <2>1. Signature \in Nat
    BY ViewType, SupervisorAssumption DEF Signature
  <2> QED BY <2>1, <1>m, DecidedType
<1>6. CASE Proceed(a)
  <2>1. PICK d \in Decided(meta, Signature) :
          me' = [me EXCEPT ![a].dec = d[1], ![a].breaker = d[2],
                           ![a].pc = IF d[1] = "proceed" THEN "dispatch" ELSE "persist"]
    BY <1>6 DEF Proceed
  <2>2. d[1] \in Decisions /\ d[2] \in Meta
    BY <1>d
  <2>3. me' \in [Threads -> Local]
    BY <2>1, <2>2, <1>m, <1>s DEF Local
  <2> QED BY <1>6, <1>k, <2>3 DEF Proceed, TypeOK
<1>7. CASE Escalate(a)
  <2>1. PICK d \in Decided(meta, Signature) :
          me' = [me EXCEPT ![a].dec = d[1], ![a].breaker = d[2],
                           ![a].copy = meta, ![a].pc = "write", ![a].nxt = "persist"]
    BY <1>7 DEF Escalate
  <2>2. d[1] \in Decisions /\ d[2] \in Meta
    BY <1>d
  <2>3. me' \in [Threads -> Local]
    BY <2>1, <2>2, <1>m, <1>s DEF Local
  <2> QED BY <1>7, <1>k, <1>s, <1>f, <2>3 DEF Escalate, TypeOK
<1>8. CASE Dispatch(a)
  <2>1. me' \in [Threads -> Local]
    BY <1>8, <1>m, <1>s, GotoType DEF Dispatch
  <2>2. passes' \in Nat
    BY <1>8 DEF Dispatch, TypeOK
  <2> QED BY <1>8, <1>k, <2>1, <2>2 DEF Dispatch, TypeOK
<1>9. CASE PersistRepair(a)
  <2>1. [meta EXCEPT !.attempts = me[a].breaker.attempts, !.signature = me[a].breaker.signature,
                     !.escalated = me[a].breaker.escalated] \in Meta
    BY <1>m DEF Meta
  <2>2. me' \in [Threads -> Local]
    BY <1>9, <2>1, <1>m, ReadBackType DEF PersistRepair
  <2> QED BY <1>9, <1>k, <2>2 DEF PersistRepair, TypeOK
<1>10. CASE MergePr(a)
  <2>1. me' \in [Threads -> Local]
    BY <1>10, <1>m, <1>s, ReadBackType DEF MergePr
  <2>2. pr' \in [view : PrViews \union {Merged(v) : v \in PrViews}, feedback : 0 .. MaxFeedback]
    BY <1>10, ViewType DEF MergePr
  <2> QED BY <1>10, <1>k, <2>1, <2>2 DEF MergePr, TypeOK
<1>11. CASE RecordMerged(a)
  <2>1. me' \in [Threads -> Local]
    BY <1>11, <1>m, ReadBackType DEF RecordMerged
  <2> QED BY <1>11, <1>k, <1>s, <1>f, <2>1 DEF RecordMerged, TypeOK
<1>12. CASE Poll(a)
  <2>1. me' \in [Threads -> Local]
    BY <1>12, <1>m, <1>s DEF Poll, Local, TypeOK
  <2> QED BY <1>12, <1>k, <2>1 DEF Poll, TypeOK
<1>13. CASE PollFails(a) \/ ApplyNonTerminal(a)
  <2>1. me' \in [Threads -> Local]
    BY <1>13, <1>m, ReadBackType DEF PollFails, ApplyNonTerminal
  <2> QED BY <1>13, <1>k, <1>s, <1>g, <2>1 DEF PollFails, ApplyNonTerminal, TypeOK
<1>14. CASE ApplyTerminal(a)
  <2>1. me' \in [Threads -> Local]
    BY <1>14, <1>m, <1>s, ReadBackType DEF ApplyTerminal
  <2>2. RunStatus(me[a].got) \in Statuses
    BY DEF RunStatus, Statuses
  <2> QED BY <1>14, <1>k, <1>g, <2>1, <2>2 DEF ApplyTerminal, TypeOK
<1>15. CASE Settle(a)
  <2>1. me' \in [Threads -> Local]
    BY <1>15, <1>m, GotoType DEF Settle
  <2> QED BY <1>15, <1>k, <2>1 DEF Settle, TypeOK
<1>16. CASE Spend(a)
  <2>1. PICK u \in Usages :
          ReadBack(a, [meta EXCEPT !.tokens = @ + u.tokens, !.cost = @ + u.cost, !.executions = @ + 1],
                   IF a = "main" THEN "apply" ELSE "persist")
    BY <1>16 DEF Spend
  <2>2. me' \in [Threads -> Local]
    BY <2>1, <1>m, <1>s, SpendType, ReadBackType
  <2> QED BY <1>16, <1>k, <2>2 DEF Spend, TypeOK
<1>17. CASE Write(a)
  <2>1. me' \in [Threads -> Local]
    BY <1>17, <1>m, GotoType DEF Write
  <2> QED BY <1>17, <1>k, <1>m, <2>1 DEF Write, TypeOK
<1> QED
  BY <1>1, <1>2, <1>3, <1>4, <1>5, <1>6, <1>7, <1>8, <1>9, <1>10, <1>11, <1>12, <1>13, <1>14, <1>15,
     <1>16, <1>17 DEF PullRequestStep, ReconcileStep

(* The other steps keep the types.                                           *)
LEMMA TypeNext == TypeOK /\ [Next]_vars => TypeOK'
<1> SUFFICES ASSUME TypeOK, [Next]_vars PROVE TypeOK'
  OBVIOUS
<1> USE OutType
<1>m. /\ me \in [Threads -> Local] /\ "main" \in Threads /\ Idle \in Local
      /\ \A a \in Supervisors \union Cancels : a \in Threads
      /\ file \in [status : Statuses, lc : Lifecycles, src : BOOLEAN]
  BY DEF TypeOK, Threads, Supervisors, Idle, Local, Fresh, Meta, Steps, Lifecycles, Decisions, TandemStatuses
<1>s. {"refresh", "poll", "execute", "spend", "end"} \subseteq Steps
  BY DEF Steps
<1>o. \A a : Enters(a) => overlap' \in BOOLEAN
  BY DEF Enters, TypeOK
<1>c. Cancelled \in TandemStatuses
  BY DEF Cancelled, TypeOK, TandemStatuses
<1>b. MainBlocks => TypeOK'
  <2> SUFFICES ASSUME MainBlocks PROVE TypeOK'
    OBVIOUS
  <2>1. me' \in [Threads -> Local]
    BY <1>m, <1>s, GotoType DEF MainBlocks
  <2>2. file' \in [status : Statuses, lc : Lifecycles, src : BOOLEAN]
    BY <1>m DEF MainBlocks, Statuses
  <2> QED BY <2>1, <2>2 DEF MainBlocks, TypeOK
<1>1. ASSUME NEW a \in Supervisors, EnterRefresh(a) PROVE TypeOK'
  <2>1. me' \in [Threads -> Local]
    BY <1>1, <1>m, <1>s DEF EnterRefresh, Local
  <2> QED BY <1>1, <1>o, <2>1 DEF EnterRefresh, TypeOK
<1>2. ASSUME NEW a \in Supervisors, EnterReconcile(a) PROVE TypeOK'
  <2>1. me' \in [Threads -> Local]
    BY <1>2, <1>m, <1>s, GotoType DEF EnterReconcile
  <2>2. tandem' \in TandemStatuses
    BY <1>2, <1>c DEF EnterReconcile, TypeOK
  <2> QED BY <1>2, <1>o, <2>1, <2>2 DEF EnterReconcile, TypeOK
<1>3. ASSUME NEW c \in Cancels, Cancel(c) PROVE TypeOK'
  <2>1. me' \in [Threads -> Local]
    BY <1>3, <1>m, <1>s, GotoType DEF Cancel
  <2> QED BY <1>3, <1>o, <1>c, <2>1 DEF Cancel, TypeOK
<1>4. CASE Preflight
  <2>1. CASE MainBlocks
    BY <2>1, <1>b
  <2>2. CASE ~MainBlocks
    <3>1. me' \in [Threads -> Local]
      BY <1>4, <2>2, <1>m, <1>s, GotoType DEF Preflight
    <3> QED BY <1>4, <2>2, <3>1 DEF Preflight, TypeOK
  <2> QED BY <2>1, <2>2
<1>5. CASE CreateFails \/ MainPollFails
  BY <1>5, <1>b DEF CreateFails, MainPollFails
<1>6. CASE Execute
  <2>1. me' \in [Threads -> Local]
    BY <1>6, <1>m, <1>s, GotoType DEF Execute
  <2> QED BY <1>6, <2>1 DEF Execute, TypeOK, TandemStatuses
<1>7. CASE MainPoll
  <2>1. me' \in [Threads -> Local]
    BY <1>7, <1>m, <1>s DEF MainPoll, Local, TypeOK
  <2> QED BY <1>7, <2>1 DEF MainPoll, TypeOK
<1>8. CASE PrChanges
  <2>1. pr' \in [view : PrViews \union {Merged(v) : v \in PrViews}, feedback : 0 .. MaxFeedback]
    <3>1. CASE \E v \in PrViews \ {pr.view} : pr' = [pr EXCEPT !.view = v]
      BY <3>1 DEF TypeOK
    <3>2. CASE pr.feedback < MaxFeedback /\ pr' = [pr EXCEPT !.feedback = @ + 1]
      <4>1. pr.feedback + 1 \in 0 .. MaxFeedback
        BY <3>2, ViewType, SupervisorAssumption
      <4> QED BY <3>2, <4>1 DEF TypeOK
    <3> QED BY <1>8, <3>1, <3>2 DEF PrChanges
  <2> QED BY <1>8, <2>1 DEF PrChanges, TypeOK
<1>9. CASE TandemEnds
  BY <1>9 DEF TandemEnds, TypeOK, TandemStatuses
<1>10. CASE Crash
  <2>1. me' \in [Threads -> Local]
    <3>1. [Idle EXCEPT !.pc = "end"] \in Local
      BY <1>m, <1>s DEF Local
    <3> QED BY <1>10, <3>1, <1>m DEF Crash
  <2>2. crashes' \in 0 .. MaxCrashes
    BY <1>10, SupervisorAssumption DEF Crash, TypeOK
  <2> QED BY <1>10, <2>1, <2>2 DEF Crash, TypeOK
<1>11. CASE UNCHANGED vars
  BY <1>11 DEF vars, TypeOK
<1> QED
  BY <1>1, <1>2, <1>3, <1>4, <1>5, <1>6, <1>7, <1>8, <1>9, <1>10, <1>11, ThreadTypes DEF Next, MainStep

LEMMA TypeInit == Init => TypeOK
<1> SUFFICES ASSUME Init PROVE TypeOK
  OBVIOUS
<1>1. Idle \in Local /\ Fresh \in Meta
  BY DEF Idle, Local, Fresh, Meta, Steps, Lifecycles, Decisions, TandemStatuses
<1>2. [Idle EXCEPT !.pc = "preflight"] \in Local /\ [Idle EXCEPT !.pc = "end"] \in Local
  BY <1>1 DEF Local, Steps
<1>3. me \in [Threads -> Local]
  BY <1>1, <1>2 DEF Init
<1>4. file \in [status : Statuses, lc : Lifecycles, src : BOOLEAN]
  <2>1. PICK coder \in BOOLEAN, src \in BOOLEAN :
          file = [status |-> IF coder THEN "running" ELSE "completed",
                  lc |-> IF coder THEN "" ELSE "waiting-for-review", src |-> coder /\ src]
    BY Zenon DEF Init
  <2>2. (coder /\ src) \in BOOLEAN
    OBVIOUS
  <2> QED BY <2>1, <2>2 DEF Statuses, Lifecycles
<1>5. pr \in [view : PrViews \union {Merged(v) : v \in PrViews}, feedback : 0 .. MaxFeedback]
  <2>1. PICK v \in PrViews : pr = [view |-> v, feedback |-> 0]
    BY DEF Init
  <2>2. 0 \in 0 .. MaxFeedback
    BY SupervisorAssumption
  <2> QED BY <2>1, <2>2
<1>6. /\ tandem \in TandemStatuses /\ passes \in Nat /\ settled \in {"no", "done", "blocked"}
      /\ crashes \in 0 .. MaxCrashes
  <2>1. tandem = "none" /\ passes = 0 /\ settled = "no" /\ crashes = 0
    BY Zenon DEF Init
  <2> QED BY <2>1, SupervisorAssumption DEF TandemStatuses
<1>7. meta \in Meta /\ overlap \in BOOLEAN
  BY <1>1 DEF Init
<1> QED BY <1>3, <1>4, <1>5, <1>6, <1>7 DEF TypeOK

(* The run's files, its row and the threads keep their types, for any        *)
(* budget, any requests of operators and any restarts.                       *)
THEOREM Typing == Spec => []TypeOK
  BY TypeInit, TypeNext, PTL DEF Spec

-----------------------------------------------------------------------------
(* What a thread is after Goto: its local variables end with its pass.       *)
LEMMA GotoIs ==
  ASSUME TypeOK, NEW a \in Threads, NEW s, Goto(a, s)
  PROVE  /\ \A b \in Threads : b # a => me'[b] = me[b]
         /\ me'[a].pc = s /\ me'[a].nxt = "idle" /\ me'[a].lc = "" /\ me'[a].copy = Fresh
         /\ s \in {"idle", "end"} => me'[a].got = "none" /\ me'[a].breaker = Fresh /\ me'[a].dec = ""
         /\ s = "idle" => me'[a] = Idle
         /\ s \notin {"idle", "end"} =>
              me'[a].got = me[a].got /\ me'[a].breaker = me[a].breaker /\ me'[a].dec = me[a].dec
<1>1. me \in [Threads -> Local] /\ me[a] \in Local
  BY DEF TypeOK
<1>2. \A b \in Threads : b # a => me'[b] = me[b]
  BY <1>1 DEF Goto
<1>3. CASE s \in {"idle", "end"}
  <2>1. me'[a] = [Idle EXCEPT !.pc = s]
    BY <1>1, <1>3 DEF Goto
  <2> QED BY <1>2, <1>3, <2>1 DEF Idle
<1>4. CASE s \notin {"idle", "end"}
  <2>1. me'[a] = [me[a] EXCEPT !.pc = s, !.nxt = "idle", !.copy = Fresh, !.lc = ""]
    BY <1>1, <1>4 DEF Goto
  <2> QED BY <1>1, <1>2, <1>4, <2>1 DEF Local
<1> QED BY <1>3, <1>4

(* What a thread is after ReadBack.                                          *)
LEMMA ReadBackIs ==
  ASSUME TypeOK, NEW a \in Threads, NEW m, NEW s, ReadBack(a, m, s)
  PROVE  /\ \A b \in Threads : b # a => me'[b] = me[b]
         /\ me'[a].pc = "write" /\ me'[a].nxt = s /\ me'[a].lc = me[a].lc /\ me'[a].copy = m
         /\ me'[a].got = me[a].got /\ me'[a].breaker = me[a].breaker /\ me'[a].dec = me[a].dec
  BY DEF TypeOK, ReadBack, Local

(* A pull request that is merged stays so, and a coder that has completed    *)
(* stays so unless the run is about to be executed.                          *)
ToldTrue(a) ==
  /\ me[a].lc = "merged" \/ me[a].pc = "merged" \/ me[a].nxt = "merged" => pr.view.merged
  /\ me[a].got = "completed" => tandem = "completed"
  /\ me[a].nxt \notin {"preflight", "execute"}

NotYetExecuted == me["main"].pc \in {"preflight", "execute"} => tandem = "none"

RealInv == TypeOK /\ RecordedIsReal /\ NotYetExecuted /\ \A a \in Threads : ToldTrue(a)

(* When a step changes one thread only, what the others were told is still   *)
(* so.                                                                       *)
LEMMA OthersToldTrue ==
  ASSUME RealInv, NEW a \in Threads, \A b \in Threads : b # a => me'[b] = me[b],
         pr.view.merged => pr.view.merged', tandem = "completed" => tandem' = "completed",
         ToldTrue(a)'
  PROVE  \A b \in Threads : ToldTrue(b)'
<1> SUFFICES ASSUME NEW b \in Threads, b # a PROVE ToldTrue(b)'
  OBVIOUS
<1>1. me'[b] = me[b] /\ ToldTrue(b)
  BY DEF RealInv
<1> QED BY <1>1 DEF ToldTrue

LEMMA RealReadBack ==
  ASSUME RealInv, NEW a \in Threads, NEW m, NEW s, ReadBack(a, m, s), tandem' = tandem,
         pr.view.merged => pr.view.merged', s \notin {"preflight", "execute"},
         s = "merged" => pr.view.merged'
  PROVE  NotYetExecuted' /\ \A b \in Threads : ToldTrue(b)'
<1>1. /\ \A b \in Threads : b # a => me'[b] = me[b]
      /\ me'[a].pc = "write" /\ me'[a].nxt = s /\ me'[a].lc = me[a].lc /\ me'[a].got = me[a].got
  BY ReadBackIs DEF RealInv
<1>2. ToldTrue(a)'
  BY <1>1 DEF RealInv, ToldTrue
<1>3. \A b \in Threads : ToldTrue(b)'
  BY <1>1, <1>2, OthersToldTrue
<1>4. NotYetExecuted'
  BY <1>1 DEF RealInv, NotYetExecuted, Threads
<1> QED BY <1>3, <1>4

LEMMA RealGoto ==
  ASSUME RealInv, NEW a \in Threads, NEW s, Goto(a, s), tandem = "completed" => tandem' = "completed",
         pr.view.merged => pr.view.merged', s = "merged" => pr.view.merged'
  PROVE  \A b \in Threads : ToldTrue(b)'
<1>1. /\ \A b \in Threads : b # a => me'[b] = me[b]
      /\ me'[a].pc = s /\ me'[a].nxt = "idle" /\ me'[a].lc = ""
      /\ me'[a].got = "none" \/ me'[a].got = me[a].got
  BY GotoIs DEF RealInv
<1>2. ToldTrue(a)'
  BY <1>1 DEF RealInv, ToldTrue
<1> QED BY <1>1, <1>2, OthersToldTrue

LEMMA RealGotoBoth ==
  ASSUME RealInv, NEW a \in Threads, NEW s, Goto(a, s), tandem' = tandem, pr' = pr,
         s \notin {"preflight", "execute"}, s = "merged" => pr.view.merged
  PROVE  NotYetExecuted' /\ \A b \in Threads : ToldTrue(b)'
<1>1. \A b \in Threads : ToldTrue(b)'
  BY RealGoto
<1>2. (\A b \in Threads : b # a => me'[b] = me[b]) /\ me'[a].pc = s
  BY GotoIs DEF RealInv
<1> QED BY <1>1, <1>2 DEF RealInv, NotYetExecuted, Threads

(* A step of a thread over the pull request or the coder records only what   *)
(* the thread was told.                                                      *)
LEMMA RealThread ==
  ASSUME RealInv, NEW a \in Threads, PullRequestStep(a) \/ ReconcileStep(a)
  PROVE  RealInv'
<1> USE OutType
<1>t. TypeOK'
  BY ThreadTypes DEF RealInv
<1>r. RecordedIsReal /\ ToldTrue(a) /\ NotYetExecuted /\ TypeOK /\ me[a] \in Local
  BY DEF RealInv, TypeOK
<1>k. ASSUME RecordedIsReal', NotYetExecuted' /\ \A b \in Threads : ToldTrue(b)' PROVE RealInv'
  BY <1>k, <1>t DEF RealInv
<1>l. ASSUME NEW l, l = "merged" => pr.view.merged, file' = [file EXCEPT !.lc = l],
             UNCHANGED <<pr, tandem, settled>>
      PROVE  RecordedIsReal'
  BY <1>r, <1>l DEF RecordedIsReal, TypeOK
<1>f. ASSUME file'.lc = file.lc, UNCHANGED <<pr, tandem, settled>> PROVE RecordedIsReal'
  BY <1>r, <1>f DEF RecordedIsReal
<1>g. \A s : [file EXCEPT !.status = s].lc = file.lc
  BY <1>r DEF TypeOK
<1>1. CASE Refresh(a)
  <2>1. /\ \A b \in Threads : b # a => me'[b] = me[b]
        /\ me'[a].pc = "record" /\ me'[a].lc = LifecycleState(pr.view)
        /\ me'[a].nxt = me[a].nxt /\ me'[a].got = me[a].got
    BY <1>1, <1>r DEF Refresh, TypeOK, Local
  <2>2. LifecycleState(pr.view) = "merged" => pr.view.merged
    BY <1>r, ViewType, LifecycleType
  <2>3. UNCHANGED <<file, pr, tandem, settled>>
    BY <1>1 DEF Refresh
  <2>4. ToldTrue(a)'
    BY <2>1, <2>2, <2>3, <1>r DEF ToldTrue
  <2>5. \A b \in Threads : ToldTrue(b)'
    BY <2>1, <2>3, <2>4, OthersToldTrue
  <2>6. NotYetExecuted'
    BY <2>1, <2>3, <1>r DEF NotYetExecuted, Threads
  <2> QED BY <2>3, <2>5, <2>6, <1>f, <1>k
<1>2. CASE RefreshFails(a)
  <2>1. RecordedIsReal'
    BY <1>2, <1>l, <1>r DEF RefreshFails, ToldTrue
  <2> QED BY <1>2, <2>1, <1>k, RealReadBack DEF RefreshFails
<1>3. CASE Record(a)
  <2>1. RecordedIsReal'
    BY <1>3, <1>l, <1>r DEF Record, ToldTrue
  <2> DEFINE nxt == CASE me[a].lc = "needs-rebase" -> "rebase"
                       [] me[a].lc \in {"needs-repair", "conflicted"} -> "context"
                       [] me[a].lc = "ready-to-merge" /\ AutoMerge -> "merge"
                       [] OTHER -> Out(a)
  <2>2. nxt \notin {"preflight", "execute", "merged"}
    OBVIOUS
  <2>3. ReadBack(a, meta, nxt) /\ UNCHANGED <<pr, tandem>>
    BY <1>3 DEF Record
  <2> HIDE DEF nxt
  <2> QED BY <2>1, <2>2, <2>3, <1>k, RealReadBack
<1>4. CASE UpdateBranch(a) \/ NoAction(a) \/ MergeRefused(a)
  <2>1. ReadBack(a, meta, Out(a)) /\ UNCHANGED <<file, pr, tandem, settled>>
    BY <1>4 DEF UpdateBranch, NoAction, MergeRefused
  <2> QED BY <2>1, <1>f, <1>k, RealReadBack
<1>5. CASE ContextFails(a)
  <2>1. Goto(a, Out(a)) /\ UNCHANGED <<file, pr, tandem, settled>>
    BY <1>5 DEF ContextFails
  <2> QED BY <2>1, <1>f, <1>k, RealGotoBoth
<1>6. CASE Proceed(a) \/ Escalate(a)
  <2>1. /\ \A b \in Threads : b # a => me'[b] = me[b]
        /\ me'[a].pc \in {"dispatch", "persist", "write"} /\ me'[a].lc = me[a].lc
        /\ me'[a].nxt \in {me[a].nxt, "persist"} /\ me'[a].got = me[a].got
    <3>1. CASE Proceed(a)
      BY <3>1, <1>r DEF Proceed, TypeOK, Local
    <3>2. CASE Escalate(a)
      BY <3>2, <1>r DEF Escalate, TypeOK, Local
    <3> QED BY <1>6, <3>1, <3>2
  <2>2. UNCHANGED <<pr, tandem, settled>>
    BY <1>6 DEF Proceed, Escalate
  <2>3. RecordedIsReal'
    BY <1>6, <2>2, <1>f, <1>l DEF Proceed, Escalate
  <2>4. ToldTrue(a)'
    BY <2>1, <2>2, <1>r DEF ToldTrue
  <2>5. \A b \in Threads : ToldTrue(b)'
    BY <2>1, <2>2, <2>4, OthersToldTrue
  <2>6. NotYetExecuted'
    BY <2>1, <2>2, <1>r DEF NotYetExecuted, Threads
  <2> QED BY <2>3, <2>5, <2>6, <1>k
<1>8. CASE Dispatch(a)
  <2>1. Goto(a, "spend") /\ UNCHANGED <<file, pr, tandem, settled>>
    BY <1>8 DEF Dispatch
  <2> QED BY <2>1, <1>f, <1>k, RealGotoBoth
<1>9. CASE PersistRepair(a)
  <2>1. (\E m : ReadBack(a, m, Out(a))) /\ UNCHANGED <<file, pr, tandem, settled>>
    BY <1>9 DEF PersistRepair
  <2> QED BY <2>1, <1>f, <1>k, RealReadBack
<1>10. CASE MergePr(a)
  <2>1. pr.view.merged'
    BY <1>10, <1>r, ViewType DEF MergePr
  <2>2. PICK nxt \in {"merged", Out(a)} : ReadBack(a, meta, nxt)
    BY <1>10 DEF MergePr
  <2>3. UNCHANGED <<file, tandem, settled>>
    BY <1>10 DEF MergePr
  <2>4. RecordedIsReal'
    BY <2>1, <2>3, <1>r DEF RecordedIsReal
  <2> QED BY <2>1, <2>2, <2>3, <2>4, <1>k, RealReadBack
<1>11. CASE RecordMerged(a)
  <2>1. pr.view.merged
    BY <1>11, <1>r DEF RecordMerged, ToldTrue
  <2>2. RecordedIsReal'
    BY <1>11, <2>1, <1>l DEF RecordMerged
  <2> QED BY <1>11, <2>2, <1>k, RealReadBack DEF RecordMerged
<1>12. CASE Poll(a)
  <2>1. /\ \A b \in Threads : b # a => me'[b] = me[b]
        /\ me'[a].pc = "apply" /\ me'[a].lc = me[a].lc
        /\ me'[a].nxt = me[a].nxt /\ me'[a].got = tandem
    BY <1>12, <1>r DEF Poll, TypeOK, Local
  <2>2. UNCHANGED <<file, pr, tandem, settled>>
    BY <1>12 DEF Poll
  <2>3. ToldTrue(a)'
    BY <2>1, <2>2, <1>r DEF ToldTrue
  <2>4. \A b \in Threads : ToldTrue(b)'
    BY <2>1, <2>2, <2>3, OthersToldTrue
  <2>5. NotYetExecuted'
    BY <2>1, <2>2, <1>r DEF NotYetExecuted, Threads
  <2> QED BY <2>2, <2>4, <2>5, <1>f, <1>k
<1>13. CASE PollFails(a) \/ ApplyNonTerminal(a)
  <2>1. ReadBack(a, meta, Out(a)) /\ UNCHANGED <<pr, tandem, settled>> /\ file'.lc = file.lc
    BY <1>13, <1>g DEF PollFails, ApplyNonTerminal
  <2> QED BY <2>1, <1>f, <1>k, RealReadBack
<1>14. CASE ApplyTerminal(a)
  <2>1. ReadBack(a, meta, "settle") /\ UNCHANGED <<pr, tandem, settled>> /\ file'.lc = file.lc
    BY <1>14, <1>g DEF ApplyTerminal
  <2> QED BY <2>1, <1>f, <1>k, RealReadBack
<1>15. CASE Settle(a)
  <2>1. /\ Goto(a, Out(a)) /\ UNCHANGED <<file, pr, tandem>>
        /\ settled' = "done" => tandem = "completed"
    BY <1>15, <1>r DEF Settle, ToldTrue
  <2>2. RecordedIsReal'
    BY <2>1, <1>r DEF RecordedIsReal
  <2> QED BY <2>1, <2>2, <1>k, RealGotoBoth
<1>16. CASE Spend(a)
  <2>1. (\E m, s : s \in {"apply", "persist"} /\ ReadBack(a, m, s)) /\ UNCHANGED <<file, pr, tandem, settled>>
    BY <1>16 DEF Spend
  <2> QED BY <2>1, <1>f, <1>k, RealReadBack
<1>17. CASE Write(a)
  <2>1. Goto(a, me[a].nxt) /\ UNCHANGED <<file, pr, tandem, settled>>
    BY <1>17 DEF Write
  <2>2. me[a].nxt \notin {"preflight", "execute"} /\ (me[a].nxt = "merged" => pr.view.merged)
    BY <1>r DEF ToldTrue
  <2> QED BY <2>1, <2>2, <1>f, <1>k, RealGotoBoth
<1> QED
  BY <1>1, <1>2, <1>3, <1>4, <1>5, <1>6, <1>8, <1>9, <1>10, <1>11, <1>12, <1>13, <1>14, <1>15,
     <1>16, <1>17 DEF PullRequestStep, ReconcileStep

(* Every step keeps RealInv: the coder's status is only reset for a run that *)
(* is about to be executed, and nobody unmerges a pull request.              *)
LEMMA RealNext == RealInv /\ [Next]_vars => RealInv'
<1> SUFFICES ASSUME RealInv, [Next]_vars PROVE RealInv'
  OBVIOUS
<1> USE OutType
<1>t. TypeOK'
  BY TypeNext DEF RealInv
<1>r. RecordedIsReal /\ NotYetExecuted /\ TypeOK /\ \A a \in Threads : ToldTrue(a)
  BY DEF RealInv
<1>m. "main" \in Threads /\ \A a \in Supervisors \union Cancels : a \in Threads /\ a # "main"
  BY SupervisorAssumption DEF Threads, Supervisors
<1>k. ASSUME RecordedIsReal', NotYetExecuted', \A b \in Threads : ToldTrue(b)' PROVE RealInv'
  BY <1>k, <1>t DEF RealInv
<1>c. /\ tandem = "completed" => Cancelled = "completed"
      /\ tandem = "none" => Cancelled = "none"
  BY DEF Cancelled
<1>b. MainBlocks => RealInv'
  <2> SUFFICES ASSUME MainBlocks PROVE RealInv'
    OBVIOUS
  <2>1. Goto("main", "end") /\ UNCHANGED <<pr, tandem>> /\ settled' = "blocked" /\ file'.lc = file.lc
    BY <1>r DEF MainBlocks, TypeOK
  <2>2. RecordedIsReal'
    BY <2>1, <1>r DEF RecordedIsReal
  <2>3. NotYetExecuted' /\ \A b \in Threads : ToldTrue(b)'
    BY <2>1, <1>m, RealGotoBoth
  <2> QED BY <2>2, <2>3, <1>k
<1>1. ASSUME NEW a \in Supervisors, EnterRefresh(a) PROVE RealInv'
  <2>1. /\ \A b \in Threads : b # a => me'[b] = me[b]
        /\ me'[a].pc = "refresh" /\ me'[a].lc = file.lc
        /\ me'[a].nxt = me[a].nxt /\ me'[a].got = me[a].got
    BY <1>1, <1>r, <1>m DEF EnterRefresh, TypeOK, Local
  <2>2. UNCHANGED <<file, pr, tandem, settled>>
    BY <1>1 DEF EnterRefresh
  <2>3. RecordedIsReal'
    BY <2>2, <1>r DEF RecordedIsReal
  <2>4. ToldTrue(a)'
    BY <2>1, <2>2, <1>r, <1>m DEF ToldTrue, RecordedIsReal
  <2>5. \A b \in Threads : ToldTrue(b)'
    BY <2>1, <2>2, <2>4, <1>m, OthersToldTrue
  <2>6. NotYetExecuted'
    BY <2>1, <2>2, <1>r, <1>m DEF NotYetExecuted
  <2> QED BY <2>3, <2>5, <2>6, <1>k
<1>2. ASSUME NEW a \in Supervisors \union Cancels, NEW s, Goto(a, s), s \in {"idle", "end", "poll"},
             tandem' \in {tandem, Cancelled}, UNCHANGED <<file, pr, settled>>
      PROVE  RealInv'
  <2>1. /\ tandem = "completed" => tandem' = "completed"
        /\ tandem = "none" => tandem' = "none"
    BY <1>2, <1>c
  <2>2. RecordedIsReal'
    BY <1>2, <2>1, <1>r DEF RecordedIsReal
  <2>3. \A b \in Threads : ToldTrue(b)'
    BY <1>2, <2>1, <1>m, RealGoto
  <2>4. me'["main"] = me["main"]
    <3>1. \A b \in Threads : b # a => me'[b] = me[b]
      BY <1>2, <1>m, <1>r, GotoIs
    <3> QED BY <3>1, <1>m
  <2>5. NotYetExecuted'
    BY <2>1, <2>4, <1>r DEF NotYetExecuted
  <2> QED BY <2>2, <2>3, <2>5, <1>k
<1>3. ASSUME NEW a \in Supervisors, EnterReconcile(a) PROVE RealInv'
  BY <1>2, <1>3 DEF EnterReconcile
<1>4. ASSUME NEW c \in Cancels, Cancel(c) PROVE RealInv'
  BY <1>2, <1>4 DEF Cancel
<1>5. CASE Preflight
  <2>1. CASE ~MainBlocks
    <3>1. /\ Goto("main", "execute") /\ UNCHANGED <<file, pr, tandem, settled>>
          /\ me["main"].pc = "preflight"
      BY <1>5, <2>1 DEF Preflight
    <3>2. \A b \in Threads : ToldTrue(b)'
      BY <3>1, <1>m, RealGoto
    <3>3. RecordedIsReal' /\ NotYetExecuted'
      BY <3>1, <1>r DEF RecordedIsReal, NotYetExecuted
    <3> QED BY <3>2, <3>3, <1>k
  <2> QED BY <2>1, <1>b
<1>6. CASE CreateFails \/ MainPollFails
  BY <1>6, <1>b DEF CreateFails, MainPollFails
<1>7. CASE Execute
  <2>1. Goto("main", "poll") /\ tandem = "none" /\ UNCHANGED <<file, pr, settled>>
    BY <1>7, <1>r DEF Execute, NotYetExecuted
  <2>2. \A b \in Threads : ToldTrue(b)'
    BY <2>1, <1>m, RealGoto
  <2>3. me'["main"].pc = "poll"
    BY <2>1, <1>m, <1>r, GotoIs
  <2>4. RecordedIsReal' /\ NotYetExecuted'
    BY <2>1, <2>3, <1>r DEF RecordedIsReal, NotYetExecuted
  <2> QED BY <2>2, <2>4, <1>k
<1>8. CASE MainPoll
  <2>1. /\ \A b \in Threads : b # "main" => me'[b] = me[b]
        /\ me'["main"].pc = "spend" /\ me'["main"].lc = me["main"].lc
        /\ me'["main"].nxt = me["main"].nxt /\ me'["main"].got = tandem
    BY <1>8, <1>r, <1>m DEF MainPoll, TypeOK, Local
  <2>2. UNCHANGED <<file, pr, tandem, settled>>
    BY <1>8 DEF MainPoll
  <2>3. ToldTrue("main")'
    BY <2>1, <2>2, <1>r, <1>m DEF ToldTrue
  <2>4. \A b \in Threads : ToldTrue(b)'
    BY <2>1, <2>2, <2>3, <1>m, OthersToldTrue
  <2>5. RecordedIsReal' /\ NotYetExecuted'
    BY <2>1, <2>2, <1>r DEF RecordedIsReal, NotYetExecuted
  <2> QED BY <2>4, <2>5, <1>k
<1>9. CASE PrChanges
  <2>1. UNCHANGED <<file, me, tandem, settled>> /\ ~pr.view.merged
    BY <1>9 DEF PrChanges
  <2> QED BY <2>1, <1>r, <1>k DEF RecordedIsReal, NotYetExecuted, ToldTrue
<1>10. CASE TandemEnds
  <2>1. UNCHANGED <<file, me, pr, settled>> /\ tandem = "running"
    BY <1>10 DEF TandemEnds
  <2> QED BY <2>1, <1>r, <1>k DEF RecordedIsReal, NotYetExecuted, ToldTrue
<1>11. CASE Crash
  <2>1. UNCHANGED <<file, pr, tandem, settled>>
    BY <1>11 DEF Crash
  <2>2. \A a \in Threads : /\ me'[a].pc \in {"idle", "end"} /\ me'[a].nxt = "idle"
                           /\ me'[a].lc = "" /\ me'[a].got = "none"
    BY <1>11 DEF Crash, Idle
  <2> QED BY <2>1, <2>2, <1>r, <1>m, <1>k DEF RecordedIsReal, NotYetExecuted, ToldTrue
<1>12. CASE UNCHANGED vars
  BY <1>12, <1>r, <1>k DEF vars, RecordedIsReal, NotYetExecuted, ToldTrue
<1> QED
  BY <1>1, <1>3, <1>4, <1>5, <1>6, <1>7, <1>8, <1>9, <1>10, <1>11, <1>12, RealThread DEF Next, MainStep

(* A thread that is idle, and one that is at another step and has done       *)
(* nothing yet.                                                              *)
LEMMA IdleIs ==
  /\ Idle.pc = "idle" /\ Idle.nxt = "idle" /\ Idle.lc = "" /\ Idle.got = "none" /\ Idle.dec = ""
  /\ Idle.breaker = Fresh
  /\ \A s : LET i == [Idle EXCEPT !.pc = s]
           IN  i.pc = s /\ i.nxt = "idle" /\ i.lc = "" /\ i.got = "none" /\ i.dec = "" /\ i.breaker = Fresh
  BY DEF Idle

LEMMA IdleAt ==
  ASSUME NEW i, i \in {[Idle EXCEPT !.pc = "preflight"], [Idle EXCEPT !.pc = "end"]}
  PROVE  /\ i.pc \in {"preflight", "end"} /\ i.nxt = "idle" /\ i.lc = "" /\ i.got = "none" /\ i.dec = ""
         /\ i.breaker = Fresh
<1>1. CASE i = [Idle EXCEPT !.pc = "preflight"]
  BY <1>1 DEF Idle
<1>2. CASE i = [Idle EXCEPT !.pc = "end"]
  BY <1>2 DEF Idle
<1> QED BY <1>1, <1>2

(* How the threads begin.                                                    *)
LEMMA InitThreads ==
  ASSUME Init
  PROVE  /\ me \in [Threads -> Local]
         /\ \A a \in Threads : a # "main" => me[a] = Idle
         /\ me["main"] \in {[Idle EXCEPT !.pc = "preflight"], [Idle EXCEPT !.pc = "end"]}
<1>1. PICK coder \in BOOLEAN :
        me = [a \in Threads |-> IF a = "main" /\ coder THEN [Idle EXCEPT !.pc = "preflight"]
                                ELSE IF a = "main" THEN [Idle EXCEPT !.pc = "end"] ELSE Idle]
  BY Zenon DEF Init
<1>2. "main" \in Threads
  BY DEF Threads
<1>3. me \in [Threads -> Local]
  BY TypeInit DEF TypeOK
<1> QED BY <1>1, <1>2, <1>3

LEMMA RealInit == Init => RealInv
<1> SUFFICES ASSUME Init PROVE RealInv
  OBVIOUS
<1>1. TypeOK
  BY TypeInit
<1>2. tandem = "none" /\ settled = "no" /\ file.lc \in {"", "waiting-for-review"}
  <2>1. PICK coder \in BOOLEAN, src \in BOOLEAN :
          file = [status |-> IF coder THEN "running" ELSE "completed",
                  lc |-> IF coder THEN "" ELSE "waiting-for-review", src |-> coder /\ src]
    BY Zenon DEF Init
  <2>2. tandem = "none" /\ settled = "no"
    BY Zenon DEF Init
  <2> QED BY <2>1, <2>2
<1>3. \A a \in Threads : /\ me[a].pc \in {"idle", "end", "preflight"} /\ me[a].nxt = "idle"
                         /\ me[a].lc = "" /\ me[a].got = "none"
  <2>1. \A a \in Threads : a # "main" => me[a] = Idle
    BY InitThreads
  <2>2. me["main"] \in {[Idle EXCEPT !.pc = "preflight"], [Idle EXCEPT !.pc = "end"]}
    BY InitThreads
  <2>3. /\ me["main"].pc \in {"preflight", "end"} /\ me["main"].nxt = "idle"
        /\ me["main"].lc = "" /\ me["main"].got = "none"
    BY <2>2, IdleAt
  <2> QED BY <2>1, <2>3, IdleIs
<1> QED BY <1>1, <1>2, <1>3 DEF RealInv, RecordedIsReal, NotYetExecuted, ToldTrue

(* What the supervisor records as merged or done was merged at GitHub or     *)
(* completed at Tandem, whatever threads overlap and whenever the server     *)
(* restarts.                                                                 *)
THEOREM RecordsAreTrue == Spec => []RecordedIsReal
<1>1. RealInv => RecordedIsReal
  BY DEF RealInv
<1> QED BY <1>1, RealInit, RealNext, PTL DEF Spec

-----------------------------------------------------------------------------
(* As long as no two passes overlapped there is at most one busy thread, and *)
(* a thread that is idle has forgotten its last pass.                        *)
Alone == ~overlap => \A a, b \in Threads : Busy(a) /\ Busy(b) => a = b

Forgets(a) == me[a].pc = "idle" => me[a] = Idle

AloneInv == TypeOK /\ Alone /\ \A a \in Threads : Forgets(a)

(* A step of a thread is one of a busy thread, and of no other.              *)
OwnStep(a) ==
  /\ Busy(a) /\ overlap' = overlap /\ crashes' = crashes
  /\ \A b \in Threads : b # a => me'[b] = me[b]
  /\ Forgets(a)'

LEMMA GotoOwn ==
  ASSUME TypeOK, NEW a \in Threads, NEW s, Busy(a), Goto(a, s), UNCHANGED <<overlap, crashes>>
  PROVE  OwnStep(a)
<1>1. /\ \A b \in Threads : b # a => me'[b] = me[b]
      /\ me'[a].pc = s /\ (s = "idle" => me'[a] = Idle)
  BY GotoIs
<1> QED BY <1>1 DEF OwnStep, Forgets

LEMMA ReadBackOwn ==
  ASSUME TypeOK, NEW a \in Threads, NEW m, NEW s, Busy(a), ReadBack(a, m, s), UNCHANGED <<overlap, crashes>>
  PROVE  OwnStep(a)
<1>1. (\A b \in Threads : b # a => me'[b] = me[b]) /\ me'[a].pc = "write"
  BY ReadBackIs
<1> QED BY <1>1 DEF OwnStep, Forgets

LEMMA ThreadOwn ==
  ASSUME TypeOK, NEW a \in Threads, PullRequestStep(a) \/ ReconcileStep(a)
  PROVE  OwnStep(a)
<1>1. CASE ContextFails(a) \/ Dispatch(a) \/ Settle(a) \/ Write(a)
  BY <1>1, GotoOwn DEF ContextFails, Dispatch, Settle, Write, Busy
<1>2. CASE RefreshFails(a) \/ Record(a) \/ UpdateBranch(a) \/ NoAction(a) \/ PersistRepair(a)
           \/ MergeRefused(a) \/ RecordMerged(a) \/ PollFails(a) \/ ApplyNonTerminal(a)
           \/ ApplyTerminal(a)
  BY <1>2, ReadBackOwn DEF RefreshFails, Record, UpdateBranch, NoAction, PersistRepair, MergeRefused,
     RecordMerged, PollFails, ApplyNonTerminal, ApplyTerminal, Busy
<1>3. CASE MergePr(a) \/ Spend(a)
  BY <1>3, ReadBackOwn DEF MergePr, Spend, Busy
<1>4. CASE Refresh(a) \/ Poll(a)
  <2>1. /\ \A b \in Threads : b # a => me'[b] = me[b]
        /\ me'[a].pc \in {"record", "apply"}
    BY <1>4 DEF Refresh, Poll, TypeOK, Local
  <2> QED BY <1>4, <2>1 DEF Refresh, Poll, OwnStep, Forgets, Busy
<1>5. CASE Proceed(a)
  <2>1. /\ \A b \in Threads : b # a => me'[b] = me[b]
        /\ me'[a].pc \in {"dispatch", "persist"}
    BY <1>5 DEF Proceed, TypeOK, Local
  <2> QED BY <1>5, <2>1 DEF Proceed, OwnStep, Forgets, Busy
<1>6. CASE Escalate(a)
  <2>1. /\ \A b \in Threads : b # a => me'[b] = me[b]
        /\ me'[a].pc = "write"
    BY <1>6 DEF Escalate, TypeOK, Local
  <2> QED BY <1>6, <2>1 DEF Escalate, OwnStep, Forgets, Busy
<1> QED BY <1>1, <1>2, <1>3, <1>4, <1>5, <1>6 DEF PullRequestStep, ReconcileStep

LEMMA MainOwn ==
  ASSUME TypeOK, MainStep
  PROVE  OwnStep("main")
<1>m. "main" \in Threads
  BY DEF Threads
<1>1. CASE MainPoll
  <2>1. /\ \A b \in Threads : b # "main" => me'[b] = me[b]
        /\ me'["main"].pc = "spend"
    BY <1>1, <1>m DEF MainPoll, TypeOK, Local
  <2> QED BY <1>1, <2>1 DEF MainPoll, OwnStep, Forgets, Busy
<1>2. CASE Preflight \/ CreateFails \/ Execute \/ MainPollFails
  <2>1. Busy("main") /\ UNCHANGED <<overlap, crashes>> /\ \E s : Goto("main", s)
    BY <1>2 DEF Preflight, CreateFails, Execute, MainPollFails, MainBlocks, Busy
  <2> QED BY <2>1, <1>m, GotoOwn
<1> QED BY <1>1, <1>2 DEF MainStep

(* A thread enters: it was idle, and the overlap is noted.                   *)
EnterStep(a) ==
  /\ me[a].pc = "idle" /\ Enters(a) /\ crashes' = crashes
  /\ \A b \in Threads : b # a => me'[b] = me[b]
  /\ Forgets(a)'

LEMMA EnterOwn ==
  ASSUME TypeOK, NEW a \in Threads, EnterRefresh(a) \/ EnterReconcile(a) \/ Cancel(a)
  PROVE  EnterStep(a)
<1>1. CASE EnterRefresh(a)
  <2>1. /\ \A b \in Threads : b # a => me'[b] = me[b]
        /\ me'[a].pc = "refresh"
    BY <1>1 DEF EnterRefresh, TypeOK, Local
  <2> QED BY <1>1, <2>1 DEF EnterRefresh, EnterStep, Forgets
<1>2. CASE EnterReconcile(a) \/ Cancel(a)
  <2>1. \E s : Goto(a, s)
    BY <1>2 DEF EnterReconcile, Cancel
  <2>2. (\A b \in Threads : b # a => me'[b] = me[b]) /\ (me'[a].pc = "idle" => me'[a] = Idle)
    BY <2>1, GotoIs
  <2> QED BY <1>2, <2>2 DEF EnterReconcile, Cancel, EnterStep, Forgets
<1> QED BY <1>1, <1>2

LEMMA AloneNext == AloneInv /\ [Next]_vars => AloneInv'
<1> SUFFICES ASSUME AloneInv, [Next]_vars PROVE AloneInv'
  OBVIOUS
<1>t. TypeOK' /\ TypeOK
  BY TypeNext DEF AloneInv
<1>1. ASSUME NEW a \in Threads, OwnStep(a) PROVE AloneInv'
  BY <1>1, <1>t DEF AloneInv, OwnStep, Alone, Busy, Forgets
<1>2. ASSUME NEW a \in Threads, EnterStep(a) PROVE AloneInv'
  BY <1>2, <1>t DEF AloneInv, EnterStep, Enters, Alone, Busy, Forgets
<1>3. CASE PrChanges \/ TandemEnds \/ UNCHANGED vars
  BY <1>3, <1>t DEF PrChanges, TandemEnds, vars, AloneInv, Alone, Busy, Forgets
<1>4. CASE Crash
  <2>1. \A a \in Threads : me'[a] \in {Idle, [Idle EXCEPT !.pc = "end"]}
    BY <1>4 DEF Crash
  <2>2. \A a \in Threads : me'[a].pc \in {"idle", "end"} /\ (me'[a].pc = "idle" => me'[a] = Idle)
    BY <2>1, IdleIs
  <2> QED BY <2>2, <1>t DEF AloneInv, Alone, Busy, Forgets
<1>5. \A a \in Supervisors \union Cancels : a \in Threads
  BY DEF Threads
<1>6. "main" \in Threads
  BY DEF Threads
<1> QED
  BY <1>1, <1>2, <1>3, <1>4, <1>5, <1>6, <1>t, ThreadOwn, MainOwn, EnterOwn DEF Next

LEMMA AloneInit == Init => AloneInv
<1> SUFFICES ASSUME Init PROVE AloneInv
  OBVIOUS
<1>1. \A a \in Threads : a # "main" => me[a] = Idle /\ me[a].pc = "idle"
  BY InitThreads, IdleIs
<1>2. me["main"].pc \in {"preflight", "end"}
  BY InitThreads, IdleIs
<1> QED BY <1>1, <1>2, TypeInit DEF AloneInv, Alone, Busy, Forgets

-----------------------------------------------------------------------------
(* A thread that may still write another lifecycle into the run's files.     *)
Judging(a) ==
  \/ me[a].pc \in {"refresh", "record", "merge", "merged"}
  \/ me[a].pc = "write" /\ me[a].nxt \in {"refresh", "record", "merge", "merged"}

(* What thread a carries to the row: an open breaker only when the files say *)
(* so already, and none while it may still change what they say.             *)
Carries(a) ==
  /\ me[a].pc = "write" /\ me[a].copy.escalated => file.lc = "needs-human"
  /\ me[a].breaker.escalated => file.lc = "needs-human"
  /\ Judging(a) => /\ ~meta.escalated /\ ~me[a].breaker.escalated
                   /\ me[a].pc = "write" => ~me[a].copy.escalated

Parked ==
  /\ meta.escalated => file.lc = "needs-human"
  /\ \A a \in Threads : Busy(a) => Carries(a)

ParkInv == AloneInv /\ (~overlap => Parked)

(* With one busy thread, only what that thread carries counts.               *)
LEMMA ParkedOwn ==
  ASSUME ParkInv, AloneInv', ~overlap => ~overlap', NEW a \in Threads, OwnStep(a),
         ~overlap => (Parked /\ Carries(a) => (meta.escalated => file.lc = "needs-human")')
         /\ (Parked /\ Carries(a) /\ Busy(a)' => Carries(a)')
  PROVE  ParkInv'
<1> SUFFICES ASSUME ~overlap' PROVE Parked'
  BY DEF ParkInv
<1>1. ~overlap
  BY DEF OwnStep
<1>2. Parked /\ Carries(a)
  BY <1>1 DEF ParkInv, Parked, OwnStep
<1>3. \A b \in Threads : b # a => ~Busy(b)'
  BY <1>1 DEF ParkInv, AloneInv, Alone, OwnStep, Busy
<1> QED BY <1>1, <1>2, <1>3 DEF Parked

(* A step of a thread keeps the open breaker and the files together.         *)
LEMMA ParkThread ==
  ASSUME ParkInv, AloneInv', NEW a \in Threads, PullRequestStep(a) \/ ReconcileStep(a)
  PROVE  ParkInv'
<1> USE OutType
<1>t. TypeOK /\ me[a] \in Local /\ me[a].copy \in Meta /\ me[a].breaker \in Meta /\ meta \in Meta
      /\ file \in [status : Statuses, lc : Lifecycles, src : BOOLEAN]
  BY DEF ParkInv, AloneInv, TypeOK, Local
<1>o. OwnStep(a)
  BY <1>t, ThreadOwn
<1>e. ~Fresh.escalated
  BY DEF Fresh
<1> SUFFICES ASSUME ~overlap, Parked, Carries(a)
             PROVE  /\ (meta.escalated => file.lc = "needs-human")'
                    /\ Busy(a)' => Carries(a)'
  BY <1>o, ParkedOwn DEF OwnStep
<1>p. meta.escalated => file.lc = "needs-human"
  BY DEF Parked
<1>1. CASE Refresh(a)
  <2>1. me'[a].pc = "record" /\ me'[a].breaker = me[a].breaker /\ UNCHANGED <<file, meta>>
    BY <1>1, <1>t DEF Refresh, TypeOK, Local
  <2>2. Judging(a)
    BY <1>1 DEF Refresh, Judging
  <2> QED BY <2>1, <2>2, <1>p DEF Carries, Judging
<1>2. CASE RefreshFails(a) \/ Record(a) \/ RecordMerged(a)
  <2>1. Judging(a)
    BY <1>2 DEF RefreshFails, Record, RecordMerged, Judging
  <2>2. me'[a].pc = "write" /\ me'[a].copy = meta /\ me'[a].breaker = me[a].breaker /\ meta' = meta
    BY <1>2, <1>t, ReadBackIs DEF RefreshFails, Record, RecordMerged
  <2> QED BY <2>1, <2>2 DEF Carries
<1>3. CASE UpdateBranch(a) \/ NoAction(a)
  <2>1. /\ me'[a].pc = "write" /\ me'[a].copy = meta /\ me'[a].breaker = me[a].breaker
        /\ me'[a].nxt = Out(a) /\ UNCHANGED <<file, meta>>
    BY <1>3, <1>t, ReadBackIs DEF UpdateBranch, NoAction
  <2> QED BY <2>1, <1>p DEF Carries, Judging
<1>4. CASE MergeRefused(a) \/ MergePr(a)
  <2>1. Judging(a)
    BY <1>4 DEF MergeRefused, MergePr, Judging
  <2>2. /\ me'[a].pc = "write" /\ me'[a].copy = meta /\ me'[a].breaker = me[a].breaker
        /\ UNCHANGED <<file, meta>>
    BY <1>4, <1>t, ReadBackIs DEF MergeRefused, MergePr
  <2> QED BY <2>1, <2>2, <1>p DEF Carries
<1>5. CASE ContextFails(a) \/ Settle(a)
  <2>1. Goto(a, Out(a)) /\ UNCHANGED <<file, meta>>
    BY <1>5 DEF ContextFails, Settle
  <2>2. me'[a].pc = Out(a)
    BY <2>1, <1>t, GotoIs
  <2>3. ~Busy(a)'
    BY <2>2 DEF Busy
  <2> QED BY <2>1, <2>3, <1>p
<1>d. \A d \in Decided(meta, Signature) : d[1] \in {"proceed", "defer"} => d[2].escalated = meta.escalated
  <2>1. Signature \in Nat
    BY <1>t, ViewType, SupervisorAssumption DEF Signature
  <2> QED BY <2>1, <1>t, DecidedType
<1>6. CASE Proceed(a)
  <2>1. /\ me'[a].pc \in {"dispatch", "persist"} /\ UNCHANGED <<file, meta>>
        /\ me'[a].breaker.escalated = meta.escalated
    BY <1>6, <1>t, <1>d DEF Proceed, TypeOK, Local
  <2> QED BY <2>1, <1>p DEF Carries, Judging
<1>7. CASE Escalate(a)
  <2>1. file'.lc = "needs-human" /\ me'[a].pc = "write" /\ me'[a].nxt = "persist"
    BY <1>7, <1>t DEF Escalate, TypeOK, Local
  <2> QED BY <2>1 DEF Carries, Judging
<1>8. CASE Dispatch(a)
  <2>1. me'[a].pc = "spend" /\ me'[a].breaker = me[a].breaker /\ UNCHANGED <<file, meta>>
    <3>1. Goto(a, "spend") /\ UNCHANGED <<file, meta>>
      BY <1>8 DEF Dispatch
    <3>2. "spend" \notin {"idle", "end"} /\ Goto(a, "spend") /\ TypeOK
      BY <3>1, <1>t
    <3>3. me'[a].pc = "spend"
      BY <3>2, GotoIs, Zenon
    <3>4. me'[a].breaker = me[a].breaker
      BY <3>2, GotoIs, Zenon
    <3> QED BY <3>1, <3>3, <3>4
  <2> QED BY <2>1, <1>p DEF Carries, Judging
<1>9. CASE PersistRepair(a)
  <2>1. /\ me'[a].pc = "write" /\ me'[a].copy.escalated = me[a].breaker.escalated
        /\ me'[a].breaker = me[a].breaker /\ me'[a].nxt = Out(a) /\ UNCHANGED <<file, meta>>
    <3> DEFINE m == [meta EXCEPT !.attempts = me[a].breaker.attempts,
                                 !.signature = me[a].breaker.signature,
                                 !.escalated = me[a].breaker.escalated]
    <3>1. m.escalated = me[a].breaker.escalated
      BY <1>t DEF Meta
    <3>2. ReadBack(a, m, Out(a)) /\ UNCHANGED <<file, meta>>
      BY <1>9 DEF PersistRepair
    <3> HIDE DEF m
    <3> QED BY <3>1, <3>2, <1>t, ReadBackIs
  <2> QED BY <2>1, <1>p DEF Carries, Judging
<1>10. CASE Poll(a)
  <2>1. me'[a].pc = "apply" /\ me'[a].breaker = me[a].breaker /\ UNCHANGED <<file, meta>>
    BY <1>10, <1>t DEF Poll, TypeOK, Local
  <2> QED BY <2>1, <1>p DEF Carries, Judging
<1>11. CASE PollFails(a) \/ ApplyNonTerminal(a) \/ ApplyTerminal(a)
  <2>1. /\ me'[a].pc = "write" /\ me'[a].copy = meta /\ me'[a].breaker = me[a].breaker
        /\ me'[a].nxt \in {Out(a), "settle"} /\ meta' = meta
    BY <1>11, <1>t, ReadBackIs DEF PollFails, ApplyNonTerminal, ApplyTerminal
  <2>2. file'.lc = file.lc
    BY <1>11, <1>t DEF PollFails, ApplyNonTerminal, ApplyTerminal
  <2> QED BY <2>1, <2>2, <1>p DEF Carries, Judging
<1>12. CASE Spend(a)
  <2>1. PICK u \in Usages :
          ReadBack(a, [meta EXCEPT !.tokens = @ + u.tokens, !.cost = @ + u.cost, !.executions = @ + 1],
                   IF a = "main" THEN "apply" ELSE "persist")
    BY <1>12 DEF Spend
  <2> DEFINE m == [meta EXCEPT !.tokens = @ + u.tokens, !.cost = @ + u.cost, !.executions = @ + 1]
             s == IF a = "main" THEN "apply" ELSE "persist"
  <2>2. m.escalated = meta.escalated /\ s \in {"apply", "persist"}
    BY <1>t DEF Meta
  <2>3. ReadBack(a, m, s)
    BY <2>1
  <2>4. UNCHANGED <<file, meta>>
    BY <1>12 DEF Spend
  <2> HIDE DEF m, s
  <2>5. /\ me'[a].pc = "write" /\ me'[a].copy.escalated = meta.escalated
        /\ me'[a].breaker = me[a].breaker /\ me'[a].nxt \in {"apply", "persist"}
    BY <2>2, <2>3, <1>t, ReadBackIs
  <2> QED BY <2>4, <2>5, <1>p DEF Carries, Judging
<1>13. CASE Write(a)
  <2>1. /\ me[a].pc = "write" /\ meta' = me[a].copy /\ file' = file /\ me'[a].pc = me[a].nxt
        /\ me'[a].breaker \in {me[a].breaker, Fresh} /\ me'[a].nxt = "idle" /\ me'[a].copy = Fresh
    BY <1>13, <1>t, GotoIs DEF Write
  <2>2. (meta.escalated => file.lc = "needs-human")'
    BY <2>1 DEF Carries
  <2>3. me'[a].pc \in {"refresh", "record", "merge", "merged"} =>
          ~me[a].copy.escalated /\ ~me[a].breaker.escalated
    BY <2>1 DEF Carries, Judging
  <2> QED BY <2>1, <2>2, <2>3, <1>e DEF Carries, Judging, Busy
<1> QED
  BY <1>1, <1>2, <1>3, <1>4, <1>5, <1>6, <1>7, <1>8, <1>9, <1>10, <1>11, <1>12, <1>13
     DEF PullRequestStep, ReconcileStep

LEMMA ParkNext == ParkInv /\ [Next]_vars => ParkInv'
<1> SUFFICES ASSUME ParkInv, [Next]_vars PROVE ParkInv'
  OBVIOUS
<1>t. TypeOK /\ AloneInv /\ AloneInv' /\ (\A a \in Threads : me[a] \in Local /\ Forgets(a))
      /\ file \in [status : Statuses, lc : Lifecycles, src : BOOLEAN]
  BY AloneNext DEF ParkInv, AloneInv, TypeOK
<1>e. ~Fresh.escalated
  BY DEF Fresh
<1>1. CASE \E a \in Threads : PullRequestStep(a) \/ ReconcileStep(a)
  BY <1>1, <1>t, ParkThread
<1>2. CASE MainStep
  <2>m. "main" \in Threads
    BY DEF Threads
  <2>1. OwnStep("main")
    BY <1>2, <1>t, MainOwn
  <2>2. /\ me'["main"].pc \in {"execute", "poll", "spend", "end"}
        /\ me'["main"].breaker \in {me["main"].breaker, Fresh}
    <3>1. CASE MainPoll
      BY <3>1, <1>t, <2>m DEF MainPoll, TypeOK, Local
    <3>2. CASE \E s \in {"execute", "poll", "end"} : Goto("main", s)
      BY <3>2, <1>t, <2>m, GotoIs
    <3> QED BY <3>1, <3>2, <1>2
              DEF MainStep, Preflight, CreateFails, Execute, MainPollFails, MainBlocks
  <2>3. meta' = meta /\ file'.lc = file.lc
    BY <1>2, <1>t DEF MainStep, Preflight, CreateFails, Execute, MainPollFails, MainBlocks, MainPoll
  <2>4. ASSUME Parked, Carries("main")
        PROVE  (meta.escalated => file.lc = "needs-human")' /\ Carries("main")'
    BY <2>2, <2>3, <2>4, <1>e DEF Parked, Carries, Judging
  <2> QED BY <2>m, <2>1, <2>4, <1>t, ParkedOwn DEF OwnStep
<1>3. ASSUME NEW a \in Threads, EnterRefresh(a) \/ EnterReconcile(a) \/ Cancel(a)
      PROVE  ParkInv'
  <2>1. EnterStep(a)
    BY <1>3, <1>t, EnterOwn
  <2>2. UNCHANGED <<file, meta>> /\ me[a] = Idle
    BY <1>3, <2>1, <1>t DEF EnterRefresh, EnterReconcile, Cancel, EnterStep, Forgets
  <2>3. me'[a].breaker = Fresh /\ me'[a].pc \in {"refresh", "poll", "idle", "end"}
    <3>1. CASE EnterRefresh(a)
      BY <3>1, <2>2, <1>t, IdleIs DEF EnterRefresh, TypeOK, Local
    <3>2. CASE \E s \in {"poll", "idle", "end"} : Goto(a, s)
      <4>1. PICK s \in {"poll", "idle", "end"} : Goto(a, s)
        BY <3>2
      <4>2. me[a].breaker = Fresh
        BY <2>2, IdleIs
      <4> QED BY <4>1, <4>2, <1>t, GotoIs
    <3> QED BY <3>1, <3>2, <1>3, OutType DEF EnterReconcile, Cancel
  <2>4. me'[a].pc = "refresh" => file.lc # "needs-human"
    <3>1. CASE EnterRefresh(a)
      BY <3>1 DEF EnterRefresh, Supervisable
    <3>2. CASE \E s \in {"poll", "idle", "end"} : Goto(a, s)
      BY <3>2, <1>t, GotoIs
    <3> QED BY <3>1, <3>2, <1>3, OutType DEF EnterReconcile, Cancel
  <2> SUFFICES ASSUME ~overlap' PROVE Parked'
    BY <1>t DEF ParkInv
  <2>5. ~overlap /\ \A b \in Threads : b # a => ~Busy(b)
    BY <2>1 DEF EnterStep, Enters
  <2>6. meta.escalated => file.lc = "needs-human"
    BY <2>5 DEF ParkInv, Parked
  <2>7. \A b \in Threads : b # a => ~Busy(b)'
    BY <2>1, <2>5 DEF EnterStep, Busy
  <2>8. Carries(a)'
    BY <2>2, <2>3, <2>4, <2>6, <1>e DEF Carries, Judging
  <2> QED BY <2>2, <2>6, <2>7, <2>8 DEF Parked
<1>4. CASE PrChanges \/ TandemEnds \/ UNCHANGED vars
  <2>1. UNCHANGED <<file, meta, me, overlap>>
    BY <1>4 DEF PrChanges, TandemEnds, vars
  <2> QED BY <2>1, <1>t DEF ParkInv, Parked, Carries, Judging, Busy
<1>5. CASE Crash
  <2>1. \A a \in Threads : me'[a] \in {Idle, [Idle EXCEPT !.pc = "end"]}
    BY <1>5 DEF Crash
  <2>2. \A a \in Threads : ~Busy(a)'
    BY <2>1, IdleIs DEF Busy
  <2>3. UNCHANGED <<file, meta, overlap>>
    BY <1>5 DEF Crash
  <2> QED BY <2>2, <2>3, <1>t DEF ParkInv, Parked
<1>6. \A a \in Supervisors \union Cancels : a \in Threads
  BY DEF Threads
<1> QED BY <1>1, <1>2, <1>3, <1>4, <1>5, <1>6 DEF Next

LEMMA ParkInit == Init => ParkInv
<1> SUFFICES ASSUME Init PROVE ParkInv
  OBVIOUS
<1>1. ~meta.escalated
  BY DEF Init, Fresh
<1>2. \A a \in Threads : a # "main" => ~Busy(a)
  BY InitThreads, IdleIs DEF Busy
<1>3. me["main"].pc \in {"preflight", "end"} /\ me["main"].breaker = Fresh
  <2>1. me["main"] \in {[Idle EXCEPT !.pc = "preflight"], [Idle EXCEPT !.pc = "end"]}
    BY InitThreads
  <2> QED BY <2>1, IdleAt
<1>4. ~Fresh.escalated
  BY DEF Fresh
<1> QED BY <1>1, <1>2, <1>3, <1>4, AloneInit DEF ParkInv, Parked, Carries, Judging

(* As long as no two threads were on the run together, a row whose breaker   *)
(* is open belongs to a run whose files say needs-human: between the write   *)
(* of the one and of the other no pass, and no pass after a restart, takes   *)
(* the run up again.                                                         *)
THEOREM OpenBreakerIsParked == Spec => []EscalatedIsParked
<1>1. ParkInv => EscalatedIsParked
  BY DEF ParkInv, Parked, EscalatedIsParked
<1> QED BY <1>1, ParkInit, ParkNext, PTL DEF Spec

-----------------------------------------------------------------------------
(* The row m counts every pass that was sent, but for one for each restart.  *)
CountedBy(m) == passes <= m.attempts + crashes /\ passes <= m.executions + crashes

(* What thread a still has to write before the row counts its pass: between  *)
(* the dispatch and the second write the breaker it carries counts it, and   *)
(* between the first write and the second the executions of the row do.      *)
Owes(a) ==
  /\ me[a].breaker.attempts <= MaxAttempts
  /\ a = "main" => me[a].pc \notin {"refresh", "record", "rebase", "context", "dispatch", "persist",
                                    "merge", "merged"}
                   /\ me[a].nxt \in {"idle", "apply", "settle", "end"}
  /\ me[a].pc \notin {"spend", "persist", "write"} \/ (a = "main" /\ me[a].pc = "spend")
       => CountedBy(meta)
  /\ me[a].pc = "dispatch" => /\ passes + 1 <= me[a].breaker.attempts + crashes
                              /\ MaxExecutions > 0 => meta.executions + 1 <= MaxExecutions
  /\ me[a].pc = "spend" /\ a # "main" => passes <= me[a].breaker.attempts + crashes
  /\ me[a].pc = "persist" => /\ passes <= me[a].breaker.attempts + crashes
                             /\ passes <= meta.executions + crashes
  /\ me[a].pc = "write" =>
       /\ me[a].copy.attempts <= MaxAttempts
       /\ me[a].nxt \notin {"dispatch", "spend", "write"}
       /\ passes <= me[a].copy.executions + crashes
       /\ passes <= me[a].copy.attempts + 1 + crashes
       /\ me[a].nxt # "persist" => passes <= me[a].copy.attempts + crashes
       /\ me[a].nxt = "persist" => passes <= me[a].breaker.attempts + crashes

(* The bounds, and how far the row may be behind.                            *)
Bounds ==
  /\ meta.attempts <= MaxAttempts
  /\ passes <= MaxAttempts + crashes
  /\ MaxExecutions > 0 => passes <= MaxExecutions + crashes
  /\ passes <= meta.attempts + 1 + crashes
  /\ passes <= meta.executions + 1 + crashes

Accounted ==
  /\ Bounds
  /\ (\A a \in Threads : ~Busy(a)) => CountedBy(meta)
  /\ \A a \in Threads : Busy(a) => Owes(a)

RepairInv == AloneInv /\ (~overlap => Accounted)

(* With one busy thread, only what that thread owes counts.                  *)
LEMMA AccountedOwn ==
  ASSUME RepairInv, AloneInv', NEW a \in Threads, OwnStep(a),
         ~overlap /\ Accounted /\ Owes(a) =>
           Bounds' /\ (Busy(a)' => Owes(a)') /\ (~Busy(a)' => CountedBy(meta)')
  PROVE  RepairInv'
<1> SUFFICES ASSUME ~overlap' PROVE Accounted'
  BY DEF RepairInv
<1>1. ~overlap
  BY DEF OwnStep
<1>2. Accounted /\ Owes(a)
  BY <1>1 DEF RepairInv, Accounted, OwnStep
<1>3. \A b \in Threads : b # a => ~Busy(b)'
  BY <1>1 DEF RepairInv, AloneInv, Alone, OwnStep, Busy
<1> QED BY <1>1, <1>2, <1>3 DEF Accounted

(* The numbers, and that a thread owes nothing by Fresh.                     *)
LEMMA CountTypes ==
  ASSUME TypeOK, NEW a \in Threads
  PROVE  /\ passes \in Nat /\ crashes \in Nat /\ MaxAttempts \in Nat /\ MaxExecutions \in Nat
         /\ meta.attempts \in Nat /\ meta.executions \in Nat
         /\ me[a].copy.attempts \in Nat /\ me[a].copy.executions \in Nat
         /\ me[a].breaker.attempts \in Nat
         /\ Fresh.attempts = 0 /\ Fresh.executions = 0 /\ Fresh.attempts <= MaxAttempts
<1>1. passes \in Nat /\ crashes \in 0 .. MaxCrashes /\ MaxCrashes \in Nat
      /\ MaxAttempts \in Nat /\ MaxExecutions \in Nat
  BY SupervisorAssumption DEF TypeOK
<1>2. crashes \in Nat
  BY ONLY <1>1
<1>3. meta \in Meta /\ me[a] \in Local
  BY DEF TypeOK
<1>4. me[a].copy \in Meta /\ me[a].breaker \in Meta
  BY <1>3 DEF Local
<1>5. \A m \in Meta : m.attempts \in Nat /\ m.executions \in Nat
  BY DEF Meta
<1>6. Fresh.attempts = 0 /\ Fresh.executions = 0
  BY DEF Fresh
<1>7. Fresh.attempts <= MaxAttempts
  BY ONLY <1>1, <1>6
<1> QED BY <1>1, <1>2, <1>3, <1>4, <1>5, <1>6, <1>7

(* A thread whose pass is not under way moves on.                            *)
LEMMA OwesNothing ==
  ASSUME TypeOK, NEW a \in Threads, Owes(a), CountedBy(meta), UNCHANGED <<meta, passes, crashes>>,
         me'[a].breaker \in {me[a].breaker, Fresh},
         me'[a].pc \notin {"spend", "persist", "write", "dispatch"} \/ (a = "main" /\ me'[a].pc = "spend"),
         a = "main" => me'[a].pc \notin {"refresh", "record", "rebase", "context", "dispatch", "persist",
                                         "merge", "merged"}
                       /\ me'[a].nxt \in {"idle", "apply", "settle", "end"}
  PROVE  Owes(a)' /\ CountedBy(meta)'
<1>1. CountedBy(meta)'
  BY DEF CountedBy
<1>2. me'[a].breaker.attempts <= MaxAttempts
  BY CountTypes DEF Owes
<1> QED BY <1>1, <1>2 DEF Owes

(* A thread whose pass is not under way is to write the row as it was read,  *)
(* or with more spent.                                                       *)
LEMMA OwesWrite ==
  ASSUME TypeOK, NEW a \in Threads, Owes(a), Bounds, CountedBy(meta), UNCHANGED <<passes, crashes>>,
         me'[a].breaker = me[a].breaker, me'[a].pc = "write",
         me'[a].copy.attempts = meta.attempts,
         me'[a].copy.executions \in {meta.executions, meta.executions + 1},
         me'[a].nxt \notin {"dispatch", "spend", "write", "persist"},
         a = "main" => me'[a].nxt \in {"idle", "apply", "settle", "end"}
  PROVE  Owes(a)'
<1>1. /\ passes \in Nat /\ crashes \in Nat /\ meta.attempts \in Nat /\ meta.executions \in Nat
      /\ passes <= meta.attempts + crashes /\ passes <= meta.executions + crashes
  BY CountTypes DEF CountedBy
<1>2. /\ passes <= meta.executions + 1 + crashes
      /\ passes <= meta.attempts + 1 + crashes
  BY ONLY <1>1
<1>3. me'[a].copy.attempts <= MaxAttempts /\ me'[a].breaker.attempts <= MaxAttempts
  BY DEF Bounds, Owes
<1>4. passes' <= me'[a].copy.attempts + crashes' /\ passes' <= me'[a].copy.executions + crashes'
      /\ passes' <= me'[a].copy.attempts + 1 + crashes'
  BY <1>1, <1>2
<1> QED BY <1>3, <1>4 DEF Owes

(* A step of a thread keeps the account.                                     *)
LEMMA RepairThread ==
  ASSUME RepairInv, AloneInv', NEW a \in Threads, PullRequestStep(a) \/ ReconcileStep(a)
  PROVE  RepairInv'
<1> USE OutType
<1>t. TypeOK /\ TypeOK' /\ me[a] \in Local /\ me[a].copy \in Meta /\ me[a].breaker \in Meta /\ meta \in Meta
  BY DEF RepairInv, AloneInv, TypeOK, Local
<1>o. OwnStep(a)
  BY <1>t, ThreadOwn
<1> SUFFICES ASSUME ~overlap, Accounted, Owes(a)
             PROVE  Bounds' /\ (Busy(a)' => Owes(a)') /\ (~Busy(a)' => CountedBy(meta)')
  BY <1>o, AccountedOwn
<1>b. Bounds
  BY DEF Accounted
<1>c. crashes' = crashes
  BY <1>o DEF OwnStep
<1>u. UNCHANGED <<meta, passes>> => Bounds'
  BY <1>b, <1>c DEF Bounds
<1>m. a = "main" => Out(a) = "end"
  BY DEF Out
<1>1. CASE Refresh(a) \/ Poll(a)
  <2>1. /\ me[a].pc \in {"refresh", "poll"} /\ UNCHANGED <<meta, passes>> /\ me'[a].breaker = me[a].breaker
        /\ me'[a].pc \in {"record", "apply"} /\ (a = "main" => me[a].pc = "refresh")
    BY <1>1, <1>t DEF Refresh, Poll, TypeOK, Local
  <2>2. CountedBy(meta) /\ a # "main"
    BY <2>1 DEF Owes
  <2> QED BY <2>1, <2>2, <1>c, <1>u, <1>t, OwesNothing DEF Busy
<1>2. CASE RefreshFails(a) \/ Record(a) \/ RecordMerged(a) \/ UpdateBranch(a) \/ NoAction(a)
           \/ MergeRefused(a) \/ MergePr(a)
  <2>1. /\ me[a].pc \in {"refresh", "record", "merged", "rebase", "context", "merge"}
        /\ UNCHANGED <<meta, passes>>
        /\ \E s \in {Out(a), "rebase", "context", "merge", "merged"} : ReadBack(a, meta, s)
    BY <1>2 DEF RefreshFails, Record, RecordMerged, UpdateBranch, NoAction, MergeRefused, MergePr
  <2>2. CountedBy(meta) /\ a # "main"
    BY <2>1 DEF Owes
  <2>3. /\ me'[a].pc = "write" /\ me'[a].copy = meta /\ me'[a].breaker = me[a].breaker
        /\ me'[a].nxt \notin {"dispatch", "spend", "write", "persist"}
    BY <2>1, <1>t, ReadBackIs
  <2> QED BY <2>1, <2>2, <2>3, <1>b, <1>c, <1>u, <1>t, OwesWrite DEF Busy
<1>3. CASE PollFails(a) \/ ApplyNonTerminal(a) \/ ApplyTerminal(a)
  <2>1. /\ me[a].pc \in {"poll", "apply"} /\ UNCHANGED <<meta, passes>>
        /\ \E s \in {Out(a), "settle"} : ReadBack(a, meta, s)
    BY <1>3 DEF PollFails, ApplyNonTerminal, ApplyTerminal
  <2>2. CountedBy(meta)
    BY <2>1 DEF Owes
  <2>3. /\ me'[a].pc = "write" /\ me'[a].copy = meta /\ me'[a].breaker = me[a].breaker
        /\ me'[a].nxt \in {Out(a), "settle"}
    BY <2>1, <1>t, ReadBackIs
  <2>4. me'[a].nxt \notin {"dispatch", "spend", "write", "persist"}
        /\ (a = "main" => me'[a].nxt \in {"idle", "apply", "settle", "end"})
    BY <2>3, <1>m
  <2> QED BY <2>1, <2>2, <2>3, <2>4, <1>b, <1>c, <1>u, <1>t, OwesWrite DEF Busy
<1>4. CASE ContextFails(a) \/ Settle(a)
  <2>1. me[a].pc \in {"context", "settle"} /\ Goto(a, Out(a)) /\ UNCHANGED <<meta, passes>>
    BY <1>4 DEF ContextFails, Settle
  <2>2. me'[a].pc = Out(a)
    BY <2>1, <1>t, GotoIs
  <2>3. CountedBy(meta)
    BY <2>1 DEF Owes
  <2> QED BY <2>1, <2>2, <2>3, <1>u, <1>c DEF Busy, CountedBy
<1>d. \A d \in Decided(meta, Signature) :
         /\ d[1] = "proceed" => /\ d[2].attempts = meta.attempts + 1 /\ meta.attempts < MaxAttempts
                                /\ ~OverBudget(meta)
         /\ d[1] # "proceed" => d[2].attempts = meta.attempts
  <2>1. Signature \in Nat
    BY <1>t, ViewType, SupervisorAssumption DEF Signature
  <2> QED BY <2>1, <1>t, DecidedType
<1>n. /\ passes \in Nat /\ crashes \in Nat /\ MaxAttempts \in Nat /\ MaxExecutions \in Nat
      /\ meta.attempts \in Nat /\ meta.executions \in Nat
      /\ me[a].copy.attempts \in Nat /\ me[a].copy.executions \in Nat
      /\ me[a].breaker.attempts \in Nat
  BY <1>t, CountTypes
<1>5. CASE Proceed(a)
  <2>1. PICK d \in Decided(meta, Signature) :
          /\ d[1] \in {"proceed", "defer"}
          /\ me' = [me EXCEPT ![a].dec = d[1], ![a].breaker = d[2],
                              ![a].pc = IF d[1] = "proceed" THEN "dispatch" ELSE "persist"]
    BY <1>5 DEF Proceed
  <2>2. me[a].pc = "context" /\ UNCHANGED <<meta, passes>>
    BY <1>5 DEF Proceed
  <2>3. /\ me'[a].breaker = d[2] /\ me'[a].pc = IF d[1] = "proceed" THEN "dispatch" ELSE "persist"
    BY <2>1, <1>t DEF TypeOK, Local
  <2>4. CountedBy(meta) /\ a # "main"
    BY <2>2 DEF Owes
  <2>5. passes <= meta.attempts + crashes /\ passes <= meta.executions + crashes
        /\ meta.attempts <= MaxAttempts
    BY <2>4, <1>b DEF CountedBy, Bounds
  <2>6. CASE d[1] = "proceed"
    <3>1. d[2].attempts = meta.attempts + 1 /\ meta.attempts < MaxAttempts
      BY <2>6, <1>d
    <3>2. MaxExecutions > 0 => ~(meta.executions >= MaxExecutions)
      BY <2>6, <1>d DEF OverBudget, Exhausted
    <3>3. d[2].attempts <= MaxAttempts /\ passes + 1 <= d[2].attempts + crashes
          /\ (MaxExecutions > 0 => meta.executions + 1 <= MaxExecutions)
      BY ONLY <3>1, <3>2, <2>5, <1>n
    <3>4. me'[a].pc = "dispatch" /\ me'[a].breaker.attempts = d[2].attempts
      BY <2>3, <2>6
    <3>5. CountedBy(meta)'
      BY <2>2, <2>4, <1>c DEF CountedBy
    <3> QED BY <2>2, <2>4, <3>3, <3>4, <3>5, <1>c, <1>u DEF Owes, Busy
  <2>7. CASE d[1] = "defer"
    <3>1. me'[a].pc = "persist" /\ me'[a].breaker.attempts = meta.attempts
      BY <2>3, <2>7, <1>d
    <3> QED BY <2>2, <2>4, <2>5, <3>1, <1>c, <1>u DEF Owes, Busy
  <2> QED BY <2>1, <2>6, <2>7
<1>6. CASE Escalate(a)
  <2>1. PICK d \in Decided(meta, Signature) :
          /\ d[1] \in {"escalate", "skip"}
          /\ me' = [me EXCEPT ![a].dec = d[1], ![a].breaker = d[2],
                              ![a].copy = meta, ![a].pc = "write", ![a].nxt = "persist"]
    BY <1>6 DEF Escalate
  <2>2. me[a].pc = "context" /\ UNCHANGED <<meta, passes>>
    BY <1>6 DEF Escalate
  <2>3. me'[a].breaker = d[2] /\ me'[a].pc = "write" /\ me'[a].nxt = "persist" /\ me'[a].copy = meta
    BY <2>1, <1>t DEF TypeOK, Local
  <2>4. CountedBy(meta) /\ a # "main"
    BY <2>2 DEF Owes
  <2>5. me'[a].breaker.attempts = meta.attempts
    BY <2>1, <2>3, <1>d
  <2>6. /\ passes <= meta.attempts + crashes /\ passes <= meta.executions + crashes
        /\ meta.attempts <= MaxAttempts /\ passes <= meta.attempts + 1 + crashes
    BY <2>4, <1>b DEF CountedBy, Bounds
  <2> QED BY <2>2, <2>3, <2>4, <2>5, <2>6, <1>c, <1>u DEF Owes, Busy
<1>7. CASE Dispatch(a)
  <2>1. me[a].pc = "dispatch" /\ meta' = meta /\ passes' \in {passes, passes + 1} /\ Goto(a, "spend")
    BY <1>7 DEF Dispatch
  <2>2. "spend" \notin {"idle", "end"} /\ Goto(a, "spend") /\ TypeOK
    BY <2>1, <1>t
  <2>3. me'[a].pc = "spend"
    BY <2>2, GotoIs, Zenon
  <2>4. me'[a].breaker = me[a].breaker
    BY <2>2, GotoIs, Zenon
  <2>5. /\ passes + 1 <= me[a].breaker.attempts + crashes
        /\ MaxExecutions > 0 => meta.executions + 1 <= MaxExecutions
        /\ passes <= meta.attempts + crashes /\ passes <= meta.executions + crashes
        /\ me[a].breaker.attempts <= MaxAttempts /\ a # "main"
    BY <2>1 DEF Owes, CountedBy
  <2>6. passes' <= passes + 1 /\ passes' \in Nat
    BY <2>1, <1>n
  <2>7. /\ passes' <= me[a].breaker.attempts + crashes
        /\ passes' <= MaxAttempts + crashes
        /\ MaxExecutions > 0 => passes' <= MaxExecutions + crashes
        /\ passes' <= meta.attempts + 1 + crashes
        /\ passes' <= meta.executions + 1 + crashes
    BY ONLY <2>5, <2>6, <1>n
  <2>8. Bounds'
    BY <2>1, <2>7, <1>b, <1>c DEF Bounds
  <2>9. Owes(a)'
    BY <2>3, <2>4, <2>5, <2>7, <1>c DEF Owes
  <2> QED BY <2>3, <2>8, <2>9 DEF Busy
<1>8. CASE Spend(a)
  <2>1. PICK u \in Usages :
          ReadBack(a, [meta EXCEPT !.tokens = @ + u.tokens, !.cost = @ + u.cost, !.executions = @ + 1],
                   IF a = "main" THEN "apply" ELSE "persist")
    BY <1>8 DEF Spend
  <2> DEFINE m == [meta EXCEPT !.tokens = @ + u.tokens, !.cost = @ + u.cost, !.executions = @ + 1]
             s == IF a = "main" THEN "apply" ELSE "persist"
  <2>2. m.attempts = meta.attempts /\ m.executions = meta.executions + 1
    BY <1>t DEF Meta
  <2>3. ReadBack(a, m, s)
    BY <2>1
  <2>4. me[a].pc = "spend" /\ UNCHANGED <<meta, passes>>
    BY <1>8 DEF Spend
  <2>5. (a = "main" => s = "apply") /\ (a # "main" => s = "persist")
    OBVIOUS
  <2> HIDE DEF m, s
  <2>6. /\ me'[a].pc = "write" /\ me'[a].copy = m
        /\ me'[a].breaker = me[a].breaker /\ me'[a].nxt = s
    BY <2>3, <1>t, ReadBackIs
  <2>7. me'[a].copy.attempts = meta.attempts /\ me'[a].copy.executions = meta.executions + 1
    BY <2>2, <2>6
  <2>8. CASE a = "main"
    <3>1. CountedBy(meta)
      BY <2>4, <2>8 DEF Owes
    <3>2. Owes(a)'
      BY <2>4, <2>5, <2>6, <2>7, <2>8, <3>1, <1>b, <1>c, <1>t, OwesWrite
    <3> QED BY <2>4, <2>6, <3>2, <1>u DEF Busy
  <2>9. CASE a # "main"
    <3>1. /\ passes <= me[a].breaker.attempts + crashes /\ me[a].breaker.attempts <= MaxAttempts
          /\ passes <= meta.executions + 1 + crashes
          /\ passes <= meta.attempts + 1 + crashes /\ meta.attempts <= MaxAttempts
      BY <2>4, <2>9, <1>b DEF Owes, Bounds
    <3>2. Owes(a)'
      BY <2>4, <2>5, <2>6, <2>7, <2>9, <3>1, <1>c DEF Owes
    <3> QED BY <2>4, <2>6, <3>2, <1>u DEF Busy
  <2> QED BY <2>8, <2>9
<1>9. CASE PersistRepair(a)
  <2> DEFINE m == [meta EXCEPT !.attempts = me[a].breaker.attempts,
                               !.signature = me[a].breaker.signature,
                               !.escalated = me[a].breaker.escalated]
  <2>1. m.attempts = me[a].breaker.attempts /\ m.executions = meta.executions
    BY <1>t DEF Meta
  <2>2. me[a].pc = "persist" /\ ReadBack(a, m, Out(a)) /\ UNCHANGED <<meta, passes>>
    BY <1>9 DEF PersistRepair
  <2> HIDE DEF m
  <2>3. /\ me'[a].pc = "write" /\ me'[a].copy = m
        /\ me'[a].breaker = me[a].breaker /\ me'[a].nxt = Out(a)
    BY <2>2, <1>t, ReadBackIs
  <2>4. /\ passes <= me[a].breaker.attempts + crashes /\ passes <= meta.executions + crashes
        /\ me[a].breaker.attempts <= MaxAttempts /\ a # "main"
    BY <2>2 DEF Owes
  <2>5. passes <= me[a].breaker.attempts + 1 + crashes
    BY ONLY <2>4, <1>n
  <2>6. me'[a].copy.attempts = me[a].breaker.attempts /\ me'[a].copy.executions = meta.executions
    BY <2>1, <2>3
  <2>7. Owes(a)'
    BY <2>2, <2>3, <2>4, <2>5, <2>6, <1>c DEF Owes
  <2> QED BY <2>2, <2>3, <2>7, <1>u DEF Busy
<1>10. CASE Write(a)
  <2>1. /\ me[a].pc = "write" /\ meta' = me[a].copy /\ UNCHANGED passes /\ me'[a].pc = me[a].nxt
        /\ me'[a].breaker \in {me[a].breaker, Fresh} /\ me'[a].nxt = "idle"
        /\ me[a].nxt \notin {"idle", "end"} => me'[a].breaker = me[a].breaker
    <3>1. me[a].pc = "write" /\ meta' = me[a].copy /\ UNCHANGED passes /\ Goto(a, me[a].nxt)
      BY <1>10 DEF Write
    <3> QED BY <3>1, <1>t, GotoIs
  <2>2. /\ me[a].copy.attempts <= MaxAttempts
        /\ me[a].nxt \notin {"dispatch", "spend", "write"}
        /\ passes <= me[a].copy.executions + crashes
        /\ passes <= me[a].copy.attempts + 1 + crashes
        /\ me[a].nxt # "persist" => passes <= me[a].copy.attempts + crashes
        /\ me[a].nxt = "persist" => passes <= me[a].breaker.attempts + crashes
        /\ a = "main" => me[a].nxt \in {"idle", "apply", "settle", "end"}
    BY <2>1 DEF Owes
  <2>3. passes <= me[a].copy.executions + 1 + crashes
    BY ONLY <2>2, <1>n
  <2>4. Bounds'
    BY <2>1, <2>2, <2>3, <1>b, <1>c DEF Bounds
  <2>5. me[a].nxt # "persist" => CountedBy(meta)'
    BY <2>1, <2>2, <1>c DEF CountedBy
  <2>6. me'[a].breaker.attempts <= MaxAttempts
    BY <2>1, <1>t, CountTypes DEF Owes
  <2>7. Owes(a)'
    BY <2>1, <2>2, <2>5, <2>6, <1>c DEF Owes
  <2> QED BY <2>1, <2>4, <2>5, <2>7 DEF Busy
<1> QED
  BY <1>1, <1>2, <1>3, <1>4, <1>5, <1>6, <1>7, <1>8, <1>9, <1>10 DEF PullRequestStep, ReconcileStep

LEMMA RepairNext == RepairInv /\ [Next]_vars => RepairInv'
<1> SUFFICES ASSUME RepairInv, [Next]_vars PROVE RepairInv'
  OBVIOUS
<1>t. TypeOK /\ AloneInv /\ AloneInv' /\ (\A a \in Threads : me[a] \in Local /\ Forgets(a))
  BY AloneNext DEF RepairInv, AloneInv, TypeOK
<1>1. CASE \E a \in Threads : PullRequestStep(a) \/ ReconcileStep(a)
  BY <1>1, <1>t, RepairThread
<1>2. CASE MainStep
  <2>m. "main" \in Threads
    BY DEF Threads
  <2>1. OwnStep("main")
    BY <1>2, <1>t, MainOwn
  <2>2. /\ me["main"].pc \in {"preflight", "execute", "poll"} /\ UNCHANGED <<meta, passes>>
        /\ me'["main"].pc \in {"execute", "poll", "spend", "end"}
        /\ me'["main"].breaker \in {me["main"].breaker, Fresh}
        /\ me'["main"].nxt \in {"idle", me["main"].nxt}
    <3>1. CASE MainPoll
      BY <3>1, <1>t, <2>m DEF MainPoll, TypeOK, Local
    <3>2. CASE /\ me["main"].pc \in {"preflight", "execute", "poll"} /\ UNCHANGED <<meta, passes>>
               /\ \E s \in {"execute", "poll", "end"} : Goto("main", s)
      <4>1. PICK s \in {"execute", "poll", "end"} : Goto("main", s)
        BY <3>2
      <4>2. me'["main"].pc = s /\ me'["main"].nxt = "idle"
        BY <4>1, <1>t, <2>m, GotoIs
      <4>3. me'["main"].breaker \in {me["main"].breaker, Fresh}
        BY <4>1, <1>t, <2>m, GotoIs
      <4> QED BY <3>2, <4>2, <4>3
    <3>3. MainPoll \/ (/\ me["main"].pc \in {"preflight", "execute", "poll"} /\ UNCHANGED <<meta, passes>>
                       /\ \E s \in {"execute", "poll", "end"} : Goto("main", s))
      BY <1>2 DEF MainStep, Preflight, CreateFails, Execute, MainPollFails, MainBlocks
    <3> QED BY <3>1, <3>2, <3>3
  <2>3. ASSUME Accounted, Owes("main")
        PROVE  Bounds' /\ Owes("main")' /\ CountedBy(meta)'
    <3>1. CountedBy(meta) /\ me["main"].nxt \in {"idle", "apply", "settle", "end"}
      BY <2>2, <2>3 DEF Owes
    <3>2. crashes' = crashes
      BY <2>1 DEF OwnStep
    <3>3. Bounds'
      BY <2>2, <2>3, <3>2 DEF Accounted, Bounds
    <3> QED BY <2>2, <2>3, <2>m, <3>1, <3>2, <3>3, <1>t, OwesNothing
  <2> QED BY <2>m, <2>1, <2>3, <1>t, AccountedOwn
<1>3. ASSUME NEW a \in Threads, EnterRefresh(a) \/ EnterReconcile(a) \/ Cancel(a), a # "main"
      PROVE  RepairInv'
  <2>1. EnterStep(a)
    BY <1>3, <1>t, EnterOwn
  <2>2. UNCHANGED <<passes, meta>> /\ me[a] = Idle /\ crashes' = crashes
    BY <1>3, <2>1, <1>t DEF EnterRefresh, EnterReconcile, Cancel, EnterStep, Forgets
  <2>3. me'[a].breaker = Fresh /\ me'[a].pc \in {"refresh", "poll", "idle", "end"}
    <3>1. CASE EnterRefresh(a)
      BY <3>1, <2>2, <1>t, IdleIs DEF EnterRefresh, TypeOK, Local
    <3>2. CASE \E s \in {"poll", "idle", "end"} : Goto(a, s)
      <4>1. PICK s \in {"poll", "idle", "end"} : Goto(a, s)
        BY <3>2
      <4>2. me[a].breaker = Fresh
        BY <2>2, IdleIs
      <4> QED BY <4>1, <4>2, <1>t, GotoIs
    <3> QED BY <3>1, <3>2, <1>3, OutType DEF EnterReconcile, Cancel
  <2> SUFFICES ASSUME ~overlap' PROVE Accounted'
    BY <1>t DEF RepairInv
  <2>5. ~overlap /\ \A b \in Threads : b # a => ~Busy(b)
    BY <2>1 DEF EnterStep, Enters
  <2>6. ~Busy(a)
    BY <2>1 DEF EnterStep, Busy
  <2>7. Bounds /\ CountedBy(meta)
    BY <2>5, <2>6 DEF RepairInv, Accounted
  <2>8. Bounds' /\ CountedBy(meta)'
    BY <2>2, <2>7 DEF Bounds, CountedBy
  <2>9. \A b \in Threads : b # a => ~Busy(b)'
    BY <2>1, <2>5 DEF EnterStep, Busy
  <2>10. Owes(a)'
    <3>1. me'[a].breaker.attempts <= MaxAttempts
      BY <2>3, <1>t, CountTypes
    <3> QED BY <1>3, <2>3, <2>8, <3>1 DEF Owes
  <2> QED BY <2>8, <2>9, <2>10 DEF Accounted
<1>4. CASE PrChanges \/ TandemEnds \/ UNCHANGED vars
  <2>1. UNCHANGED <<meta, me, passes, overlap, crashes>>
    BY <1>4 DEF PrChanges, TandemEnds, vars
  <2> QED BY <2>1, <1>t DEF RepairInv, Accounted, Bounds, Owes, CountedBy, Busy
<1>5. CASE Crash
  <2>1. \A a \in Threads : me'[a] \in {Idle, [Idle EXCEPT !.pc = "end"]}
    BY <1>5 DEF Crash
  <2>2. \A a \in Threads : ~Busy(a)'
    BY <2>1, IdleIs DEF Busy
  <2>3. UNCHANGED <<meta, passes, overlap>> /\ crashes' = crashes + 1
    BY <1>5 DEF Crash
  <2> SUFFICES ASSUME ~overlap' PROVE Bounds' /\ CountedBy(meta)'
    BY <2>2, <1>t DEF RepairInv, Accounted
  <2>4. /\ meta.attempts <= MaxAttempts
        /\ passes <= MaxAttempts + crashes
        /\ MaxExecutions > 0 => passes <= MaxExecutions + crashes
        /\ passes <= meta.attempts + 1 + crashes
        /\ passes <= meta.executions + 1 + crashes
    BY <2>3 DEF RepairInv, Accounted, Bounds
  <2>5. /\ passes \in Nat /\ crashes \in Nat /\ MaxAttempts \in Nat /\ MaxExecutions \in Nat
        /\ meta.attempts \in Nat /\ meta.executions \in Nat
    <3>1. "main" \in Threads
      BY DEF Threads
    <3> QED BY <3>1, <1>t, CountTypes
  <2>6. /\ passes <= MaxAttempts + (crashes + 1)
        /\ MaxExecutions > 0 => passes <= MaxExecutions + (crashes + 1)
        /\ passes <= meta.attempts + 1 + (crashes + 1)
        /\ passes <= meta.executions + 1 + (crashes + 1)
        /\ passes <= meta.attempts + (crashes + 1)
        /\ passes <= meta.executions + (crashes + 1)
    BY ONLY <2>4, <2>5
  <2> QED BY <2>3, <2>4, <2>6 DEF Bounds, CountedBy
<1>6. \A a \in Supervisors \union Cancels : a \in Threads /\ a # "main"
  BY SupervisorAssumption DEF Threads, Supervisors
<1> QED BY <1>1, <1>2, <1>3, <1>4, <1>5, <1>6 DEF Next

LEMMA RepairInit == Init => RepairInv
<1> SUFFICES ASSUME Init PROVE RepairInv
  OBVIOUS
<1>1. meta = Fresh /\ passes = 0 /\ crashes = 0
  BY DEF Init
<1>2. \A a \in Threads : a # "main" => ~Busy(a)
  BY InitThreads, IdleIs DEF Busy
<1>3. me["main"].pc \in {"preflight", "end"} /\ me["main"].breaker = Fresh /\ me["main"].nxt = "idle"
  <2>1. me["main"] \in {[Idle EXCEPT !.pc = "preflight"], [Idle EXCEPT !.pc = "end"]}
    BY InitThreads
  <2> QED BY <2>1, IdleAt
<1>4. meta.attempts = 0 /\ meta.executions = 0 /\ me["main"].breaker.attempts = 0
  BY <1>1, <1>3 DEF Fresh
<1>5. MaxAttempts \in Nat /\ MaxExecutions \in Nat
  BY SupervisorAssumption
<1>6. passes = 0 /\ crashes = 0 /\ meta.attempts = 0 /\ meta.executions = 0
  BY <1>1, <1>4
<1>7. Bounds /\ CountedBy(meta)
  <2>1. /\ 0 <= MaxAttempts /\ 0 <= MaxAttempts + 0 /\ 0 <= MaxExecutions + 0
        /\ 0 <= 0 + 1 + 0 /\ 0 <= 0 + 0
    BY ONLY <1>5
  <2> QED BY <1>6, <2>1 DEF Bounds, CountedBy
<1>8. me["main"].breaker.attempts <= MaxAttempts
  BY <1>4, <1>5
<1>9. Owes("main")
  BY <1>3, <1>7, <1>8 DEF Owes
<1> QED BY <1>2, <1>7, <1>9, AloneInit DEF RepairInv, Accounted

(* As long as no two threads were on the run together, the breaker and the   *)
(* budget hold across restarts: a pull request is sent no more repair passes *)
(* than the attempts allow, nor than the executions do, and one more for     *)
(* each restart, whatever the number of attempts, executions and restarts.   *)
THEOREM PassesBounded == Spec => []RepairsBounded
<1>1. RepairInv => RepairsBounded
  BY DEF RepairInv, Accounted, Bounds, RepairsBounded
<1> QED BY <1>1, RepairInit, RepairNext, PTL DEF Spec
=============================================================================
