--------------------------- MODULE ApprovalsProofs ---------------------------
(* Proofs about Approvals, for any set of actions: no write without an       *)
(* approval when the plan is made once, however many resumes run and die;    *)
(* and, with one resume at a time and any number of plans, no write without  *)
(* an approval either, executed rows stay executed and every approval or     *)
(* retry allows at most one write.                                           *)
EXTENDS Approvals, TLAPS

(* Every step keeps the variables in their ranges.                           *)
LEMMA TypeStep ==
  ASSUME TypeOK, [Next]_vars
  PROVE  TypeOK'
<1> USE DEF TypeOK, requestVars
<1>0. /\ {"none", "pending", "approved", "rejected", "executed", "failed"} = Statuses
      /\ {"idle", "items", "mark", "pending", "failed", "executed", "write"} = Steps
  BY DEF Statuses, Steps
<1>s. \A S : AfterItem(S) \in Steps
  BY <1>0 DEF AfterItem
<1>l. \A s : WithStatus(s) \in SUBSET Actions
  BY DEF WithStatus
<1>1. ASSUME NEW a \in Actions, EnqueueApproval(a) PROVE TypeOK'
  BY <1>1, <1>0 DEF EnqueueApproval, EnqueuedStatus
<1>2. CASE BlockForApproval
  BY <1>2 DEF BlockForApproval
<1>3. CASE PlanAgain
  BY <1>3 DEF PlanAgain
<1>4. ASSUME NEW S \in SUBSET Actions, Grant(S) PROVE TypeOK'
  BY <1>4, <1>0 DEF Grant
<1>5. ASSUME NEW a \in Actions, DecideReject(a) PROVE TypeOK'
  BY <1>5, <1>0 DEF DecideReject
<1>6. CASE Operator
  <2>1. \A a \in Actions : {a} \in SUBSET Actions
    OBVIOUS
  <2> QED BY <1>4, <1>5, <1>6, <1>l, <2>1
         DEF Operator, DecideApprove, RetryApproval, ApprovePending, RetryFailed
<1>7. ASSUME NEW e \in Resumes, ListApproved(e) PROVE TypeOK'
  <2>1. Listed \in SUBSET Actions
    BY <1>l DEF Listed
  <2> QED BY <1>7, <1>s, <2>1 DEF ListApproved
<1>8. ASSUME NEW e \in Resumes, NEW a \in Actions, ExecuteApprovedAction(e, a) PROVE TypeOK'
  <2>1. PICK r \in AllResults : /\ result' = [result EXCEPT ![e] = r]
                                /\ writes' = [writes EXCEPT ![a] = IF r \in Performing THEN @ + 1 ELSE @]
    BY <1>8, ApprovalsAssumption DEF ExecuteApprovedAction
  <2>2. writes' \in [Actions -> Nat] /\ result' \in [Resumes -> AllResults]
    BY <2>1
  <2> QED BY <1>8, <1>0, <2>2 DEF ExecuteApprovedAction
<1>9. ASSUME NEW e \in Resumes, NEW a \in Actions, MarkAction(e, a) PROVE TypeOK'
  BY <1>9, <1>0, <1>s DEF MarkAction, Marked
<1>10. ASSUME NEW e \in Resumes, NEW s \in {"pending", "failed", "executed"}, NEW n \in Steps, Look(e, s, n)
       PROVE TypeOK'
  BY <1>10 DEF Look
<1>11. ASSUME NEW e \in Resumes, LookPending(e) \/ LookFailed(e) \/ LookExecuted(e) PROVE TypeOK'
  BY <1>10, <1>11, <1>0 DEF LookPending, LookFailed, LookExecuted
<1>12. ASSUME NEW e \in Resumes, WriteRunStatus(e) PROVE TypeOK'
  BY <1>12, <1>0 DEF WriteRunStatus, RunStatusAfter
<1>13. ASSUME NEW e \in Resumes, Crash(e) PROVE TypeOK'
  BY <1>13, <1>0 DEF Crash
<1>14. CASE UNCHANGED vars
  BY <1>14 DEF vars
<1> QED
  BY <1>1, <1>2, <1>3, <1>6, <1>7, <1>8, <1>9, <1>11, <1>12, <1>13, <1>14 DEF Next, Request

(* Init is well typed.                                                       *)
LEMMA TypeInit == Init => TypeOK
BY DEF Init, TypeOK, Statuses, Steps, AllResults

(* Statuses, places in the code and counters keep their kinds, for any       *)
(* actions and any number of resumes, plans and crashes.                     *)
THEOREM Typing == Spec => []TypeOK
<1>1. TypeOK /\ [Next]_vars => TypeOK'
  BY TypeStep
<1> QED BY TypeInit, <1>1, PTL DEF Spec

-----------------------------------------------------------------------------
(* A plan made once: rows still to be enqueued do not exist; a row that is   *)
(* approved, executed or failed was granted; and what a resume holds is such *)
(* a row, so it can never be rejected.                                       *)
PlannedOnce  == plans = 1 /\ \A a \in toPlan : status[a] = "none"
LateStatuses == {"approved", "executed", "failed"}
LateGranted  == \A a \in Actions : status[a] \in LateStatuses => grants[a] > 0
HandIsHeld   == \A e \in Resumes : /\ inHand[e] \subseteq rows[e]
                                   /\ inHand[e] # {} => pc[e] = "mark"
HeldIsLate   == \A e \in Resumes : \A a \in rows[e] : status[a] \in LateStatuses

GrantInv == TypeOK /\ HandIsHeld /\ PlannedOnce /\ LateGranted /\ HeldIsLate

(* The action a resume has in hand is one of the rows it listed.             *)
LEMMA HandStep ==
  ASSUME TypeOK, HandIsHeld, [Next]_vars
  PROVE  HandIsHeld'
<1> USE DEF HandIsHeld, requestVars
<1>1. CASE \/ \E a \in Actions : EnqueueApproval(a)
           \/ BlockForApproval \/ PlanAgain \/ Operator \/ UNCHANGED vars
  <2>1. UNCHANGED <<pc, rows, inHand>>
    BY <1>1 DEF EnqueueApproval, BlockForApproval, PlanAgain, Operator, DecideApprove, RetryApproval,
                ApprovePending, RetryFailed, Grant, DecideReject, vars
  <2> QED BY <2>1
<1>2. ASSUME NEW e \in Resumes, ListApproved(e) PROVE HandIsHeld'
  BY <1>2 DEF ListApproved, TypeOK
<1>3. ASSUME NEW e \in Resumes, NEW a \in Actions, ExecuteApprovedAction(e, a) PROVE HandIsHeld'
  BY <1>3 DEF ExecuteApprovedAction, TypeOK
<1>4. ASSUME NEW e \in Resumes, NEW a \in Actions, MarkAction(e, a) PROVE HandIsHeld'
  BY <1>4 DEF MarkAction, TypeOK
<1>5. ASSUME NEW e \in Resumes,
             LookPending(e) \/ LookFailed(e) \/ LookExecuted(e) \/ WriteRunStatus(e)
      PROVE HandIsHeld'
  <2>1. /\ pc[e] # "mark" /\ rows' = rows /\ inHand' = inHand
        /\ \A f \in Resumes : f # e => pc'[f] = pc[f]
    BY <1>5 DEF LookPending, LookFailed, LookExecuted, Look, WriteRunStatus, TypeOK
  <2> QED BY <2>1
<1>6. ASSUME NEW e \in Resumes, Crash(e) PROVE HandIsHeld'
  BY <1>6 DEF Crash, TypeOK
<1> QED BY <1>1, <1>2, <1>3, <1>4, <1>5, <1>6 DEF Next, Request

(* Each step keeps GrantInv when the plan is made at most once.              *)
LEMMA GrantStep ==
  ASSUME MaxPlans = 1, GrantInv, [Next]_vars
  PROVE  GrantInv'
<1> USE DEF GrantInv, requestVars
<1>t. TypeOK' /\ HandIsHeld'
  BY TypeStep, HandStep
<1>1. ASSUME NEW a \in Actions, EnqueueApproval(a) PROVE GrantInv'
  <2>1. status[a] = "none" /\ status' = [status EXCEPT ![a] = "pending"]
    BY <1>1 DEF EnqueueApproval, EnqueuedStatus, PlannedOnce
  <2>2. PlannedOnce'
    BY <1>1, <2>1 DEF EnqueueApproval, PlannedOnce, TypeOK
  <2>3. LateGranted'
    BY <1>1, <2>1 DEF EnqueueApproval, LateGranted, LateStatuses, TypeOK
  <2>4. HeldIsLate'
    BY <1>1, <2>1 DEF EnqueueApproval, HeldIsLate, LateStatuses, TypeOK
  <2> QED BY <1>t, <2>2, <2>3, <2>4
<1>2. CASE BlockForApproval
  BY <1>2, <1>t DEF BlockForApproval, PlannedOnce, LateGranted, HeldIsLate
<1>3. CASE PlanAgain
  BY <1>3 DEF PlanAgain, PlannedOnce
<1>4. ASSUME NEW S \in SUBSET Actions, Grant(S), \A a \in S : status[a] \in {"pending", "failed"}
      PROVE  GrantInv'
  <2>1. PlannedOnce'
    BY <1>4 DEF Grant, PlannedOnce, TypeOK
  <2>2. LateGranted'
    BY <1>4 DEF Grant, LateGranted, LateStatuses, TypeOK
  <2>3. HeldIsLate'
    BY <1>4 DEF Grant, HeldIsLate, LateStatuses, TypeOK
  <2> QED BY <1>t, <2>1, <2>2, <2>3
<1>5. ASSUME NEW a \in Actions, DecideReject(a) PROVE GrantInv'
  <2>1. PlannedOnce'
    BY <1>5 DEF DecideReject, PlannedOnce, TypeOK
  <2>2. LateGranted'
    BY <1>5 DEF DecideReject, LateGranted, LateStatuses, TypeOK
  <2>3. HeldIsLate'
    BY <1>5 DEF DecideReject, HeldIsLate, LateStatuses, TypeOK
  <2> QED BY <1>t, <2>1, <2>2, <2>3
<1>6. CASE Operator
  <2>1. ASSUME NEW a \in Actions, DecideApprove(a) \/ RetryApproval(a) PROVE GrantInv'
    <3>1. Grant({a}) /\ {a} \in SUBSET Actions /\ \A b \in {a} : status[b] \in {"pending", "failed"}
      BY <2>1 DEF DecideApprove, RetryApproval
    <3> QED BY <3>1, <1>4
  <2>2. CASE ApprovePending \/ RetryFailed
    <3>1. \A s \in {"pending", "failed"} : /\ WithStatus(s) \in SUBSET Actions
                                           /\ \A b \in WithStatus(s) : status[b] \in {"pending", "failed"}
      BY DEF WithStatus
    <3>2. Grant(WithStatus("pending")) \/ Grant(WithStatus("failed"))
      BY <2>2 DEF ApprovePending, RetryFailed
    <3> QED BY <3>1, <3>2, <1>4
  <2> QED BY <1>5, <1>6, <2>1, <2>2 DEF Operator
<1>7. ASSUME NEW e \in Resumes, ListApproved(e) PROVE GrantInv'
  <2>1. HeldIsLate'
    <3>1. \A a \in Listed : status[a] \in LateStatuses
      BY DEF Listed, WithStatus, LateStatuses
    <3> QED BY <1>7, <3>1 DEF ListApproved, HeldIsLate, TypeOK
  <2> QED BY <1>7, <1>t, <2>1 DEF ListApproved, PlannedOnce, LateGranted
<1>8. ASSUME NEW e \in Resumes, NEW a \in Actions, ExecuteApprovedAction(e, a) PROVE GrantInv'
  BY <1>8, <1>t DEF ExecuteApprovedAction, PlannedOnce, LateGranted, HeldIsLate, TypeOK
<1>9. ASSUME NEW e \in Resumes, NEW a \in Actions, MarkAction(e, a) PROVE GrantInv'
  <2>1. a \in rows[e] /\ status[a] \in LateStatuses
    BY <1>9 DEF MarkAction, HandIsHeld, HeldIsLate
  <2>2. PICK m \in LateStatuses : status' = [status EXCEPT ![a] = m]
    BY <1>9 DEF MarkAction, Marked, LateStatuses
  <2>3. PlannedOnce'
    BY <1>9, <2>1, <2>2 DEF MarkAction, PlannedOnce, LateStatuses, TypeOK
  <2>4. LateGranted'
    BY <1>9, <2>1, <2>2 DEF MarkAction, LateGranted, TypeOK
  <2>5. HeldIsLate'
    BY <1>9, <2>1, <2>2 DEF MarkAction, HeldIsLate, TypeOK
  <2> QED BY <1>t, <2>3, <2>4, <2>5
<1>10. ASSUME NEW e \in Resumes,
              LookPending(e) \/ LookFailed(e) \/ LookExecuted(e) \/ WriteRunStatus(e)
       PROVE GrantInv'
  <2>1. UNCHANGED <<status, toPlan, plans, rows, inHand, grants>>
    BY <1>10 DEF LookPending, LookFailed, LookExecuted, Look, WriteRunStatus
  <2> QED BY <1>t, <2>1 DEF PlannedOnce, LateGranted, HeldIsLate
<1>11. ASSUME NEW e \in Resumes, Crash(e) PROVE GrantInv'
  BY <1>11, <1>t DEF Crash, PlannedOnce, LateGranted, HeldIsLate, TypeOK
<1>12. CASE UNCHANGED vars
  BY <1>12, <1>t DEF vars, PlannedOnce, LateGranted, HeldIsLate
<1> QED
  BY <1>1, <1>2, <1>3, <1>6, <1>7, <1>8, <1>9, <1>10, <1>11, <1>12 DEF Next, Request

(* Only execute_approved_action writes, and only an action its request holds. *)
LEMMA Writer ==
  ASSUME TypeOK, Next, NEW a \in Actions, writes'[a] > writes[a]
  PROVE  \E e \in Resumes : a \in rows[e]
<1>1. writes[a] \in Nat
  BY DEF TypeOK
<1>2. PICK e \in Resumes, b \in Actions : ExecuteApprovedAction(e, b)
  <2>1. writes' # writes
    BY <1>1
  <2> QED BY <2>1 DEF Next, Request, EnqueueApproval, BlockForApproval, PlanAgain, Operator, DecideApprove,
        RetryApproval, ApprovePending, RetryFailed, Grant, DecideReject, ListApproved, MarkAction,
        LookPending, LookFailed, LookExecuted, Look, WriteRunStatus, Crash, requestVars
<1>3. b \in rows[e] /\ \A c \in Actions : c # b => writes'[c] = writes[c]
  BY <1>2 DEF ExecuteApprovedAction, TypeOK
<1>4. a = b
  BY <1>1, <1>3
<1> QED BY <1>3, <1>4

(* When the plan is made once, a write (execute_approved_action) is made     *)
(* only for an action an operator granted and did not reject, whatever the   *)
(* number of concurrent resumes and wherever they die.                       *)
THEOREM WritesAreApproved ==
  ASSUME MaxPlans = 1
  PROVE  Spec => WriteNeedsApproval
<1>1. Init => GrantInv
  BY TypeInit DEF Init, GrantInv, HandIsHeld, PlannedOnce, LateGranted, HeldIsLate, LateStatuses
<1>2. GrantInv /\ [Next]_vars => GrantInv'
  BY GrantStep
<1>3. GrantInv /\ [Next]_vars =>
        [\A a \in Actions : writes'[a] > writes[a] => grants[a] > 0 /\ status[a] # "rejected"]_vars
  <2> SUFFICES ASSUME GrantInv, Next, NEW a \in Actions, writes'[a] > writes[a]
               PROVE  grants[a] > 0 /\ status[a] # "rejected"
    OBVIOUS
  <2>1. PICK e \in Resumes : a \in rows[e]
    BY Writer DEF GrantInv
  <2> QED BY <2>1 DEF GrantInv, HeldIsLate, LateGranted, LateStatuses
<1> QED BY <1>1, <1>2, <1>3, PTL DEF Spec, WriteNeedsApproval

-----------------------------------------------------------------------------
(* One resume at a time: what it holds is still approved, so the mark it     *)
(* sets never falls on a row someone else has moved on.                      *)
HeldIsApproved == \A e \in Resumes : \A a \in rows[e] : status[a] = "approved"
OneInHand      == \A e \in Resumes : \A a, b \in inHand[e] : a = b

SoleInv == TypeOK /\ HandIsHeld /\ OneInHand /\ HeldIsApproved

(* Each step keeps SoleInv when there is one resume at a time.               *)
LEMMA SoleStep ==
  ASSUME \A e, f \in Resumes : e = f, SoleInv, [Next]_vars
  PROVE  SoleInv'
<1> USE DEF SoleInv, requestVars
<1>t. TypeOK' /\ HandIsHeld'
  BY TypeStep, HandStep
<1>1. ASSUME NEW a \in Actions, EnqueueApproval(a) PROVE SoleInv'
  BY <1>1, <1>t DEF EnqueueApproval, EnqueuedStatus, OneInHand, HeldIsApproved, TypeOK
<1>2. CASE BlockForApproval \/ PlanAgain
  BY <1>2, <1>t DEF BlockForApproval, PlanAgain, OneInHand, HeldIsApproved
<1>3. ASSUME NEW S, Grant(S) PROVE SoleInv'
  BY <1>3, <1>t DEF Grant, OneInHand, HeldIsApproved, TypeOK
<1>4. ASSUME NEW a \in Actions, DecideReject(a) PROVE SoleInv'
  BY <1>4, <1>t DEF DecideReject, OneInHand, HeldIsApproved, TypeOK
<1>5. CASE Operator
  BY <1>3, <1>4, <1>5 DEF Operator, DecideApprove, RetryApproval, ApprovePending, RetryFailed
<1>6. ASSUME NEW e \in Resumes, ListApproved(e) PROVE SoleInv'
  BY <1>6, <1>t DEF ListApproved, Listed, WithStatus, OneInHand, HeldIsApproved, TypeOK
<1>7. ASSUME NEW e \in Resumes, NEW a \in Actions, ExecuteApprovedAction(e, a) PROVE SoleInv'
  BY <1>7, <1>t DEF ExecuteApprovedAction, OneInHand, HeldIsApproved, TypeOK
<1>8. ASSUME NEW e \in Resumes, NEW a \in Actions, MarkAction(e, a) PROVE SoleInv'
  BY <1>8, <1>t DEF MarkAction, OneInHand, HeldIsApproved, TypeOK
<1>9. ASSUME NEW e \in Resumes,
             LookPending(e) \/ LookFailed(e) \/ LookExecuted(e) \/ WriteRunStatus(e)
      PROVE SoleInv'
  <2>1. UNCHANGED <<status, rows, inHand>>
    BY <1>9 DEF LookPending, LookFailed, LookExecuted, Look, WriteRunStatus
  <2> QED BY <1>t, <2>1 DEF OneInHand, HeldIsApproved
<1>10. ASSUME NEW e \in Resumes, Crash(e) PROVE SoleInv'
  BY <1>10, <1>t DEF Crash, OneInHand, HeldIsApproved, TypeOK
<1>11. CASE UNCHANGED vars
  BY <1>11, <1>t DEF vars, OneInHand, HeldIsApproved
<1> QED BY <1>1, <1>2, <1>5, <1>6, <1>7, <1>8, <1>9, <1>10, <1>11 DEF Next, Request

(* Init satisfies SoleInv.                                                   *)
LEMMA SoleInit == Init => SoleInv
BY TypeInit DEF Init, SoleInv, HandIsHeld, OneInHand, HeldIsApproved

(* With one resume at a time a row past "pending" was granted, although the  *)
(* plan may be made any number of times.                                     *)
LEMMA LateStep ==
  ASSUME \A e, f \in Resumes : e = f, SoleInv, LateGranted, [Next]_vars
  PROVE  LateGranted'
<1> USE DEF SoleInv, requestVars, LateGranted, LateStatuses
<1>1. ASSUME NEW a \in Actions, EnqueueApproval(a) PROVE LateGranted'
  BY <1>1 DEF EnqueueApproval, EnqueuedStatus, TypeOK
<1>2. ASSUME NEW S, Grant(S) PROVE LateGranted'
  BY <1>2 DEF Grant, TypeOK
<1>3. ASSUME NEW a \in Actions, DecideReject(a) PROVE LateGranted'
  BY <1>3 DEF DecideReject, TypeOK
<1>4. CASE Operator
  BY <1>2, <1>3, <1>4 DEF Operator, DecideApprove, RetryApproval, ApprovePending, RetryFailed
<1>5. ASSUME NEW e \in Resumes, NEW a \in Actions, MarkAction(e, a) PROVE LateGranted'
  <2>1. status[a] = "approved"
    BY <1>5 DEF MarkAction, HandIsHeld, HeldIsApproved
  <2> QED BY <1>5, <2>1 DEF MarkAction, TypeOK
<1>6. ASSUME UNCHANGED <<status, grants>> PROVE LateGranted'
  BY <1>6
<1>7. ASSUME NEW e \in Resumes,
             \/ ListApproved(e) \/ LookPending(e) \/ LookFailed(e) \/ LookExecuted(e)
             \/ WriteRunStatus(e) \/ Crash(e) \/ \E b \in Actions : ExecuteApprovedAction(e, b)
      PROVE UNCHANGED <<status, grants>>
  BY <1>7 DEF ListApproved, LookPending, LookFailed, LookExecuted, Look, WriteRunStatus, Crash,
              ExecuteApprovedAction
<1>8. ASSUME BlockForApproval \/ PlanAgain \/ UNCHANGED vars PROVE UNCHANGED <<status, grants>>
  BY <1>8 DEF BlockForApproval, PlanAgain, vars
<1> QED BY <1>1, <1>4, <1>5, <1>6, <1>7, <1>8 DEF Next, Request

(* With one resume at a time, a write is made only for an action an operator *)
(* granted and did not reject, however often the run is planned again under  *)
(* its id and wherever the resumes die.                                      *)
THEOREM ReplannedWritesAreApproved ==
  ASSUME \A e, f \in Resumes : e = f
  PROVE  Spec => WriteNeedsApproval
<1>1. Init => SoleInv /\ LateGranted
  BY SoleInit DEF Init, LateGranted, LateStatuses
<1>2. SoleInv /\ LateGranted /\ [Next]_vars => (SoleInv /\ LateGranted)'
  BY SoleStep, LateStep
<1>3. SoleInv /\ LateGranted /\ [Next]_vars =>
        [\A a \in Actions : writes'[a] > writes[a] => grants[a] > 0 /\ status[a] # "rejected"]_vars
  <2> SUFFICES ASSUME SoleInv, LateGranted, Next, NEW a \in Actions, writes'[a] > writes[a]
               PROVE  grants[a] > 0 /\ status[a] # "rejected"
    OBVIOUS
  <2>1. PICK e \in Resumes : a \in rows[e]
    BY Writer DEF SoleInv
  <2> QED BY <2>1 DEF SoleInv, HeldIsApproved, LateGranted, LateStatuses
<1> QED BY <1>1, <1>2, <1>3, PTL DEF Spec, WriteNeedsApproval

(* No step of Next takes an executed action back.                            *)
LEMMA ExecutedStep ==
  ASSUME \A e, f \in Resumes : e = f, SoleInv, Next, NEW a \in Actions, status[a] = "executed"
  PROVE  status'[a] = "executed"
<1> USE DEF SoleInv, TypeOK, requestVars
<1>1. ASSUME NEW b \in Actions, EnqueueApproval(b) PROVE status'[a] = "executed"
  BY <1>1 DEF EnqueueApproval, EnqueuedStatus
<1>2. CASE Operator
  BY <1>2 DEF Operator, DecideApprove, DecideReject, RetryApproval, ApprovePending, RetryFailed, Grant, WithStatus
<1>3. ASSUME NEW e \in Resumes, NEW b \in Actions, MarkAction(e, b) PROVE status'[a] = "executed"
  <2>1. status[b] = "approved"
    BY <1>3 DEF MarkAction, HandIsHeld, HeldIsApproved
  <2> QED BY <1>3, <2>1 DEF MarkAction
<1>4. ASSUME NEW e \in Resumes,
             \/ ListApproved(e) \/ LookPending(e) \/ LookFailed(e) \/ LookExecuted(e)
             \/ WriteRunStatus(e) \/ Crash(e) \/ \E b \in Actions : ExecuteApprovedAction(e, b)
      PROVE status'[a] = "executed"
  BY <1>4 DEF ListApproved, LookPending, LookFailed, LookExecuted, Look, WriteRunStatus, Crash,
              ExecuteApprovedAction
<1>5. CASE BlockForApproval \/ PlanAgain
  BY <1>5 DEF BlockForApproval, PlanAgain
<1> QED BY <1>1, <1>2, <1>3, <1>4, <1>5 DEF Next, Request

(* With one resume at a time, an executed action stays executed: across      *)
(* crashes, retries and further plans (enqueue_external_action_approval's    *)
(* conflict branch).                                                         *)
THEOREM ExecutedStays ==
  ASSUME \A e, f \in Resumes : e = f
  PROVE  Spec => ExecutedIsFinal
<1>1. SoleInv /\ [Next]_vars => SoleInv'
  BY SoleStep
<1>2. SoleInv /\ [Next]_vars =>
        [\A a \in Actions : status[a] = "executed" => status'[a] = "executed"]_vars
  BY ExecutedStep
<1> QED BY SoleInit, <1>1, <1>2, PTL DEF Spec, ExecutedIsFinal

-----------------------------------------------------------------------------
(* One resume at a time: what its reads of the failed and of the executed    *)
(* rows found still holds when it writes the run's status, since only it     *)
(* makes a row failed and nobody takes an executed one back.                 *)
NoneFailed   == \A a \in Actions : status[a] # "failed"
SomeExecuted == \E a \in Actions : status[a] = "executed"
LooksHold ==
  \A e \in Resumes :
    /\ pc[e] \in {"executed", "write"} /\ "failed" \notin saw[e] => NoneFailed
    /\ "executed" \in saw[e] => SomeExecuted

LookInv == SoleInv /\ LooksHold

(* Each step keeps LookInv when there is one resume at a time.               *)
LEMMA LookStep ==
  ASSUME \A e, f \in Resumes : e = f, LookInv, [Next]_vars
  PROVE  LookInv'
<1> USE DEF LookInv, requestVars
<1>s. SoleInv'
  BY SoleStep
<1>x. Next => (SomeExecuted => SomeExecuted')
  BY ExecutedStep DEF SomeExecuted
<1>1. ASSUME Next, UNCHANGED <<pc, saw>>, NoneFailed => NoneFailed' PROVE LookInv'
  BY <1>1, <1>s, <1>x DEF LooksHold
<1>2. ASSUME NEW a \in Actions, EnqueueApproval(a), Next PROVE LookInv'
  <2>1. NoneFailed => NoneFailed'
    BY <1>2 DEF EnqueueApproval, EnqueuedStatus, NoneFailed, SoleInv, TypeOK
  <2> QED BY <1>1, <1>2, <2>1 DEF EnqueueApproval
<1>3. CASE (BlockForApproval \/ PlanAgain) /\ Next
  BY <1>1, <1>3 DEF BlockForApproval, PlanAgain, NoneFailed
<1>4. CASE Operator /\ Next
  <2>1. NoneFailed => NoneFailed'
    BY <1>4 DEF Operator, DecideApprove, DecideReject, RetryApproval, ApprovePending, RetryFailed, Grant,
                NoneFailed, SoleInv, TypeOK
  <2>2. UNCHANGED <<pc, saw>>
    BY <1>4 DEF Operator, DecideApprove, DecideReject, RetryApproval, ApprovePending, RetryFailed, Grant
  <2> QED BY <1>1, <1>4, <2>1, <2>2
<1>5. ASSUME NEW e \in Resumes, ListApproved(e) PROVE LookInv'
  <2>1. /\ saw'[e] = {} /\ pc'[e] \notin {"executed", "write"}
        /\ \A f \in Resumes : f = e
    BY <1>5 DEF ListApproved, AfterItem, SoleInv, TypeOK
  <2> QED BY <1>s, <2>1 DEF LooksHold
<1>6. ASSUME NEW e \in Resumes, NEW a \in Actions, ExecuteApprovedAction(e, a) \/ MarkAction(e, a), Next
      PROVE  LookInv'
  <2>1. /\ saw' = saw /\ pc'[e] \notin {"executed", "write"}
        /\ \A f \in Resumes : f = e
    BY <1>6 DEF ExecuteApprovedAction, MarkAction, AfterItem, SoleInv, TypeOK
  <2> QED BY <1>6, <1>s, <1>x, <2>1 DEF LooksHold
<1>7. ASSUME NEW e \in Resumes, NEW s \in {"pending", "failed", "executed"}, NEW n \in Steps,
             Look(e, s, n), n \in {"executed", "write"} => s \in {"failed", "executed"}
      PROVE  LookInv'
  <2>1. \A f \in Resumes : f = e
    OBVIOUS
  <2>2. /\ status' = status /\ pc[e] = s /\ pc'[e] = n
        /\ saw'[e] = IF WithStatus(s) # {} THEN saw[e] \union {s} ELSE saw[e]
    BY <1>7 DEF Look, SoleInv, TypeOK
  <2>3. /\ s = "failed" /\ WithStatus(s) = {} => NoneFailed
        /\ s = "executed" /\ WithStatus(s) # {} => SomeExecuted
    BY DEF WithStatus, NoneFailed, SomeExecuted
  <2>4. "executed" \in saw'[e] => SomeExecuted
    BY <2>2, <2>3 DEF LooksHold
  <2>5. pc'[e] \in {"executed", "write"} /\ "failed" \notin saw'[e] => NoneFailed
    BY <1>7, <2>2, <2>3 DEF LooksHold
  <2>6. NoneFailed' = NoneFailed /\ SomeExecuted' = SomeExecuted
    BY <2>2 DEF NoneFailed, SomeExecuted
  <2> QED BY <1>s, <2>1, <2>4, <2>5, <2>6 DEF LooksHold
<1>8. ASSUME NEW e \in Resumes, LookPending(e) \/ LookFailed(e) \/ LookExecuted(e) PROVE LookInv'
  BY <1>7, <1>8 DEF LookPending, LookFailed, LookExecuted, Steps
<1>9. ASSUME NEW e \in Resumes, WriteRunStatus(e) \/ Crash(e) PROVE LookInv'
  <2>1. /\ status' = status /\ saw' = saw /\ pc'[e] = "idle"
        /\ \A f \in Resumes : f = e
    BY <1>9 DEF WriteRunStatus, Crash, SoleInv, TypeOK
  <2>2. SomeExecuted' = SomeExecuted
    BY <2>1 DEF SomeExecuted
  <2> QED BY <1>s, <2>1, <2>2 DEF LooksHold
<1>10. CASE UNCHANGED vars
  <2>1. NoneFailed' = NoneFailed /\ SomeExecuted' = SomeExecuted
    BY <1>10 DEF vars, NoneFailed, SomeExecuted
  <2> QED BY <1>10, <1>s, <2>1 DEF vars, LooksHold
<1> QED BY <1>2, <1>3, <1>4, <1>5, <1>6, <1>8, <1>9, <1>10 DEF Next, Request

(* With one resume at a time, a run is completed only while an action is     *)
(* executed and none is failed, although the lists it decides by were read   *)
(* earlier and in three transactions (resume_approved_external_actions).     *)
THEOREM CompletionEarned ==
  ASSUME \A e, f \in Resumes : e = f
  PROVE  Spec => CompletionIsEarned
<1>1. Init => LookInv
  BY SoleInit DEF Init, LookInv, LooksHold
<1>2. LookInv /\ [Next]_vars => LookInv'
  BY LookStep
<1>3. LookInv /\ [Next]_vars =>
        [run' = "completed" /\ run # "completed" =>
           /\ \E a \in Actions : status[a] = "executed"
           /\ \A a \in Actions : status[a] # "failed"]_vars
  <2> SUFFICES ASSUME LookInv, Next, run' = "completed", run # "completed"
               PROVE  SomeExecuted /\ NoneFailed
    BY DEF SomeExecuted, NoneFailed
  <2>1. PICK e \in Resumes : WriteRunStatus(e)
    BY DEF Next, Request, EnqueueApproval, BlockForApproval, PlanAgain, Operator, DecideApprove,
           RetryApproval, ApprovePending, RetryFailed, Grant, DecideReject, ListApproved,
           ExecuteApprovedAction, MarkAction, LookPending, LookFailed, LookExecuted, Look, Crash
  <2>2. saw[e] = {"executed"} /\ pc[e] = "write"
    BY <2>1 DEF WriteRunStatus, RunStatusAfter
  <2> QED BY <2>2 DEF LookInv, LooksHold
<1> QED BY <1>1, <1>2, <1>3, PTL DEF Spec, CompletionIsEarned

-----------------------------------------------------------------------------
(* Without crashes, an approved action that is not in a resume's hand has a  *)
(* grant not yet used.                                                       *)
GrantUnused == crashes = 0 =>
                 \A a \in Actions :
                   status[a] = "approved" /\ (\A e \in Resumes : a \notin inHand[e])
                     => writes[a] + 1 <= grants[a]

CountInv == SoleInv /\ GrantUnused /\ OneWritePerGrant

(* Each step keeps the count when there is one resume at a time.             *)
LEMMA CountStep ==
  ASSUME \A e, f \in Resumes : e = f, CountInv, [Next]_vars
  PROVE  CountInv'
<1> USE DEF CountInv, requestVars
<1>s. SoleInv'
  BY SoleStep
<1>n. \A a \in Actions : writes[a] \in Nat /\ grants[a] \in Nat
  BY DEF SoleInv, TypeOK
<1>1. ASSUME NEW a \in Actions, EnqueueApproval(a) PROVE CountInv'
  BY <1>1, <1>s DEF EnqueueApproval, EnqueuedStatus, GrantUnused, OneWritePerGrant, SoleInv, TypeOK
<1>2. CASE BlockForApproval \/ PlanAgain
  BY <1>2, <1>s DEF BlockForApproval, PlanAgain, GrantUnused, OneWritePerGrant
<1>3. ASSUME NEW S, Grant(S) PROVE CountInv'
  BY <1>3, <1>s, <1>n DEF Grant, GrantUnused, OneWritePerGrant, SoleInv, TypeOK
<1>4. ASSUME NEW a \in Actions, DecideReject(a) PROVE CountInv'
  BY <1>4, <1>s DEF DecideReject, GrantUnused, OneWritePerGrant, SoleInv, TypeOK
<1>5. CASE Operator
  BY <1>3, <1>4, <1>5 DEF Operator, DecideApprove, RetryApproval, ApprovePending, RetryFailed
<1>6. ASSUME NEW e \in Resumes, ListApproved(e) PROVE CountInv'
  BY <1>6, <1>s DEF ListApproved, GrantUnused, OneWritePerGrant
<1>7. ASSUME NEW e \in Resumes, NEW a \in Actions, ExecuteApprovedAction(e, a) PROVE CountInv'
  <2>1. /\ inHand[e] = {} /\ status[a] = "approved" /\ status' = status /\ grants' = grants
        /\ crashes' = crashes
        /\ inHand' = [inHand EXCEPT ![e] = {a}]
    BY <1>7 DEF ExecuteApprovedAction, SoleInv, HandIsHeld, HeldIsApproved
  <2>2. crashes = 0 => writes[a] + 1 <= grants[a]
    BY <2>1 DEF GrantUnused
  <2>3. \A b \in Actions : IF b = a THEN writes'[b] <= writes[b] + 1 /\ writes'[b] \in Nat
                                     ELSE writes'[b] = writes[b]
    BY <1>7, <1>n DEF ExecuteApprovedAction, SoleInv, TypeOK
  <2>4. OneWritePerGrant'
    BY <1>n, <2>1, <2>2, <2>3 DEF OneWritePerGrant
  <2>5. a \in inHand'[e] /\ \A b \in Actions, f \in Resumes : b \notin inHand'[f] => b \notin inHand[f]
    BY <2>1 DEF SoleInv, TypeOK
  <2>6. GrantUnused'
    BY <2>1, <2>3, <2>5 DEF GrantUnused
  <2> QED BY <1>s, <2>4, <2>6
<1>8. ASSUME NEW e \in Resumes, NEW a \in Actions, MarkAction(e, a) PROVE CountInv'
  <2>1. /\ writes' = writes /\ grants' = grants /\ crashes' = crashes
        /\ status'[a] # "approved" /\ \A b \in Actions : b # a => status'[b] = status[b]
    BY <1>8 DEF MarkAction, Marked, SoleInv, TypeOK
  <2>2. \A b \in Actions, f \in Resumes : b # a => b \notin inHand[f]
    BY <1>8 DEF MarkAction, SoleInv, OneInHand
  <2> QED BY <1>s, <2>1, <2>2 DEF GrantUnused, OneWritePerGrant
<1>9. ASSUME NEW e \in Resumes,
             LookPending(e) \/ LookFailed(e) \/ LookExecuted(e) \/ WriteRunStatus(e)
      PROVE CountInv'
  <2>1. UNCHANGED <<status, inHand, writes, grants, crashes>>
    BY <1>9 DEF LookPending, LookFailed, LookExecuted, Look, WriteRunStatus
  <2> QED BY <1>s, <2>1 DEF GrantUnused, OneWritePerGrant
<1>10. ASSUME NEW e \in Resumes, Crash(e) PROVE CountInv'
  <2>1. crashes' # 0
    BY <1>10 DEF Crash, SoleInv, TypeOK
  <2> QED BY <1>s, <2>1 DEF GrantUnused, OneWritePerGrant
<1>11. CASE UNCHANGED vars
  BY <1>11, <1>s DEF vars, GrantUnused, OneWritePerGrant
<1> QED BY <1>1, <1>2, <1>5, <1>6, <1>7, <1>8, <1>9, <1>10, <1>11 DEF Next, Request

(* With one resume at a time, and until one dies, each approval or retry     *)
(* allows at most one write, for any number of actions, retries and plans.   *)
THEOREM GrantedOnce ==
  ASSUME \A e, f \in Resumes : e = f
  PROVE  Spec => []OneWritePerGrant
<1>1. Init => CountInv
  BY SoleInit DEF Init, CountInv, GrantUnused, OneWritePerGrant
<1>2. CountInv /\ [Next]_vars => CountInv'
  BY CountStep
<1>3. CountInv => OneWritePerGrant
  BY DEF CountInv
<1> QED BY <1>1, <1>2, <1>3, PTL DEF Spec
=============================================================================
