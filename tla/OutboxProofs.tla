---------------------------- MODULE OutboxProofs ----------------------------
(* Proofs about Outbox, for any number of keys, dispatcher loops and runs:   *)
(* a row recorded as dispatched was accepted by the remote side, on either   *)
(* backend; on SQLite the attempt number tells the holders of a row apart;   *)
(* and as long as nothing crashes, batches are in time and no call raises    *)
(* after it was accepted, no payload is accepted twice.                      *)
EXTENDS Outbox, FiniteSetTheorems, TLAPS

(* The dispatch that returned "ok" and waits to be recorded was accepted.    *)
OkWasAccepted ==
  \A d \in Dispatchers : \A k \in item[d] : result[d] = "ok" => hits[k] > 0

Inv1 == TypeOK /\ OkWasAccepted /\ DispatchedWasAccepted

(* What each statement writes to a row is a row.                             *)
LEMMA RowWrites ==
  ASSUME NEW r \in Row, NEW n \in Nat, NEW p \in Nat, NEW s \in Statuses
  PROVE  /\ [r EXCEPT !.id = n, !.status = "pending", !.due = TRUE, !.payload = p] \in Row
         /\ [r EXCEPT !.status = "pending", !.due = TRUE, !.stale = FALSE] \in Row
         /\ [r EXCEPT !.status = "processing", !.stale = FALSE, !.attempts = n] \in Row
         /\ [r EXCEPT !.status = "pending", !.due = FALSE] \in Row
         /\ [r EXCEPT !.status = s] \in Row
<1>1. [r EXCEPT !.id = n, !.status = "pending", !.due = TRUE, !.payload = p] \in Row
  BY DEF Row, Statuses
<1>2. [r EXCEPT !.status = "pending", !.due = TRUE, !.stale = FALSE] \in Row
  BY DEF Row, Statuses
<1>3. [r EXCEPT !.status = "processing", !.stale = FALSE, !.attempts = n] \in Row
  BY DEF Row, Statuses
<1>4. [r EXCEPT !.status = "pending", !.due = FALSE] \in Row
  BY DEF Row, Statuses
<1>5. [r EXCEPT !.status = s] \in Row
  BY DEF Row
<1> QED BY <1>1, <1>2, <1>3, <1>4, <1>5

(* enqueue_outbox writes a well-formed row.                                  *)
LEMMA EnqueuedType ==
  ASSUME TypeOK, NEW k \in Keys
  PROVE  /\ Enqueued(k) \in [Keys -> Row]
         /\ \A j \in Keys : /\ Enqueued(k)[j].attempts = row[j].attempts
                            /\ Enqueued(k)[j].status = "dispatched" => row[j].status = "dispatched"
<1>1. Cardinality({j \in Keys : row[j].id > 0}) \in Nat
  <2>1. IsFiniteSet({j \in Keys : row[j].id > 0})
    BY OutboxAssumption, FS_Subset
  <2> QED BY <2>1, FS_CardinalityType
<1>2. "pending" \in Statuses
  BY DEF Statuses
<1> DEFINE new == [row[k] EXCEPT !.id = RowId(k), !.status = "pending", !.due = TRUE,
                                 !.payload = row[k].payload + 1]
<1>3. Enqueued(k) = [row EXCEPT ![k] = new]
  BY DEF Enqueued
<1>4. row[k] \in Row /\ row[k].payload + 1 \in Nat
  BY DEF TypeOK, Row
<1>5. RowId(k) \in Nat
  BY <1>1, <1>4 DEF RowId, Row
<1>6. new \in Row
  BY <1>4, <1>5, <1>2, RowWrites
<1>7. new.attempts = row[k].attempts /\ new.status = "pending"
  BY <1>4 DEF Row
<1> QED BY <1>3, <1>6, <1>7 DEF TypeOK

(* The copy claim_pending_outbox returns is well formed.                     *)
LEMMA ReadCopyType ==
  ASSUME TypeOK, NEW d \in Dispatchers
  PROVE  ReadCopy(d) \in [Keys -> Nat]
<1>1. \A k \in Keys : row[k].attempts + 1 \in Nat /\ copy[d][k] \in Nat
  BY DEF TypeOK, Row
<1> QED BY <1>1 DEF ReadCopy

(* A dispatch is recorded as dispatched exactly when it came back "ok".      *)
LEMMA VerdictMeaning ==
  ASSUME NEW d, NEW k, NEW a \in AllResults
  PROVE  /\ Verdict(d, k, a) \in Verdicts \ {"none"}
         /\ Verdict(d, k, a) = "dispatched" => a = "ok"
BY DEF Verdict, Verdicts, AllResults, Accepted, Raised

(* Every step keeps the variables in their ranges.                           *)
LEMMA TypeStep ==
  ASSUME TypeOK, [Next]_vars
  PROVE  TypeOK'
<1>0. {"start", "reap", "reset", "claim", "update", "connect", "items", "settle",
       "done", "down"} = Steps /\ {"pending", "processing", "dispatched", "failed"} \subseteq Statuses
  BY DEF Steps, Statuses
<1>a. \A d \in Dispatchers, S \in SUBSET Keys : AfterTick(d) \in Steps /\ AfterClaim(d, S) \in Steps
  BY <1>0 DEF AfterTick, AfterClaim
<1>b. Runs \subseteq Dispatchers /\ Loops \subseteq Dispatchers
  BY DEF Dispatchers
<1>1. ASSUME NEW k \in Keys, EnqueueOnly(k) PROVE TypeOK'
  BY <1>1, EnqueuedType DEF TypeOK, EnqueueOnly
<1>2. ASSUME NEW r \in Runs, RunEnqueues(r) PROVE TypeOK'
  <2>1. KeyOf[r] \in Keys
    BY OutboxAssumption
  <2>2. row' \in [Keys -> Row]
    BY <1>2, <2>1, EnqueuedType DEF RunEnqueues
  <2>3. pc' \in [Dispatchers -> Steps]
    BY <1>0, <1>2 DEF RunEnqueues, TypeOK
  <2> QED BY <1>2, <2>2, <2>3 DEF TypeOK, RunEnqueues
<1>3. ASSUME NEW d \in Dispatchers, NEW S \in SUBSET Keys, Reset(S)
      PROVE row' \in [Keys -> Row]
  <2>1. \A k \in Keys : [row[k] EXCEPT !.status = "pending", !.due = TRUE, !.stale = FALSE] \in Row
    BY <1>0, RowWrites DEF TypeOK
  <2> QED BY <1>3, <2>1 DEF TypeOK, Reset
<1>4. ASSUME NEW d \in Dispatchers,
             ReapStaleOutboxClaims(d) \/ SelectStale(d) \/ ResetStale(d)
      PROVE TypeOK'
  <2>1. StaleClaims \in SUBSET Keys
    BY DEF StaleClaims
  <2>2. held[d] \in SUBSET Keys
    BY DEF TypeOK
  <2>3. CASE ReapStaleOutboxClaims(d)
    BY <2>1, <2>3, <1>3, <1>0 DEF TypeOK, ReapStaleOutboxClaims
  <2>4. CASE SelectStale(d)
    BY <2>1, <2>4, <1>0 DEF TypeOK, SelectStale
  <2>5. CASE ResetStale(d)
    BY <2>2, <2>5, <1>3, <1>0 DEF TypeOK, ResetStale
  <2> QED BY <1>4, <2>3, <2>4, <2>5
<1>5. ASSUME NEW S \in SUBSET Keys, NEW c \in [Keys -> Nat], ClaimRows(S, c)
      PROVE row' \in [Keys -> Row]
  <2>1. \A k \in Keys : [row[k] EXCEPT !.status = "processing", !.stale = FALSE,
                                        !.attempts = c[k]] \in Row
    BY <1>0, RowWrites DEF TypeOK
  <2> QED BY <1>5, <2>1 DEF TypeOK, ClaimRows
<1>6. ASSUME NEW d \in Dispatchers,
             ClaimPendingOutbox(d) \/ SelectPending(d) \/ UpdateClaimed(d)
      PROVE TypeOK'
  <2>1. Batch \in SUBSET Keys
    BY DEF Batch, Claimable
  <2>2. held[d] \in SUBSET Keys /\ copy[d] \in [Keys -> Nat]
    BY DEF TypeOK
  <2>3. CASE ClaimPendingOutbox(d)
    BY <2>1, <2>3, <1>5, <1>a, ReadCopyType DEF TypeOK, ClaimPendingOutbox
  <2>4. CASE SelectPending(d)
    BY <2>1, <2>4, <1>0, ReadCopyType DEF TypeOK, SelectPending
  <2>5. CASE UpdateClaimed(d)
    BY <2>2, <2>5, <1>5, <1>a DEF TypeOK, UpdateClaimed
  <2> QED BY <1>6, <2>3, <2>4, <2>5
<1>7. ASSUME NEW d \in Dispatchers, Connect(d) PROVE TypeOK'
  BY <1>7, <1>0 DEF TypeOK, Connect
<1>8. ASSUME NEW d \in Dispatchers, NEW k \in Keys, DispatchOutboxItem(d, k) PROVE TypeOK'
  <2>1. PICK a \in AllResults :
          /\ result' = [result EXCEPT ![d] = a]
          /\ hits' = [hits EXCEPT ![k] = IF a \in Accepted THEN @ + 1 ELSE @]
    BY <1>8, OutboxAssumption DEF DispatchOutboxItem
  <2>3. /\ result' \in [Dispatchers -> AllResults]
        /\ hits' \in [Keys -> Nat]
    BY <2>1 DEF TypeOK
  <2>4. pc' \in [Dispatchers -> Steps] /\ item' \in [Dispatchers -> SUBSET Keys]
    BY <1>8, <1>0 DEF TypeOK, DispatchOutboxItem
  <2> QED BY <1>8, <2>3, <2>4 DEF TypeOK, DispatchOutboxItem
<1>9. ASSUME NEW d \in Dispatchers, NEW k \in Keys, NEW v \in Verdicts \ {"none"}, SettleAs(d, k, v)
      PROVE /\ row' \in [Keys -> Row]
            /\ held' \in [Dispatchers -> SUBSET Keys]
            /\ pc' \in [Dispatchers -> Steps]
            /\ mine' \in [Runs -> Verdicts]
  <2>1. SettledRow(k, v) \in Row
    <3>1. row[k] \in Row /\ (v # "retry" => v \in Statuses)
      BY <1>0 DEF TypeOK, Verdicts
    <3> QED BY <1>0, <3>1, RowWrites DEF SettledRow
  <2>2. row' \in [Keys -> Row]
    BY <1>9, <2>1 DEF TypeOK, SettleAs
  <2>3. pc' \in [Dispatchers -> Steps]
    BY <1>9, <1>0, <1>a DEF TypeOK, SettleAs
  <2>4. held' \in [Dispatchers -> SUBSET Keys]
    BY <1>9 DEF TypeOK, SettleAs
  <2>5. mine' \in [Runs -> Verdicts]
    BY <1>9 DEF TypeOK, SettleAs
  <2> QED BY <2>2, <2>3, <2>4, <2>5
<1>10. ASSUME NEW d \in Dispatchers, NEW k \in Keys, SettleItem(d, k) \/ RetryUnconnected(d, k)
       PROVE TypeOK'
  <2>1. result[d] \in AllResults /\ "raised" \in AllResults
    BY DEF TypeOK, AllResults, Raised
  <2>2. /\ Verdict(d, k, result[d]) \in Verdicts \ {"none"}
        /\ Verdict(d, k, "raised") \in Verdicts \ {"none"}
    BY <2>1, VerdictMeaning
  <2>3. CASE SettleItem(d, k)
    <3>1. SettleAs(d, k, Verdict(d, k, result[d]))
      BY <2>3 DEF SettleItem
    <3> QED BY <2>2, <2>3, <3>1, <1>9 DEF TypeOK, SettleItem
  <2>4. CASE RetryUnconnected(d, k)
    <3>1. SettleAs(d, k, Verdict(d, k, "raised"))
      BY <2>4 DEF RetryUnconnected
    <3> QED BY <2>2, <2>4, <3>1, <1>9 DEF TypeOK, RetryUnconnected
  <2> QED BY <1>10, <2>3, <2>4
<1>11. ASSUME NEW d \in Dispatchers, Crash(d) \/ RestartLoop(d) PROVE TypeOK'
  <2>1. CASE Crash(d)
    BY <2>1, <1>0 DEF TypeOK, Crash
  <2>2. CASE RestartLoop(d)
    BY <2>2, <1>0 DEF TypeOK, RestartLoop
  <2> QED BY <1>11, <2>1, <2>2
<1>12. ASSUME NEW k \in Keys, RetryComesDue(k) \/ ClaimGoesStale(k) PROVE TypeOK'
  <2>1. [row[k] EXCEPT !.due = TRUE] \in Row /\ [row[k] EXCEPT !.stale = TRUE] \in Row
    BY DEF TypeOK, Row
  <2>2. \/ row' = [row EXCEPT ![k] = [row[k] EXCEPT !.due = TRUE]]
        \/ row' = [row EXCEPT ![k] = [row[k] EXCEPT !.stale = TRUE]]
    BY <1>12 DEF TypeOK, RetryComesDue, ClaimGoesStale
  <2>3. row' \in [Keys -> Row]
    BY <2>1, <2>2 DEF TypeOK
  <2> QED BY <1>12, <2>3 DEF TypeOK, RetryComesDue, ClaimGoesStale
<1>13. CASE UNCHANGED vars
  BY <1>13 DEF TypeOK, vars
<1> QED
  BY <1>1, <1>2, <1>4, <1>6, <1>7, <1>8, <1>10, <1>11, <1>12, <1>13 DEF Next, Tick

(* Init satisfies the typing and both halves of the acceptance argument.     *)
LEMMA Initially == Init => Inv1
<1> SUFFICES ASSUME Init PROVE Inv1
  OBVIOUS
<1>1. TypeOK
  BY DEF Init, TypeOK, Row, Steps, Statuses, Verdicts, AllResults, Dispatchers
<1> QED BY <1>1 DEF Init, Inv1, OkWasAccepted, DispatchedWasAccepted

(* Acceptance is never undone, and a row becomes dispatched only by a        *)
(* dispatch that returned "ok".                                              *)
LEMMA AcceptedStep ==
  ASSUME Inv1, [Next]_vars
  PROVE  (OkWasAccepted /\ DispatchedWasAccepted)'
<1> USE DEF Inv1
<1>1. ASSUME NEW k \in Keys, EnqueueOnly(k) PROVE (OkWasAccepted /\ DispatchedWasAccepted)'
  BY <1>1, EnqueuedType DEF EnqueueOnly, OkWasAccepted, DispatchedWasAccepted
<1>2. ASSUME NEW r \in Runs, RunEnqueues(r) PROVE (OkWasAccepted /\ DispatchedWasAccepted)'
  <2>1. KeyOf[r] \in Keys
    BY OutboxAssumption
  <2> QED BY <1>2, <2>1, EnqueuedType DEF RunEnqueues, OkWasAccepted, DispatchedWasAccepted
<1>3. ASSUME NEW d \in Dispatchers,
             \/ ReapStaleOutboxClaims(d) \/ SelectStale(d) \/ ResetStale(d)
             \/ ClaimPendingOutbox(d) \/ SelectPending(d) \/ UpdateClaimed(d)
             \/ Connect(d) \/ RestartLoop(d)
      PROVE (OkWasAccepted /\ DispatchedWasAccepted)'
  <2>1. item' = item /\ result' = result /\ hits' = hits
    BY <1>3 DEF ReapStaleOutboxClaims, SelectStale, ResetStale, ClaimPendingOutbox,
                SelectPending, UpdateClaimed, Connect, RestartLoop
  <2>2. \A k \in Keys : row'[k].status = "dispatched" => row[k].status = "dispatched"
    <3>1. ASSUME NEW S, Reset(S), NEW k \in Keys, row'[k].status = "dispatched"
          PROVE  row[k].status = "dispatched"
      BY <3>1 DEF Reset, TypeOK, Row
    <3>2. ASSUME NEW S, NEW c, ClaimRows(S, c), NEW k \in Keys, row'[k].status = "dispatched"
          PROVE  row[k].status = "dispatched"
      BY <3>2 DEF ClaimRows, TypeOK, Row
    <3>3. \/ row' = row
          \/ \E S : Reset(S)
          \/ \E S, c : ClaimRows(S, c)
      BY <1>3, Zenon DEF ReapStaleOutboxClaims, SelectStale, ResetStale, ClaimPendingOutbox,
                  SelectPending, UpdateClaimed, Connect, RestartLoop
    <3> QED BY <3>1, <3>2, <3>3
  <2> QED BY <2>1, <2>2 DEF OkWasAccepted, DispatchedWasAccepted
<1>4. ASSUME NEW d \in Dispatchers, NEW k \in Keys, DispatchOutboxItem(d, k)
      PROVE (OkWasAccepted /\ DispatchedWasAccepted)'
  <2>1. PICK a \in Results : /\ result' = [result EXCEPT ![d] = a]
                             /\ hits' = [hits EXCEPT ![k] = IF a \in Accepted THEN @ + 1 ELSE @]
    BY <1>4 DEF DispatchOutboxItem
  <2>2. \A j \in Keys : hits[j] > 0 => hits'[j] > 0
    BY <2>1 DEF TypeOK
  <2>3. a = "ok" => hits'[k] > 0
    BY <2>1 DEF TypeOK, Accepted
  <2>4. item' = [item EXCEPT ![d] = {k}] /\ row' = row
    BY <1>4 DEF DispatchOutboxItem
  <2>5. DispatchedWasAccepted'
    BY <2>2, <2>4 DEF DispatchedWasAccepted
  <2>6. ASSUME NEW e \in Dispatchers, NEW j \in item'[e], result'[e] = "ok" PROVE hits'[j] > 0
    <3>1. CASE e = d
      BY <3>1, <2>6, <2>1, <2>3, <2>4 DEF TypeOK
    <3>2. CASE e # d
      <4>1. j \in item[e] /\ result[e] = "ok" /\ j \in Keys
        BY <3>2, <2>6, <2>1, <2>4 DEF TypeOK
      <4> QED BY <4>1, <2>2 DEF OkWasAccepted
    <3> QED BY <3>1, <3>2
  <2> QED BY <2>5, <2>6 DEF OkWasAccepted
<1>5. ASSUME NEW d \in Dispatchers, NEW k \in Keys, SettleItem(d, k) \/ RetryUnconnected(d, k)
      PROVE (OkWasAccepted /\ DispatchedWasAccepted)'
  <2>1. /\ hits' = hits /\ result' = result
        /\ \A e \in Dispatchers : item'[e] \subseteq item[e]
    BY <1>5 DEF SettleItem, RetryUnconnected, TypeOK
  <2>2. PICK a \in AllResults : SettleAs(d, k, Verdict(d, k, a)) /\ (a = "ok" => hits[k] > 0)
    BY <1>5 DEF SettleItem, RetryUnconnected, TypeOK, OkWasAccepted, AllResults, Raised
  <2>3. row' = [row EXCEPT ![k] = SettledRow(k, Verdict(d, k, a))]
    BY <2>2 DEF SettleAs
  <2>4. row'[k].status = "dispatched" => hits[k] > 0
    BY <2>2, <2>3, VerdictMeaning DEF SettledRow, TypeOK, Row
  <2>5. DispatchedWasAccepted'
    BY <2>1, <2>3, <2>4 DEF DispatchedWasAccepted, TypeOK
  <2> QED BY <2>1, <2>5 DEF OkWasAccepted
<1>6. ASSUME NEW d \in Dispatchers, Crash(d) PROVE (OkWasAccepted /\ DispatchedWasAccepted)'
  BY <1>6 DEF Crash, OkWasAccepted, DispatchedWasAccepted, TypeOK
<1>7. ASSUME NEW k \in Keys, RetryComesDue(k) \/ ClaimGoesStale(k)
      PROVE (OkWasAccepted /\ DispatchedWasAccepted)'
  BY <1>7 DEF RetryComesDue, ClaimGoesStale, OkWasAccepted, DispatchedWasAccepted, TypeOK, Row
<1>8. CASE UNCHANGED vars
  BY <1>8 DEF OkWasAccepted, DispatchedWasAccepted, vars
<1> QED
  BY <1>1, <1>2, <1>3, <1>4, <1>5, <1>6, <1>7, <1>8 DEF Next, Tick

(* The rows of the outbox and what a dispatcher holds of them keep their     *)
(* kinds, on either backend.                                                 *)
THEOREM Typing == Spec => []TypeOK
<1>1. Init => TypeOK
  BY Initially DEF Inv1
<1>2. TypeOK /\ [Next]_vars => TypeOK'
  BY TypeStep
<1> QED BY <1>1, <1>2, PTL DEF Spec

(* An event recorded as dispatched (complete_outbox) was accepted by the     *)
(* remote side, on either backend, whatever is reaped, re-enqueued, retried  *)
(* or crashes meanwhile.                                                     *)
THEOREM Acceptance == Spec => []DispatchedWasAccepted
<1>1. Inv1 /\ [Next]_vars => Inv1'
  BY TypeStep, AcceptedStep DEF Inv1
<1>2. Inv1 => DispatchedWasAccepted
  BY DEF Inv1
<1> QED BY Initially, <1>1, <1>2, PTL DEF Spec
-----------------------------------------------------------------------------
(* On SQLite no dispatcher is ever between the SELECT and the UPDATE of a    *)
(* transaction; every copy in hand carries an attempt number the row has     *)
(* reached, and no two carry the same.                                       *)
NoOpenTransaction == \A d \in Dispatchers : pc[d] \notin {"reset", "update"}
CopiesReached     == \A d \in Dispatchers : \A k \in held[d] : copy[d][k] <= row[k].attempts
CopiesDiffer      == \A d, e \in Dispatchers : \A k \in held[d] \intersect held[e] :
                       d # e => copy[d][k] # copy[e][k]

Inv2 == TypeOK /\ NoOpenTransaction /\ CopiesReached /\ CopiesDiffer

(* A step that takes no new batch and lowers no attempt count keeps the      *)
(* copies apart.                                                             *)
LEMMA CopiesKept ==
  ASSUME Inv2, TypeOK',
         copy' = copy,
         \A d \in Dispatchers : held'[d] \subseteq held[d],
         \A k \in Keys : row[k].attempts <= row'[k].attempts
  PROVE  CopiesReached' /\ CopiesDiffer'
<1>1. CopiesDiffer'
  BY DEF Inv2, CopiesDiffer
<1>2. ASSUME NEW d \in Dispatchers, NEW k \in held'[d]
      PROVE  copy'[d][k] <= row'[k].attempts
  <2>1. k \in held[d] /\ k \in Keys
    BY <1>2 DEF Inv2, TypeOK
  <2>2. /\ copy[d][k] \in Nat /\ row[k].attempts \in Nat /\ row'[k].attempts \in Nat
        /\ copy[d][k] <= row[k].attempts /\ row[k].attempts <= row'[k].attempts
    BY <2>1 DEF Inv2, TypeOK, CopiesReached, Row
  <2> QED BY <2>2
<1> QED BY <1>1, <1>2 DEF CopiesReached

(* claim_pending_outbox counts one attempt more than any copy in hand.       *)
LEMMA ClaimKeepsCopies ==
  ASSUME Inv2, TypeOK', NEW d \in Dispatchers, ClaimPendingOutbox(d)
  PROVE  CopiesReached' /\ CopiesDiffer'
<1>1. /\ ClaimRows(Batch, ReadCopy(d))
      /\ held' = [held EXCEPT ![d] = Batch]
      /\ copy' = [copy EXCEPT ![d] = ReadCopy(d)]
  BY DEF ClaimPendingOutbox
<1>2. Batch \subseteq Keys
  BY DEF Batch, Claimable
<1>3. \A k \in Batch : ReadCopy(d)[k] = row[k].attempts + 1
  BY <1>2 DEF ReadCopy
<1>4. \A k \in Keys : row'[k].attempts = IF k \in Batch THEN row[k].attempts + 1 ELSE row[k].attempts
  <2>1. ASSUME NEW r \in Row, NEW n \in Nat
        PROVE  [r EXCEPT !.status = "processing", !.stale = FALSE, !.attempts = n].attempts = n
    BY DEF Row
  <2>2. \A k \in Keys : row[k] \in Row /\ row[k].attempts + 1 \in Nat
    BY DEF Inv2, TypeOK, Row
  <2>3. \A k \in Keys : row'[k] = IF k \in Batch
                                  THEN [row[k] EXCEPT !.status = "processing", !.stale = FALSE,
                                                      !.attempts = ReadCopy(d)[k]]
                                  ELSE row[k]
    BY <1>1, Zenon DEF ClaimRows
  <2>4. ASSUME NEW k \in Batch PROVE row'[k].attempts = row[k].attempts + 1
    <3>1. row'[k] = [row[k] EXCEPT !.status = "processing", !.stale = FALSE,
                                   !.attempts = row[k].attempts + 1]
      BY <1>2, <1>3, <2>3
    <3>2. row[k] \in Row /\ row[k].attempts + 1 \in Nat
      BY <1>2, <2>2
    <3> QED BY <3>1, <3>2, <2>1
  <2> QED BY <2>3, <2>4
<1>5. \A k \in Keys : row[k].attempts \in Nat /\ \A e \in Dispatchers : copy[e][k] \in Nat
  BY DEF Inv2, TypeOK, Row
<1>6. ASSUME NEW e \in Dispatchers, NEW k \in held'[e], e # d
      PROVE  k \in held[e] /\ k \in Keys /\ copy'[e] = copy[e] /\ copy[e][k] <= row[k].attempts
  BY <1>1, <1>6 DEF Inv2, TypeOK, CopiesReached
<1>7. ASSUME NEW k \in held'[d]
      PROVE  k \in Batch /\ k \in Keys /\ copy'[d][k] = row[k].attempts + 1
  BY <1>1, <1>2, <1>3, <1>7 DEF Inv2, TypeOK
<1>8. CopiesReached'
  <2> SUFFICES ASSUME NEW e \in Dispatchers, NEW k \in held'[e]
               PROVE  copy'[e][k] <= row'[k].attempts
    BY DEF CopiesReached
  <2>1. CASE e = d
    BY <2>1, <1>4, <1>5, <1>7
  <2>2. CASE e # d
    BY <2>2, <1>4, <1>5, <1>6
  <2> QED BY <2>1, <2>2
<1>9. CopiesDiffer'
  <2> SUFFICES ASSUME NEW e \in Dispatchers, NEW f \in Dispatchers,
                      NEW k \in held'[e] \intersect held'[f], e # f
               PROVE  copy'[e][k] # copy'[f][k]
    BY DEF CopiesDiffer
  <2>1. CASE e = d
    BY <2>1, <1>5, <1>6, <1>7
  <2>2. CASE f = d
    BY <2>2, <1>5, <1>6, <1>7
  <2>3. CASE e # d /\ f # d
    BY <2>3, <1>6 DEF Inv2, CopiesDiffer
  <2> QED BY <2>1, <2>2, <2>3
<1> QED BY <1>8, <1>9

(* No other statement lowers an attempt count or hands out a copy.           *)
LEMMA CopiesStep ==
  ASSUME Serialized, Inv2, [Next]_vars
  PROVE  Inv2'
<1> DEFINE Kept == /\ copy' = copy
                   /\ \A d \in Dispatchers : held'[d] \subseteq held[d]
                   /\ \A k \in Keys : row[k].attempts <= row'[k].attempts
<1>t. TypeOK'
  BY TypeStep DEF Inv2
<1>n. \A k \in Keys : row[k] \in Row /\ row[k].attempts \in Nat
  BY DEF Inv2, TypeOK, Row
<1>a. \A d \in Dispatchers : AfterTick(d) \notin {"reset", "update"}
  BY DEF AfterTick
<1>p. NoOpenTransaction'
  <2>1. \A d \in Dispatchers : ~SelectStale(d) /\ ~SelectPending(d)
    BY DEF SelectStale, SelectPending
  <2>2. \A d \in Dispatchers : ~ResetStale(d) /\ ~UpdateClaimed(d)
    BY DEF ResetStale, UpdateClaimed, Inv2, NoOpenTransaction
  <2>3. \/ pc' = pc
        \/ \E d \in Dispatchers : \E q \in Steps \ {"reset", "update"} : pc' = [pc EXCEPT ![d] = q]
    <3>1. ASSUME NEW d \in Dispatchers, Tick(d)
          PROVE  \E q \in Steps \ {"reset", "update"} : pc' = [pc EXCEPT ![d] = q]
      BY <3>1, <2>1, <2>2 DEF Tick, ReapStaleOutboxClaims, ClaimPendingOutbox, AfterClaim, AfterTick,
           Connect, DispatchOutboxItem, SettleItem, RetryUnconnected, SettleAs, Steps
    <3>2. ASSUME NEW d \in Dispatchers, Crash(d) \/ RestartLoop(d)
          PROVE  \E q \in Steps \ {"reset", "update"} : pc' = [pc EXCEPT ![d] = q]
      BY <3>2 DEF Crash, RestartLoop, Steps
    <3>3. ASSUME NEW r \in Runs, RunEnqueues(r)
          PROVE  \E d \in Dispatchers : \E q \in Steps \ {"reset", "update"} : pc' = [pc EXCEPT ![d] = q]
      BY <3>3 DEF RunEnqueues, Steps, Dispatchers
    <3> QED BY <3>1, <3>2, <3>3 DEF Next, EnqueueOnly, RetryComesDue, ClaimGoesStale, vars
  <2> QED BY <2>3 DEF Inv2, NoOpenTransaction, TypeOK
<1>k. Kept => Inv2'
  BY <1>t, <1>p, CopiesKept DEF Inv2
<1>1. ASSUME NEW k \in Keys, EnqueueOnly(k) PROVE Inv2'
  BY <1>1, <1>k, <1>n, EnqueuedType DEF EnqueueOnly, Inv2
<1>2. ASSUME NEW r \in Runs, RunEnqueues(r) PROVE Inv2'
  <2>1. KeyOf[r] \in Keys
    BY OutboxAssumption
  <2> QED BY <1>2, <1>k, <1>n, <2>1, EnqueuedType DEF RunEnqueues, Inv2
<1>3. ASSUME NEW d \in Dispatchers, ReapStaleOutboxClaims(d) PROVE Inv2'
  <2>1. \A k \in Keys : row'[k].attempts = row[k].attempts
    BY <1>3, <1>n DEF ReapStaleOutboxClaims, Reset, Row
  <2> QED BY <1>3, <1>k, <1>n, <2>1 DEF ReapStaleOutboxClaims
<1>4. ASSUME NEW d \in Dispatchers, ClaimPendingOutbox(d) PROVE Inv2'
  BY <1>4, <1>t, <1>p, ClaimKeepsCopies DEF Inv2
<1>5. ASSUME NEW d \in Dispatchers, NEW k \in Keys, NEW v, SettleAs(d, k, v), copy' = copy PROVE Inv2'
  <2>1. \A j \in Keys : row'[j].attempts = row[j].attempts
    BY <1>5, <1>n DEF SettleAs, SettledRow, Inv2, TypeOK, Row
  <2>2. \A e \in Dispatchers : held'[e] \subseteq held[e]
    BY <1>5 DEF SettleAs, Inv2, TypeOK
  <2> QED BY <1>5, <1>k, <1>n, <2>1, <2>2
<1>6. ASSUME NEW d \in Dispatchers, Connect(d) \/ RestartLoop(d) \/ Crash(d) PROVE Inv2'
  <2>1. \A e \in Dispatchers : held'[e] \subseteq held[e]
    BY <1>6 DEF Connect, RestartLoop, Crash, Inv2, TypeOK
  <2> QED BY <1>6, <1>k, <1>n, <2>1 DEF Connect, RestartLoop, Crash
<1>7. ASSUME NEW d \in Dispatchers, NEW k \in Keys, DispatchOutboxItem(d, k) PROVE Inv2'
  <2>1. copy' = copy /\ held' = held /\ row' = row
    BY <1>7 DEF DispatchOutboxItem
  <2> QED BY <1>k, <1>n, <2>1
<1>8. ASSUME NEW k \in Keys, RetryComesDue(k) \/ ClaimGoesStale(k) PROVE Inv2'
  <2>1. \A j \in Keys : row'[j].attempts = row[j].attempts
    <3>1. \/ row' = [row EXCEPT ![k] = [row[k] EXCEPT !.due = TRUE]]
          \/ row' = [row EXCEPT ![k] = [row[k] EXCEPT !.stale = TRUE]]
      BY <1>8 DEF Inv2, TypeOK, RetryComesDue, ClaimGoesStale
    <3>2. /\ [row[k] EXCEPT !.due = TRUE].attempts = row[k].attempts
          /\ [row[k] EXCEPT !.stale = TRUE].attempts = row[k].attempts
      BY <1>n DEF Row
    <3> QED BY <3>1, <3>2 DEF Inv2, TypeOK
  <2> QED BY <1>8, <1>k, <1>n, <2>1 DEF RetryComesDue, ClaimGoesStale
<1>9. CASE UNCHANGED vars
  BY <1>9, <1>k, <1>n DEF vars
<1>10. \A d \in Dispatchers : /\ ~SelectStale(d) /\ ~SelectPending(d)
                             /\ ~ResetStale(d) /\ ~UpdateClaimed(d)
  BY DEF SelectStale, SelectPending, ResetStale, UpdateClaimed, Inv2, NoOpenTransaction
<1>11. ASSUME NEW d \in Dispatchers, NEW k \in Keys, SettleItem(d, k) \/ RetryUnconnected(d, k) PROVE Inv2'
  BY <1>11, <1>5 DEF SettleItem, RetryUnconnected
<1> QED
  BY <1>1, <1>2, <1>3, <1>4, <1>6, <1>7, <1>8, <1>9, <1>10, <1>11 DEF Next, Tick

(* On SQLite, where the claim is one serialised transaction, the attempt     *)
(* numbers of the copies in hand differ, so a late dispatcher can be told    *)
(* from the current one.                                                     *)
THEOREM ClaimFence ==
  ASSUME Serialized
  PROVE  Spec => []ClaimNumbersDiffer
<1>1. Init => Inv2
  BY Initially DEF Init, Inv1, Inv2, NoOpenTransaction, CopiesReached, CopiesDiffer
<1>2. Inv2 /\ [Next]_vars => Inv2'
  BY CopiesStep
<1>3. Inv2 => ClaimNumbersDiffer
  BY DEF Inv2, CopiesDiffer, ClaimNumbersDiffer, Holding
<1> QED BY <1>1, <1>2, <1>3, PTL DEF Spec

-----------------------------------------------------------------------------
(* Who still owes a call for key k: the dispatchers that hold it and have no *)
(* accepted answer in hand.                                                  *)
Owing(k) == {d \in Dispatchers : k \in held[d] /\ ~(k \in item[d] /\ result[d] \in Accepted)}
(* A pending row is a call that somebody may still make.                     *)
Waiting(k) == IF row[k].status = "pending" THEN 1 ELSE 0

(* A dispatcher holds rows only from its claim to its last item, and has one *)
(* answer in hand, if any.                                                   *)
InHand ==
  \A d \in Dispatchers :
    /\ pc[d] \notin {"connect", "items", "settle"} => held[d] = {}
    /\ pc[d] # "settle" => item[d] = {}
    /\ item[d] \subseteq held[d]
    /\ \A j, k \in item[d] : j = k
    /\ result[d] # "raised_late"
(* A claim is not stale, and somebody has it.                                *)
ClaimsHeld ==
  \A k \in Keys :
    /\ ~row[k].stale
    /\ row[k].status = "processing" =>
         \E d \in Dispatchers : k \in held[d] /\ copy[d][k] = row[k].attempts
(* Every call that was accepted, and every call that may still be made, has  *)
(* a payload of its own.                                                     *)
Paid(k) ==
  IsFiniteSet(Owing(k)) /\ hits[k] + Cardinality(Owing(k)) + Waiting(k) <= row[k].payload

Calm == InHand /\ ClaimsHeld /\ \A k \in Keys : Paid(k)

LEMMA PaidTypes ==
  ASSUME TypeOK, NEW k \in Keys
  PROVE  hits[k] \in Nat /\ row[k].payload \in Nat /\ Waiting(k) \in {0, 1}
  BY DEF TypeOK, Row, Waiting

(* The debts of a key that is left alone, or gets another payload.           *)
LEMMA PaidKept ==
  ASSUME TypeOK, NEW k \in Keys, Paid(k), Owing(k)' = Owing(k), hits'[k] = hits[k],
         \/ row'[k].payload = row[k].payload /\ (row'[k].status = "pending" => row[k].status = "pending")
         \/ row'[k].payload = row[k].payload + 1
  PROVE  Paid(k)'
<1> DEFINE n == Cardinality(Owing(k))
<1>1. IsFiniteSet(Owing(k)') /\ Cardinality(Owing(k)') = n
  BY DEF Paid
<1>2. n \in Nat
  BY FS_CardinalityType DEF Paid
<1>3. hits[k] \in Nat /\ row[k].payload \in Nat /\ Waiting(k) \in {0, 1}
  BY PaidTypes
<1>4. hits[k] + n + Waiting(k) <= row[k].payload
  BY DEF Paid
<1>5. /\ Waiting(k)' \in {0, 1}
      /\ \/ row'[k].payload = row[k].payload /\ Waiting(k)' <= Waiting(k)
         \/ row'[k].payload = row[k].payload + 1
  BY DEF Waiting
<1> HIDE DEF n
<1>6. hits[k] + n + Waiting(k)' <= row'[k].payload
  BY ONLY <1>2, <1>3, <1>4, <1>5
<1> QED BY <1>1, <1>6 DEF Paid

LEMMA PaidAll ==
  ASSUME TypeOK, Calm, UNCHANGED <<held, item, result, hits>>,
         \A k \in Keys :
           \/ row'[k].payload = row[k].payload /\ (row'[k].status = "pending" => row[k].status = "pending")
           \/ row'[k].payload = row[k].payload + 1
  PROVE  \A k \in Keys : Paid(k)'
<1>1. \A k : Owing(k)' = Owing(k)
  BY DEF Owing
<1> QED BY <1>1, PaidKept DEF Calm

(* enqueue_outbox, also while the row is claimed.                            *)
LEMMA EnqueueCalm ==
  ASSUME TypeOK, Calm, NEW k \in Keys, row' = Enqueued(k), UNCHANGED <<held, copy, item, result, hits>>,
         \A d \in Dispatchers : pc'[d] = pc[d] \/ (pc[d] = "start" /\ pc'[d] = "reap")
  PROVE  Calm'
<1> DEFINE new == [row[k] EXCEPT !.id = RowId(k), !.status = "pending", !.due = TRUE,
                                 !.payload = row[k].payload + 1]
<1>1. row' = [row EXCEPT ![k] = new]
  BY DEF Enqueued
<1>2. new.status = "pending" /\ new.payload = row[k].payload + 1 /\ new.stale = row[k].stale
  BY DEF TypeOK, Row
<1> HIDE DEF new
<1>3. \A j \in Keys : j # k => row'[j] = row[j]
  BY <1>1 DEF TypeOK
<1>4. row'[k] = new
  BY <1>1 DEF TypeOK
<1>5. \A j \in Keys : Paid(j)'
  BY <1>2, <1>3, <1>4, PaidAll
<1>6. InHand'
  BY DEF Calm, InHand
<1>7. ClaimsHeld'
  BY <1>2, <1>3, <1>4 DEF Calm, ClaimsHeld
<1> QED BY <1>5, <1>6, <1>7 DEF Calm

(* claim_pending_outbox: the waiting call becomes the claimant's.            *)
LEMMA ClaimCalm ==
  ASSUME TypeOK, Calm, NEW d \in Dispatchers, ClaimPendingOutbox(d)
  PROVE  Calm'
<1>1. /\ pc[d] = "claim" /\ ClaimRows(Batch, ReadCopy(d))
      /\ held' = [held EXCEPT ![d] = Batch] /\ copy' = [copy EXCEPT ![d] = ReadCopy(d)]
      /\ pc' = [pc EXCEPT ![d] = AfterClaim(d, Batch)]
      /\ UNCHANGED <<item, result, hits>>
  BY DEF ClaimPendingOutbox
<1>2. held[d] = {} /\ item[d] = {}
  BY <1>1 DEF Calm, InHand
<1>3. Batch \subseteq Keys /\ \A k \in Batch : row[k].status = "pending"
  BY DEF Batch, Claimable
<1>4. /\ \A k \in Keys \ Batch : row'[k] = row[k]
      /\ \A k \in Batch : row'[k] = [row[k] EXCEPT !.status = "processing", !.stale = FALSE,
                                                  !.attempts = ReadCopy(d)[k]]
  BY <1>1, <1>3 DEF ClaimRows
<1>5. \A k \in Batch : /\ row'[k].status = "processing" /\ row'[k].stale = FALSE
                       /\ row'[k].attempts = ReadCopy(d)[k] /\ row'[k].payload = row[k].payload
  <2> SUFFICES ASSUME NEW k \in Batch
               PROVE  /\ row'[k].status = "processing" /\ row'[k].stale = FALSE
                      /\ row'[k].attempts = ReadCopy(d)[k] /\ row'[k].payload = row[k].payload
    OBVIOUS
  <2>1. row[k] \in Row
    BY <1>3 DEF TypeOK
  <2> DEFINE n == ReadCopy(d)[k]
  <2>2. row'[k] = [row[k] EXCEPT !.status = "processing", !.stale = FALSE, !.attempts = n]
    BY <1>4
  <2> HIDE DEF n
  <2>3. row'[k].status = "processing" /\ row'[k].stale = FALSE /\ row'[k].attempts = n
        /\ row'[k].payload = row[k].payload
    BY <2>1, <2>2 DEF Row
  <2> QED BY <2>3 DEF n
<1>6. /\ held'[d] = Batch /\ copy'[d] = ReadCopy(d) /\ pc'[d] = AfterClaim(d, Batch)
      /\ \A e \in Dispatchers : e # d => held'[e] = held[e] /\ copy'[e] = copy[e] /\ pc'[e] = pc[e]
  BY <1>1 DEF TypeOK
<1>7. InHand'
  <2>1. Batch # {} => AfterClaim(d, Batch) = "connect"
    BY DEF AfterClaim
  <2>2. AfterClaim(d, Batch) # "settle"
    BY DEF AfterClaim, AfterTick
  <2> QED BY <1>1, <1>2, <1>6, <2>1, <2>2 DEF Calm, InHand
<1>8. ClaimsHeld'
  <2> SUFFICES ASSUME NEW k \in Keys
               PROVE  /\ ~row'[k].stale
                      /\ row'[k].status = "processing" =>
                           \E e \in Dispatchers : k \in held'[e] /\ copy'[e][k] = row'[k].attempts
    BY DEF ClaimsHeld
  <2>1. CASE k \in Batch
    <3>1. k \in held'[d] /\ copy'[d][k] = row'[k].attempts /\ ~row'[k].stale
      BY <1>5, <1>6, <2>1
    <3> QED BY <3>1
  <2>2. CASE k \notin Batch
    <3>1. row'[k] = row[k] /\ ~row[k].stale
      BY <1>4, <2>2 DEF Calm, ClaimsHeld
    <3>2. ASSUME row[k].status = "processing"
          PROVE  \E e \in Dispatchers : k \in held'[e] /\ copy'[e][k] = row[k].attempts
      <4>1. PICK e \in Dispatchers : k \in held[e] /\ copy[e][k] = row[k].attempts
        BY <3>2 DEF Calm, ClaimsHeld
      <4>2. e # d
        BY <1>2, <4>1
      <4> QED BY <1>6, <4>1, <4>2
    <3> QED BY <3>1, <3>2
  <2> QED BY <2>1, <2>2
<1>9. ASSUME NEW k \in Keys PROVE Paid(k)'
  <2>1. CASE k \in Batch
    <3>1. Owing(k)' = Owing(k) \union {d} /\ d \notin Owing(k)
      BY <1>1, <1>2, <1>6, <2>1 DEF Owing
    <3> DEFINE n == Cardinality(Owing(k))
    <3>2. IsFiniteSet(Owing(k)) /\ hits[k] + n + Waiting(k) <= row[k].payload
      BY DEF Calm, Paid
    <3>3. IsFiniteSet(Owing(k)') /\ Cardinality(Owing(k)') = n + 1
      BY <3>1, <3>2, FS_AddElement
    <3>4. n \in Nat
      BY <3>2, FS_CardinalityType
    <3>5. Waiting(k) = 1 /\ Waiting(k)' = 0
      BY <1>3, <1>5, <2>1 DEF Waiting
    <3>6. hits[k] \in Nat /\ row[k].payload \in Nat /\ hits'[k] = hits[k] /\ row'[k].payload = row[k].payload
      BY <1>1, <1>5, <2>1, PaidTypes
    <3> HIDE DEF n
    <3>7. hits'[k] + (n + 1) + Waiting(k)' <= row'[k].payload
      BY ONLY <3>2, <3>4, <3>5, <3>6
    <3> QED BY <3>3, <3>7 DEF Paid
  <2>2. CASE k \notin Batch
    <3>1. Owing(k)' = Owing(k)
      BY <1>1, <1>2, <1>6, <2>2 DEF Owing
    <3> QED BY <1>1, <1>4, <2>2, <3>1, PaidKept DEF Calm
  <2> QED BY <2>1, <2>2
<1> QED BY <1>7, <1>8, <1>9 DEF Calm

(* dispatch_outbox_item: an accepted call is no longer owed.                 *)
LEMMA DispatchCalm ==
  ASSUME "raised_late" \notin Results, TypeOK, Calm, NEW d \in Dispatchers, NEW k \in Keys,
         DispatchOutboxItem(d, k)
  PROVE  Calm'
<1>1. PICK a \in Results :
        /\ result' = [result EXCEPT ![d] = a]
        /\ hits' = [hits EXCEPT ![k] = IF a \in Accepted THEN @ + 1 ELSE @]
  BY DEF DispatchOutboxItem
<1>2. /\ pc[d] = "items" /\ k \in held[d]
      /\ item' = [item EXCEPT ![d] = {k}] /\ pc' = [pc EXCEPT ![d] = "settle"]
      /\ UNCHANGED <<row, held, copy>>
  BY DEF DispatchOutboxItem, Current
<1>3. item[d] = {}
  BY <1>2 DEF Calm, InHand
<1>4. /\ item'[d] = {k} /\ result'[d] = a /\ pc'[d] = "settle"
      /\ \A e \in Dispatchers : e # d => item'[e] = item[e] /\ result'[e] = result[e] /\ pc'[e] = pc[e]
  BY <1>1, <1>2 DEF TypeOK
<1>5. InHand'
  BY <1>2, <1>4 DEF Calm, InHand
<1>6. ClaimsHeld'
  BY <1>2 DEF Calm, ClaimsHeld
<1>7. ASSUME NEW j \in Keys PROVE Paid(j)'
  <2>1. CASE j = k /\ a \in Accepted
    <3>1. Owing(k)' = Owing(k) \ {d} /\ d \in Owing(k)
      BY <1>2, <1>3, <1>4, <2>1 DEF Owing
    <3> DEFINE n == Cardinality(Owing(k))
    <3>2. IsFiniteSet(Owing(k)) /\ hits[k] + n + Waiting(k) <= row[k].payload
      BY DEF Calm, Paid
    <3>3. IsFiniteSet(Owing(k)') /\ Cardinality(Owing(k)') = n - 1
      BY <3>1, <3>2, FS_RemoveElement
    <3>4. n \in Nat
      BY <3>2, FS_CardinalityType
    <3>5. hits[k] \in Nat /\ row[k].payload \in Nat /\ Waiting(k) \in {0, 1}
      BY PaidTypes
    <3>6. hits'[k] = hits[k] + 1 /\ row'[k].payload = row[k].payload /\ Waiting(k)' = Waiting(k)
      BY <1>1, <1>2, <2>1 DEF TypeOK, Waiting
    <3> HIDE DEF n
    <3>7. hits'[k] + (n - 1) + Waiting(k)' <= row'[k].payload
      BY ONLY <3>2, <3>4, <3>5, <3>6
    <3> QED BY <2>1, <3>3, <3>7 DEF Paid
  <2>2. CASE ~(j = k /\ a \in Accepted)
    <3>1. Owing(j)' = Owing(j)
      BY <1>2, <1>3, <1>4, <2>2 DEF Owing
    <3>2. hits'[j] = hits[j] /\ row' = row
      BY <1>1, <1>2, <2>2 DEF TypeOK
    <3> QED BY <3>1, <3>2, PaidKept DEF Calm
  <2> QED BY <2>1, <2>2
<1> QED BY <1>5, <1>6, <1>7 DEF Calm

(* complete_outbox and retry_outbox: only a call that was not accepted is    *)
(* left to another claim.                                                    *)
LEMMA SettleCalm ==
  ASSUME TypeOK, Calm, NEW d \in Dispatchers, NEW k \in Keys, NEW v \in {"dispatched", "failed", "retry"},
         SettleAs(d, k, v), k \in held[d], v = "retry" => d \in Owing(k),
         item[d] \subseteq {k}, item' = [item EXCEPT ![d] = {}], UNCHANGED <<copy, result, hits>>
  PROVE  Calm'
<1>1. /\ row' = [row EXCEPT ![k] = SettledRow(k, v)]
      /\ held' = [held EXCEPT ![d] = @ \ {k}]
      /\ pc' = [pc EXCEPT ![d] = IF held[d] = {k} THEN AfterTick(d) ELSE "items"]
  BY DEF SettleAs
<1>2. /\ held'[d] = held[d] \ {k} /\ item'[d] = {}
      /\ pc'[d] = IF held[d] = {k} THEN AfterTick(d) ELSE "items"
      /\ \A e \in Dispatchers : e # d => held'[e] = held[e] /\ item'[e] = item[e] /\ pc'[e] = pc[e]
  BY <1>1 DEF TypeOK
<1>3. /\ SettledRow(k, v).status = IF v = "retry" THEN "pending" ELSE v
      /\ SettledRow(k, v).payload = row[k].payload /\ SettledRow(k, v).stale = row[k].stale
  <2>1. row[k] \in Row
    BY DEF TypeOK
  <2>2. CASE v = "retry"
    BY <2>1, <2>2 DEF SettledRow, Row
  <2>3. CASE v # "retry"
    BY <2>1, <2>3 DEF SettledRow, Row
  <2> QED BY <2>2, <2>3
<1>4. row'[k] = SettledRow(k, v) /\ \A j \in Keys : j # k => row'[j] = row[j]
  BY <1>1 DEF TypeOK
<1>5. InHand'
  <2>1. AfterTick(d) \notin {"connect", "items", "settle"}
    BY DEF AfterTick
  <2> QED BY <1>2, <2>1 DEF Calm, InHand
<1>6. ClaimsHeld'
  <2> SUFFICES ASSUME NEW j \in Keys
               PROVE  /\ ~row'[j].stale
                      /\ row'[j].status = "processing" =>
                           \E e \in Dispatchers : j \in held'[e] /\ copy'[e][j] = row'[j].attempts
    BY DEF ClaimsHeld
  <2>1. CASE j = k
    BY <1>3, <1>4, <2>1 DEF Calm, ClaimsHeld
  <2>2. CASE j # k
    <3>1. row'[j] = row[j] /\ ~row[j].stale
      BY <1>4, <2>2 DEF Calm, ClaimsHeld
    <3>2. ASSUME row[j].status = "processing"
          PROVE  \E e \in Dispatchers : j \in held'[e] /\ copy[e][j] = row[j].attempts
      BY <1>2, <2>2, <3>2 DEF Calm, ClaimsHeld
    <3> QED BY <3>1, <3>2
  <2> QED BY <2>1, <2>2
<1>7. ASSUME NEW j \in Keys PROVE Paid(j)'
  <2>1. CASE j # k
    <3>1. Owing(j)' = Owing(j)
      BY <1>2, <2>1 DEF Owing
    <3> QED BY <1>4, <2>1, <3>1, PaidKept DEF Calm
  <2>2. CASE j = k
    <3> DEFINE n == Cardinality(Owing(k))
    <3>1. Owing(k)' = Owing(k) \ {d}
      BY <1>2 DEF Owing
    <3>2. IsFiniteSet(Owing(k)) /\ hits[k] + n + Waiting(k) <= row[k].payload
      BY DEF Calm, Paid
    <3>3. IsFiniteSet(Owing(k)') /\ Cardinality(Owing(k)') = IF d \in Owing(k) THEN n - 1 ELSE n
      BY <3>1, <3>2, FS_RemoveElement
    <3>4. n \in Nat
      BY <3>2, FS_CardinalityType
    <3>5. hits[k] \in Nat /\ row[k].payload \in Nat /\ Waiting(k) \in {0, 1}
      BY PaidTypes
    <3>6. /\ row'[k].payload = row[k].payload /\ Waiting(k)' \in {0, 1}
          /\ Waiting(k)' = 1 => d \in Owing(k)
      BY <1>3, <1>4 DEF Waiting
    <3> DEFINE m == IF d \in Owing(k) THEN n - 1 ELSE n
    <3>7. (Waiting(k)' = 1 /\ m = n - 1) \/ (Waiting(k)' = 0 /\ m <= n /\ m \in Int)
      BY <3>4, <3>6
    <3> HIDE DEF n, m
    <3>8. hits[k] + m + Waiting(k)' <= row'[k].payload
      BY ONLY <3>2, <3>4, <3>5, <3>6, <3>7
    <3>9. Cardinality(Owing(k)') = m
      BY <3>3 DEF m
    <3> QED BY <2>2, <3>3, <3>8, <3>9 DEF Paid
  <2> QED BY <2>1, <2>2
<1> QED BY <1>5, <1>6, <1>7 DEF Calm

LEMMA CalmStep ==
  ASSUME Serialized, ~SlowBatches, "raised_late" \notin Results, Inv2, crashes = 0 => Calm, [Next]_vars
  PROVE  crashes' = 0 => Calm'
<1>t. TypeOK
  BY DEF Inv2
<1>c. crashes' = 0 => crashes = 0
  <2>1. ASSUME NEW d \in Dispatchers, Tick(d) \/ RestartLoop(d) PROVE crashes' = crashes
    BY <2>1 DEF Tick, ReapStaleOutboxClaims, SelectStale, ResetStale, ClaimPendingOutbox,
         SelectPending, UpdateClaimed, Connect, DispatchOutboxItem, SettleItem, RetryUnconnected,
         RestartLoop
  <2>2. ASSUME NEW d \in Dispatchers, Crash(d) PROVE crashes' # 0
    BY <1>t, <2>2 DEF Crash, TypeOK
  <2>3. ASSUME NEW k \in Keys, EnqueueOnly(k) \/ RetryComesDue(k) \/ ClaimGoesStale(k)
        PROVE  crashes' = crashes
    BY <2>3 DEF EnqueueOnly, RetryComesDue, ClaimGoesStale
  <2>4. ASSUME NEW r \in Runs, RunEnqueues(r) PROVE crashes' = crashes
    BY <2>4 DEF RunEnqueues
  <2> QED BY <2>1, <2>2, <2>3, <2>4 DEF Next, vars
<1> SUFFICES ASSUME Calm, crashes' = 0 PROVE Calm'
  BY <1>c
<1>1. ASSUME NEW k \in Keys, EnqueueOnly(k) PROVE Calm'
  BY <1>1, <1>t, EnqueueCalm DEF EnqueueOnly
<1>2. ASSUME NEW r \in Runs, RunEnqueues(r) PROVE Calm'
  <2>1. KeyOf[r] \in Keys
    BY OutboxAssumption
  <2>2. \A d \in Dispatchers : pc'[d] = pc[d] \/ (pc[d] = "start" /\ pc'[d] = "reap")
    BY <1>2, <1>t DEF RunEnqueues, TypeOK
  <2> QED BY <1>2, <1>t, <2>1, <2>2, EnqueueCalm DEF RunEnqueues
<1>3. ASSUME NEW d \in Dispatchers, UNCHANGED <<row, held, copy, item, result, hits>>, NEW q \in Steps,
             pc' = [pc EXCEPT ![d] = q], q # "settle",
             pc[d] \in {"connect", "items", "settle"} => q = "items" /\ pc[d] # "settle"
      PROVE  Calm'
  <2>1. \A k \in Keys : Paid(k)'
    BY <1>3, <1>t, PaidAll
  <2>2. InHand'
    BY <1>3, <1>t DEF Calm, InHand, TypeOK
  <2>3. ClaimsHeld'
    BY <1>3 DEF Calm, ClaimsHeld
  <2> QED BY <2>1, <2>2, <2>3 DEF Calm
<1>4. ASSUME NEW d \in Dispatchers, ReapStaleOutboxClaims(d) PROVE Calm'
  <2>1. StaleClaims = {}
    BY DEF Calm, ClaimsHeld, StaleClaims
  <2>2. row' = row
    BY <1>4, <1>t, <2>1 DEF ReapStaleOutboxClaims, Reset, TypeOK
  <2>3. "claim" \in Steps
    BY DEF Steps
  <2> QED BY <1>3, <1>4, <2>2, <2>3 DEF ReapStaleOutboxClaims
<1>5. ASSUME NEW d \in Dispatchers, Connect(d) \/ RestartLoop(d) PROVE Calm'
  <2>1. {"items", "reap"} \subseteq Steps
    BY DEF Steps
  <2> QED BY <1>3, <1>5, <2>1 DEF Connect, RestartLoop
<1>6. ASSUME NEW d \in Dispatchers, ClaimPendingOutbox(d) PROVE Calm'
  BY <1>6, <1>t, ClaimCalm
<1>7. ASSUME NEW d \in Dispatchers, NEW k \in Keys, DispatchOutboxItem(d, k) PROVE Calm'
  BY <1>7, <1>t, DispatchCalm
<1>8. ASSUME NEW d \in Dispatchers, NEW k \in Keys, SettleItem(d, k) PROVE Calm'
  <2> DEFINE v == Verdict(d, k, result[d])
  <2>1. SettleAs(d, k, v) /\ k \in item[d] /\ item' = [item EXCEPT ![d] = {}]
        /\ UNCHANGED <<copy, result, hits>>
    BY <1>8 DEF SettleItem
  <2>2. result[d] \in AllResults /\ result[d] # "raised_late"
    BY <1>t DEF TypeOK, Calm, InHand
  <2>3. v \in {"dispatched", "failed", "retry"} /\ (v = "retry" => result[d] = "raised")
    BY <2>2 DEF Verdict, AllResults, Accepted, Raised
  <2>4. item[d] \subseteq {k} /\ k \in held[d]
    BY <2>1 DEF Calm, InHand
  <2> HIDE DEF v
  <2>5. v = "retry" => d \in Owing(k)
    BY <2>3, <2>4 DEF Owing, Accepted
  <2> QED BY <1>t, <2>1, <2>3, <2>4, <2>5, SettleCalm
<1>9. ASSUME NEW d \in Dispatchers, NEW k \in Keys, RetryUnconnected(d, k) PROVE Calm'
  <2> DEFINE v == Verdict(d, k, "raised")
  <2>1. SettleAs(d, k, v) /\ k \in held[d] /\ pc[d] = "items" /\ UNCHANGED <<item, copy, result, hits>>
    BY <1>9 DEF RetryUnconnected, Current
  <2>2. item[d] = {}
    BY <2>1 DEF Calm, InHand
  <2>3. item' = [item EXCEPT ![d] = {}]
    BY <1>t, <2>1, <2>2 DEF TypeOK
  <2>4. v \in {"dispatched", "failed", "retry"}
    BY DEF Verdict
  <2> HIDE DEF v
  <2>5. d \in Owing(k)
    BY <2>1, <2>2 DEF Owing
  <2> QED BY <1>t, <2>1, <2>2, <2>3, <2>4, <2>5, SettleCalm
<1>10. ASSUME NEW k \in Keys, RetryComesDue(k) PROVE Calm'
  <2>1. /\ row' = [row EXCEPT ![k] = [row[k] EXCEPT !.due = TRUE]]
        /\ UNCHANGED <<pc, held, copy, item, result, hits>>
    BY <1>10, <1>t DEF RetryComesDue, TypeOK
  <2>2. \A j \in Keys : /\ row'[j].status = row[j].status /\ row'[j].payload = row[j].payload
                        /\ row'[j].stale = row[j].stale /\ row'[j].attempts = row[j].attempts
    BY <1>t, <2>1 DEF TypeOK, Row
  <2>3. \A j \in Keys : Paid(j)'
    BY <1>t, <2>1, <2>2, PaidAll
  <2>4. InHand'
    BY <2>1 DEF Calm, InHand
  <2>5. ClaimsHeld'
    BY <2>1, <2>2 DEF Calm, ClaimsHeld
  <2> QED BY <2>3, <2>4, <2>5 DEF Calm
<1>11. ASSUME NEW k \in Keys PROVE ~ClaimGoesStale(k)
  <2>1. row[k].status = "processing" => HeldNow(k)
    BY DEF Calm, ClaimsHeld, InHand, HeldNow, Holding
  <2> QED BY <2>1 DEF ClaimGoesStale
<1>12. \A d \in Dispatchers : /\ ~SelectStale(d) /\ ~SelectPending(d)
                             /\ ~ResetStale(d) /\ ~UpdateClaimed(d) /\ ~Crash(d)
  BY <1>t DEF SelectStale, SelectPending, ResetStale, UpdateClaimed, Inv2, NoOpenTransaction, Crash, TypeOK
<1>13. CASE UNCHANGED vars
  <2>1. UNCHANGED <<row, held, copy, item, result, hits, pc>>
    BY <1>13 DEF vars
  <2>2. \A k \in Keys : Paid(k)'
    BY <1>t, <2>1, PaidAll
  <2> QED BY <2>1, <2>2 DEF Calm, InHand, ClaimsHeld
<1> QED
  BY <1>1, <1>2, <1>4, <1>5, <1>6, <1>7, <1>8, <1>9, <1>10, <1>11, <1>12, <1>13 DEF Next, Tick

(* On SQLite, when batches are fast, answers are not lost and nobody has     *)
(* crashed, the remote side accepts no more calls for a key than payloads    *)
(* were enqueued for it, however many dispatchers drain the table, and       *)
(* although enqueue_outbox may make a row pending again that a dispatcher    *)
(* still works on.  Each of the hypotheses is needed: without it a call is   *)
(* repeated.                                                                 *)
THEOREM Once ==
  ASSUME Serialized, ~SlowBatches, "raised_late" \notin Results
  PROVE  Spec => []AcceptedOnce
<1>1. Init => Inv2
  BY Initially DEF Init, Inv1, Inv2, NoOpenTransaction, CopiesReached, CopiesDiffer
<1>2. Inv2 /\ [Next]_vars => Inv2'
  BY CopiesStep
<1> DEFINE Inv3 == crashes = 0 => Calm
<1>3. Init => Inv3
  <2> SUFFICES ASSUME Init PROVE Calm
    OBVIOUS
  <2>1. InHand
    BY DEF Init, InHand
  <2>2. ClaimsHeld
    BY DEF Init, ClaimsHeld
  <2>3. ASSUME NEW k \in Keys PROVE Paid(k)
    <3>1. Owing(k) = {}
      BY DEF Init, Owing
    <3>2. hits[k] = 0 /\ Waiting(k) = 0 /\ row[k].payload = 0
      BY DEF Init, Waiting
    <3> QED BY <3>1, <3>2, FS_EmptySet DEF Paid
  <2> QED BY <2>1, <2>2, <2>3 DEF Calm
<1>4. Inv2 /\ Inv3 /\ [Next]_vars => Inv3'
  BY CalmStep
<1>5. Inv2 /\ Inv3 => AcceptedOnce
  <2> SUFFICES ASSUME Inv2, Calm, NEW k \in Keys PROVE hits[k] <= row[k].payload
    BY DEF AcceptedOnce
  <2>1. hits[k] \in Nat /\ row[k].payload \in Nat /\ Waiting(k) \in {0, 1}
    BY PaidTypes DEF Inv2
  <2> DEFINE n == Cardinality(Owing(k))
  <2>2. n \in Nat /\ hits[k] + n + Waiting(k) <= row[k].payload
    BY FS_CardinalityType DEF Calm, Paid
  <2> HIDE DEF n
  <2> QED BY ONLY <2>1, <2>2
<1> HIDE DEF Inv3
<1> QED BY <1>1, <1>2, <1>3, <1>4, <1>5, PTL DEF Spec
=============================================================================
