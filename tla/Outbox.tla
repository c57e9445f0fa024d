------------------------------- MODULE Outbox -------------------------------
(* The transactional outbox of the coordination store                        *)
(* (core/coordination/outbox.py) and the dispatcher that drains it           *)
(* (core/scheduling/outbox_dispatcher.py).  Rows are identified by their     *)
(* dedupe key.  Two kinds of process drain the table: the standalone         *)
(* `outbox-dispatcher` loops, and runs, which enqueue an event of their own  *)
(* and then run one dispatcher tick in line (_dispatch_outbox_now) to learn  *)
(* what became of it.  Other code (coder_supervisor, triage) only enqueues.  *)
(* The remote side, GitHub or Linear behind an MCP server, is the counter    *)
(* `hits` of calls it accepted.                                              *)
EXTENDS Naturals, FiniteSets

CONSTANTS
  Keys,          \* dedupe keys; one outbox row each
  Loops,         \* standalone dispatcher processes
  Runs,          \* runs that enqueue an event and dispatch in line
  KeyOf,         \* the dedupe key a run enqueues under
  ConnectorOf,   \* "github", "linear", or "" for an unsupported kind
  Limit,         \* DEFAULT_OUTBOX_BATCH_LIMIT
  MaxAttempts,   \* DEFAULT_OUTBOX_MAX_ATTEMPTS
  Results,       \* what a dispatch can come to, a subset of AllResults
  Serialized,    \* SQLite's BEGIN IMMEDIATE (TRUE) or Postgres's BEGIN (FALSE)
  SlowBatches,   \* whether a batch can outlive the stale-claim window
  MaxPayload,    \* bound on payloads enqueued by code that does not dispatch
  MaxCrashes     \* bound on dispatcher crashes

Connectors == {"github", "linear"}

(* What dispatch_outbox_item can come to: accepted by the remote side;       *)
(* accepted, but the answer was lost and the call raised; accepted, but not  *)
(* verifiable (no URL, no marker), which is terminal; refused with a         *)
(* warning, which is terminal; raised with nothing accepted.                 *)
Accepted   == {"ok", "raised_late", "unverified"}
Raised     == {"raised", "raised_late"}
AllResults == Accepted \union Raised \union {"refused"}

ASSUME OutboxAssumption ==
  /\ IsFiniteSet(Keys)
  /\ Loops \intersect Runs = {}
  /\ KeyOf \in [Runs -> Keys]
  /\ ConnectorOf \in [Keys -> Connectors \union {""}]
  /\ Limit \in Nat \ {0}
  /\ MaxAttempts \in Nat \ {0}
  /\ Results \subseteq AllResults
  /\ Serialized \in BOOLEAN
  /\ SlowBatches \in BOOLEAN
  /\ MaxPayload \in Nat
  /\ MaxCrashes \in Nat

Dispatchers == Loops \union Runs

VARIABLES
  row,      \* the outbox table
  pc,       \* where each dispatcher is in dispatch_outbox_tick
  held,     \* the keys of the rows a dispatcher read and has still to deal with
  copy,     \* the attempt number it claims them under, in its copy of the row
  errs,     \* connectors that failed to connect in this tick
  item,     \* the key whose dispatch has returned, if any, and
  result,   \* what that dispatch came to
  mine,     \* what a run's own tick said of the run's own event
  hits,     \* remote side: accepted calls per key
  crashes

vars == <<row, pc, held, copy, errs, item, result, mine, hits, crashes>>

Statuses == {"none", "pending", "processing", "dispatched", "failed"}
Row      == [id : Nat, status : Statuses, payload : Nat, attempts : Nat,
             due : BOOLEAN, stale : BOOLEAN]
Verdicts == {"none", "dispatched", "retry", "failed"}
Steps    == {"start", "reap", "reset", "claim", "update", "connect", "items",
             "settle", "done", "down"}

(* The kinds and ranges of the variables.                                    *)
TypeOK ==
  /\ row \in [Keys -> Row]
  /\ pc \in [Dispatchers -> Steps]
  /\ held \in [Dispatchers -> SUBSET Keys]
  /\ copy \in [Dispatchers -> [Keys -> Nat]]
  /\ errs \in [Dispatchers -> SUBSET Connectors]
  /\ item \in [Dispatchers -> SUBSET Keys]
  /\ result \in [Dispatchers -> AllResults]
  /\ mine \in [Runs -> Verdicts]
  /\ hits \in [Keys -> Nat]
  /\ crashes \in Nat

Init ==
  /\ row = [k \in Keys |-> [id |-> 0, status |-> "none", payload |-> 0,
                            attempts |-> 0, due |-> FALSE, stale |-> FALSE]]
  /\ pc = [d \in Dispatchers |-> IF d \in Runs THEN "start" ELSE "reap"]
  /\ held = [d \in Dispatchers |-> {}]
  /\ copy = [d \in Dispatchers |-> [k \in Keys |-> 0]]
  /\ errs = [d \in Dispatchers |-> {}]
  /\ item = [d \in Dispatchers |-> {}]
  /\ result = [d \in Dispatchers |-> "refused"]
  /\ mine = [r \in Runs |-> "none"]
  /\ hits = [k \in Keys |-> 0]
  /\ crashes = 0

-----------------------------------------------------------------------------
(* AUTOINCREMENT: rows are numbered in the order of their first insertion.   *)
RowId(k) == IF row[k].status = "none" THEN Cardinality({j \in Keys : row[j].id > 0}) + 1
                                      ELSE row[k].id

(* Mutant: the conflict branch starts counting attempts afresh.              *)
EnqueuedAfresh(k) ==
  [row EXCEPT ![k] = [row[k] EXCEPT !.id = RowId(k), !.status = "pending", !.due = TRUE,
                                    !.payload = row[k].payload + 1, !.attempts = 0]]

(* enqueue_outbox: INSERT, or on a dedupe conflict a new payload in the row  *)
(* already there.  The conflict branch resets the status whatever it was and *)
(* leaves `attempts` alone.                                                  *)
Enqueued(k) ==
  [row EXCEPT ![k] = [row[k] EXCEPT !.id = RowId(k), !.status = "pending", !.due = TRUE,
                                    !.payload = row[k].payload + 1]]

EnqueueOnly(k) ==
  /\ row[k].payload < MaxPayload
  /\ row' = Enqueued(k)
  /\ UNCHANGED <<pc, held, copy, errs, item, result, mine, hits, crashes>>

RunEnqueues(r) ==
  /\ pc[r] = "start"
  /\ row' = Enqueued(KeyOf[r])
  /\ pc' = [pc EXCEPT ![r] = "reap"]
  /\ UNCHANGED <<held, copy, errs, item, result, mine, hits, crashes>>

(* Where a tick leaves its process: a loop starts over, a run goes on.       *)
AfterTick(d) == IF d \in Runs THEN "done" ELSE "reap"

(* reap_stale_outbox_claims, the first call of a tick.  SQLite serialises    *)
(* the transaction; under Postgres's READ COMMITTED other transactions       *)
(* commit between its SELECT and its UPDATEs, which go by id alone.          *)
(* Mutant: the reaper leaves claims that have used up their attempts.        *)
StaleClaimsInBudget ==
  {k \in Keys : row[k].status = "processing" /\ row[k].stale /\ row[k].attempts < MaxAttempts}

StaleClaims == {k \in Keys : row[k].status = "processing" /\ row[k].stale}

Reset(S) ==
  row' = [k \in Keys |-> IF k \in S
                         THEN [row[k] EXCEPT !.status = "pending", !.due = TRUE, !.stale = FALSE]
                         ELSE row[k]]

ReapStaleOutboxClaims(d) ==
  /\ Serialized
  /\ pc[d] = "reap"
  /\ Reset(StaleClaims)
  /\ pc' = [pc EXCEPT ![d] = "claim"]
  /\ UNCHANGED <<held, copy, errs, item, result, mine, hits, crashes>>

SelectStale(d) ==
  /\ ~Serialized
  /\ pc[d] = "reap"
  /\ held' = [held EXCEPT ![d] = StaleClaims]
  /\ pc' = [pc EXCEPT ![d] = "reset"]
  /\ UNCHANGED <<row, copy, errs, item, result, mine, hits, crashes>>

ResetStale(d) ==
  /\ pc[d] = "reset"
  /\ Reset(held[d])
  /\ held' = [held EXCEPT ![d] = {}]
  /\ pc' = [pc EXCEPT ![d] = "claim"]
  /\ UNCHANGED <<copy, errs, item, result, mine, hits, crashes>>

(* claim_pending_outbox: the first Limit due rows by id.                     *)
Claimable == {k \in Keys : row[k].status = "pending" /\ row[k].due}
Batch     == {k \in Claimable :
                Cardinality({j \in Claimable : row[j].id < row[k].id}) < Limit}

ReadCopy(d) ==
  [k \in Keys |-> IF k \in Batch THEN row[k].attempts + 1 ELSE copy[d][k]]

(* Mutant: the claim counts the attempt and leaves the status.               *)
ClaimRowsPending(S, c) ==
  row' = [k \in Keys |-> IF k \in S
                         THEN [row[k] EXCEPT !.stale = FALSE, !.attempts = c[k]]
                         ELSE row[k]]

ClaimRows(S, c) ==
  row' = [k \in Keys |-> IF k \in S
                         THEN [row[k] EXCEPT !.status = "processing", !.stale = FALSE,
                                             !.attempts = c[k]]
                         ELSE row[k]]

AfterClaim(d, S) == IF S = {} THEN AfterTick(d) ELSE "connect"

ClaimPendingOutbox(d) ==
  /\ Serialized
  /\ pc[d] = "claim"
  /\ ClaimRows(Batch, ReadCopy(d))
  /\ held' = [held EXCEPT ![d] = Batch]
  /\ copy' = [copy EXCEPT ![d] = ReadCopy(d)]
  /\ pc' = [pc EXCEPT ![d] = AfterClaim(d, Batch)]
  /\ UNCHANGED <<errs, item, result, mine, hits, crashes>>

SelectPending(d) ==
  /\ ~Serialized
  /\ pc[d] = "claim"
  /\ held' = [held EXCEPT ![d] = Batch]
  /\ copy' = [copy EXCEPT ![d] = ReadCopy(d)]
  /\ pc' = [pc EXCEPT ![d] = "update"]
  /\ UNCHANGED <<row, errs, item, result, mine, hits, crashes>>

UpdateClaimed(d) ==
  /\ pc[d] = "update"
  /\ ClaimRows(held[d], copy[d])
  /\ pc' = [pc EXCEPT ![d] = AfterClaim(d, held[d])]
  /\ UNCHANGED <<held, copy, errs, item, result, mine, hits, crashes>>

(* ensure_github_mcp_connected and ensure_linear_mcp_connected, each only    *)
(* when the batch needs it; either may raise, and the tick goes on.          *)
Connect(d) ==
  /\ pc[d] = "connect"
  /\ \E E \in SUBSET ({ConnectorOf[k] : k \in held[d]} \intersect Connectors) :
       errs' = [errs EXCEPT ![d] = E]
  /\ pc' = [pc EXCEPT ![d] = "items"]
  /\ UNCHANGED <<row, held, copy, item, result, mine, hits, crashes>>

(* The item the for loop of the tick is at: batches are in id order.         *)
Current(d, k) == k \in held[d] /\ \A j \in held[d] : row[k].id <= row[j].id

(* dispatch_outbox_item: the remote call, made with the payload read at the  *)
(* claim.  A kind without a connector is refused without a call.             *)
DispatchOutboxItem(d, k) ==
  /\ pc[d] = "items" /\ Current(d, k)
  /\ ConnectorOf[k] \notin errs[d]
  /\ \E a \in Results :
       /\ ConnectorOf[k] = "" => a = "refused"
       /\ result' = [result EXCEPT ![d] = a]
       /\ hits' = [hits EXCEPT ![k] = IF a \in Accepted THEN @ + 1 ELSE @]
  /\ item' = [item EXCEPT ![d] = {k}]
  /\ pc' = [pc EXCEPT ![d] = "settle"]
  /\ UNCHANGED <<row, held, copy, errs, mine, crashes>>

(* Mutant: a dispatch that returns without raising counts as a success.      *)
VerdictReturned(d, k, a) ==
  CASE a \in {"ok", "refused", "unverified"} -> "dispatched"
    [] OTHER -> IF copy[d][k] >= MaxAttempts THEN "failed" ELSE "retry"

(* retry_claimed_outbox gives up at MaxAttempts, counted in the copy the     *)
(* dispatcher read; a refusal is terminal at once; a success completes.      *)
Verdict(d, k, a) ==
  CASE a = "ok"                        -> "dispatched"
    [] a \in {"refused", "unverified"} -> "failed"
    [] OTHER                           -> IF copy[d][k] >= MaxAttempts THEN "failed" ELSE "retry"

(* complete_outbox and retry_outbox: by id, whatever the row is by now.      *)
SettledRow(k, v) ==
  IF v = "retry" THEN [row[k] EXCEPT !.status = "pending", !.due = FALSE]
                 ELSE [row[k] EXCEPT !.status = v]

SettleAs(d, k, v) ==
  /\ row' = [row EXCEPT ![k] = SettledRow(k, v)]
  /\ held' = [held EXCEPT ![d] = @ \ {k}]
  /\ pc' = [pc EXCEPT ![d] = IF held[d] = {k} THEN AfterTick(d) ELSE "items"]
  /\ mine' = [r \in Runs |-> IF r = d /\ KeyOf[r] = k THEN v ELSE mine[r]]

SettleItem(d, k) ==
  /\ pc[d] = "settle" /\ k \in item[d]
  /\ SettleAs(d, k, Verdict(d, k, result[d]))
  /\ item' = [item EXCEPT ![d] = {}]
  /\ UNCHANGED <<copy, errs, result, hits, crashes>>

(* An item whose connector is down is retried without a call.                *)
RetryUnconnected(d, k) ==
  /\ pc[d] = "items" /\ Current(d, k)
  /\ ConnectorOf[k] \in errs[d]
  /\ SettleAs(d, k, Verdict(d, k, "raised"))
  /\ UNCHANGED <<copy, errs, item, result, hits, crashes>>

(* A dispatcher dies with its batch in hand.  Nothing restarts it: a loop    *)
(* stays down until an operator starts it again, a run is over.              *)
Crash(d) ==
  /\ crashes < MaxCrashes
  /\ pc[d] \notin {"start", "done", "down"}
  /\ pc' = [pc EXCEPT ![d] = IF d \in Runs THEN "done" ELSE "down"]
  /\ held' = [held EXCEPT ![d] = {}]
  /\ item' = [item EXCEPT ![d] = {}]
  /\ crashes' = crashes + 1
  /\ UNCHANGED <<row, copy, errs, result, mine, hits>>

RestartLoop(d) ==
  /\ pc[d] = "down"
  /\ pc' = [pc EXCEPT ![d] = "reap"]
  /\ UNCHANGED <<row, held, copy, errs, item, result, mine, hits, crashes>>

-----------------------------------------------------------------------------
(* Time.  next_attempt_at_ms passes; and updated_at_ms of a claim falls out  *)
(* of the stale window, under a live holder only if batches can be so slow.  *)
Holding(d) == IF pc[d] \in {"connect", "items", "settle"} THEN held[d] ELSE {}
HeldNow(k) == \E d \in Dispatchers : k \in Holding(d) /\ copy[d][k] = row[k].attempts

RetryComesDue(k) ==
  /\ row[k].status = "pending" /\ ~row[k].due
  /\ row' = [row EXCEPT ![k].due = TRUE]
  /\ UNCHANGED <<pc, held, copy, errs, item, result, mine, hits, crashes>>

ClaimGoesStale(k) ==
  /\ row[k].status = "processing" /\ ~row[k].stale
  /\ HeldNow(k) => SlowBatches
  /\ row' = [row EXCEPT ![k].stale = TRUE]
  /\ UNCHANGED <<pc, held, copy, errs, item, result, mine, hits, crashes>>

-----------------------------------------------------------------------------
Tick(d) ==
  \/ ReapStaleOutboxClaims(d) \/ SelectStale(d) \/ ResetStale(d)
  \/ ClaimPendingOutbox(d) \/ SelectPending(d) \/ UpdateClaimed(d)
  \/ Connect(d)
  \/ \E k \in Keys : DispatchOutboxItem(d, k) \/ SettleItem(d, k) \/ RetryUnconnected(d, k)

Next ==
  \/ \E k \in Keys : EnqueueOnly(k) \/ RetryComesDue(k) \/ ClaimGoesStale(k)
  \/ \E r \in Runs : RunEnqueues(r)
  \/ \E d \in Dispatchers : Tick(d) \/ Crash(d) \/ RestartLoop(d)

Spec == Init /\ [][Next]_vars

(* A live dispatcher goes on with its tick, and time passes.  Nobody has to  *)
(* enqueue, and nobody has to restart a loop.                                *)
Fairness ==
  /\ \A d \in Dispatchers : WF_vars(Tick(d))
  /\ \A k \in Keys : WF_vars(RetryComesDue(k)) /\ WF_vars(ClaimGoesStale(k))

FairSpec == Spec /\ Fairness

-----------------------------------------------------------------------------
(* Two dispatchers that hold the same row hold it under different attempt    *)
(* numbers, so of all the holders at most one has the current claim; the     *)
(* others were reaped or overtaken by a new payload.  The table has no claim *)
(* token: this is all that tells a late dispatcher from the current one.     *)
(* About claim_pending_outbox against enqueue_outbox's conflict branch and   *)
(* the reaper, neither of which may reset `attempts`.                        *)
ClaimNumbersDiffer ==
  \A d, e \in Dispatchers : \A k \in Holding(d) \intersect Holding(e) :
    d # e => copy[d][k] # copy[e][k]

(* An event recorded as dispatched was accepted by the remote side at least  *)
(* once, whatever retries, reaps, crashes and new payloads came in between.  *)
DispatchedWasAccepted ==
  \A k \in Keys : row[k].status = "dispatched" => hits[k] > 0

(* When answers are not lost, batches are fast and nobody crashes, the       *)
(* remote side accepts no more payloads than were enqueued, although two     *)
(* dispatchers drain the table and a new payload overtakes one in flight.    *)
AcceptedOnce == crashes = 0 => \A k \in Keys : hits[k] <= row[k].payload

(* While a dispatcher loop is up, every event that is enqueued ends as       *)
(* dispatched or failed: a run that dies between claim and completion, a     *)
(* connector that is down and a batch limit that always favours older rows   *)
(* all leave it to a later tick.                                             *)
EventSettles ==
  \A k \in Keys : row[k].status \in {"pending", "processing"}
                    ~> \/ row[k].status \in {"dispatched", "failed"}
                       \/ \A d \in Loops : pc[d] = "down"
=============================================================================
