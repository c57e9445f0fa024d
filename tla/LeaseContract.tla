--------------------------- MODULE LeaseContract ----------------------------
(***************************************************************************)
(* What the coordination ledger promises of its leases, whatever happens   *)
(* to processes, calls and clocks: a lease is granted once, only when the  *)
(* task has no other holder, and ends once, with an outcome that stays.    *)
(***************************************************************************)
CONSTANTS Runs, TaskOf

VARIABLE status

Outcomes == {"completed", "blocked", "stale"}

Held == {r \in Runs : status[r] = "active"}

Init == status = [r \in Runs |-> "none"]

\* The leases in E end, each with the outcome that out gives it.
Ending(E, out) == [r \in Runs |-> IF r \in E THEN out[r] ELSE status[r]]

End(E) ==
    \E out \in [E -> Outcomes] : status' = Ending(E, out)

\* r is granted its task, in one step with the end of leases that ran out.
Grant(r, E) ==
    /\ status[r] = "none"
    /\ \A q \in Held \ E : TaskOf[q] # TaskOf[r]
    /\ \E out \in [E -> Outcomes] : status' = [Ending(E, out) EXCEPT ![r] = "active"]

Next == \E E \in SUBSET Held : End(E) \/ \E r \in Runs : Grant(r, E)

Spec == Init /\ [][Next]_status

=============================================================================
