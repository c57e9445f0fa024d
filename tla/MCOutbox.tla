------------------------------ MODULE MCOutbox ------------------------------
(* Small instances of Outbox for TLC.                                        *)
EXTENDS Outbox

CONSTANTS k1, k2, k3

(* The run's own event is a pull request; the others are a Linear update and *)
(* an event of a kind the dispatcher does not support.                       *)
MCKeyOf       == [r \in Runs |-> k1]
MCConnectorOf == [k \in Keys |-> CASE k = k1 -> "github" [] k = k2 -> "linear" [] k = k3 -> ""]
=============================================================================
