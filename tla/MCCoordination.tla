--------------------------- MODULE MCCoordination ---------------------------
(***************************************************************************)
(* Small instances of Coordination: two runs that compete for one task,    *)
(* from two processes of one host or from one process.                     *)
(***************************************************************************)
EXTENDS Coordination, TLC

CONSTANTS t1, t2, r1, r2, w1, w2, h1

OneTask == [r \in Runs |-> t1]
OwnProcess == (r1 :> w1) @@ (r2 :> w2)
OneProcess == [r \in Runs |-> w1]
OneHost == [w \in Workers |-> h1]
OwnTask == (r1 :> t1) @@ (r2 :> t2)
Chain == (t1 :> {}) @@ (t2 :> {t1})
NoDeps == [t \in Tasks |-> {}]
=============================================================================
