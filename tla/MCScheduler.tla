----------------------------- MODULE MCScheduler -----------------------------
(* Instances of Scheduler: projects, repositories, paths and dependencies of *)
(* up to four tasks.                                                         *)
EXTENDS Scheduler, TLC

CONSTANTS t1, t2, t3, t4

MCProjectOf == [t \in Tasks |-> CASE t = t1 -> 1 [] t \in {t2, t3} -> 2 [] t = t4 -> 3]
OneRepo     == [t \in Tasks |-> "repo"]
OwnRepo     == [t \in Tasks |-> t]
(* t1 and t3 overlap: a directory and a file in it.                          *)
MCScopesOf  == [t \in Tasks |-> CASE t = t1 -> {<<"a">>} [] t = t2 -> {<<"b">>}
                                  [] t = t3 -> {<<"a", "x">>, <<"c">>}]
(* t1, t2 and t3 are apart; t4 names no files and takes its repository,      *)
(* which t3 is in.                                                           *)
Apart       == [t \in Tasks |-> IF t = t4 THEN {} ELSE {<<"a">>}]
ApartRepo   == [t \in Tasks |-> IF t = t4 THEN t3 ELSE t]
NoDeps      == [t \in Tasks |-> {}]
(* t2 waits for t1.                                                          *)
SecondOnFirst == [t \in Tasks |-> IF t = t2 THEN {t1} ELSE {}]
(* Dispatches are alike.                                                     *)
Alike       == Permutations(Dispatches)
=============================================================================
