------------------------- MODULE MCCoderSupervisor -------------------------
(* Instances of CoderSupervisor: a pull request that waits for review, has   *)
(* red checks, is behind its base or in conflict with it, is ready to merge  *)
(* or is closed.                                                             *)
EXTENDS CoderSupervisor

Open == [merged |-> FALSE, closed |-> FALSE, draft |-> FALSE, review |-> "approved",
         checks |-> "success", mergeable |-> "clean"]

MCPrViews == {Open,
              [Open EXCEPT !.review = "review_required"],
              [Open EXCEPT !.checks = "failure"],
              [Open EXCEPT !.mergeable = "behind"],
              [Open EXCEPT !.mergeable = "conflicting"],
              [Open EXCEPT !.closed = TRUE]}
MCUsages  == {[tokens |-> 0, cost |-> 0]}
=============================================================================
