---------------------------- MODULE MCWorkerPool ----------------------------
EXTENDS WorkerPool
(* A subtask that is tried twice; two subtasks one after the other, and at   *)
(* the same time; and one whose worker may change nothing.                   *)
MCPlans == {[rounds |-> <<<<"s1">>, <<"s1">>>>, limit |-> 2],
            [rounds |-> <<<<"s4", "s3">>>>, limit |-> 1],
            [rounds |-> <<<<"s3", "s5">>>>, limit |-> 2],
            [rounds |-> <<<<"s2">>>>, limit |-> 1]}
MCDemands == [s1 |-> {"source", "optional"},
              s2 |-> {"tests", "source", "real"},
              s3 |-> {"source", "optional", "c_test"},
              s4 |-> {"source", "contract", "optional"},
              s5 |-> {"optional", "existing"}]
MCEdits == [s1 |-> {{"source", "destructive"}},
            s2 |-> {{"source", "test"}, {"test"}},
            s3 |-> {{"side"}},
            s4 |-> {{"source", "tokens"}},
            s5 |-> {}]
MCAnswers == {Done({})}
=============================================================================
