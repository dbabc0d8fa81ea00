----------------------------- MODULE MCRunLoop -----------------------------
EXTENDS RunLoop

(* Limits of one run, its connection, and what its code and its host do. *)
Run(wall, grace, session, conn, ops, fuel, does) ==
  [wall |-> wall, grace |-> grace, session |-> session, conn |-> conn, ops |-> ops,
   fuel |-> fuel, host |-> does]

Unused == Run(0, 0, FALSE, 1, {}, 0, {})

SharedTimers == [mode |-> "instance", source |-> TRUE, call |-> TRUE, horizon |-> 1, delays |-> {1},
                 runs |-> <<Run(2, 0, TRUE, 1, {"timer"}, 2, {}),
                           Run(0, 0, TRUE, 2, {"call"}, 1, {"value"})>>]

(* Two connections: the runs' calls get the same id. *)
SharedCalls == [mode |-> "instance", source |-> TRUE, call |-> TRUE, horizon |-> 1, delays |-> {},
                runs |-> <<Run(0, 0, TRUE, 1, {"call"}, 1, {"value"}),
                          Run(0, 0, TRUE, 2, {"call"}, 1, {"value"})>>]

SharedGrace == [mode |-> "instance", source |-> TRUE, call |-> TRUE, horizon |-> 1, delays |-> {1},
                runs |-> <<Run(0, 2, TRUE, 1, {"wait"}, 1, {"kill"}),
                           Run(2, 0, TRUE, 1, {"call", "badcall"}, 1, {"value"})>>]

Alone == [mode |-> "oneoff", source |-> TRUE, call |-> TRUE, horizon |-> 1, delays |-> {1},
          runs |-> <<Run(2, 0, FALSE, 1, {"call", "badcall"}, 3,
                         {"value", "error", "bad"}), Unused>>]

NoSource == [mode |-> "oneoff", source |-> FALSE, call |-> FALSE, horizon |-> 2, delays |-> {0, 1},
             runs |-> <<Run(4, 2, FALSE, 1, {"timer", "wait"}, 3, {}), Unused>>]

AloneGrace == [mode |-> "oneoff", source |-> TRUE, call |-> FALSE, horizon |-> 1, delays |-> {1},
               runs |-> <<Run(2, 2, TRUE, 1, {"wait", "timer", "badcall"}, 2,
                              {"terminate", "lost"}), Unused>>]

MCSetups == {SharedTimers, SharedCalls, SharedGrace, Alone, AloneGrace, NoSource}
=============================================================================
