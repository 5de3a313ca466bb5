---------------------------- MODULE MCReplication ----------------------------
(* Replication for TLC: the requests and faults of the runs. *)
EXTENDS Replication

Scenario(ops, breaks, restarts) ==
  [ops |-> ops, breaks |-> breaks, restarts |-> restarts]

\* A connection breaks, or the server restarts, once.
OneFault == {Scenario({"CREATE", "UPDATE", "READ"}, 1, 0),
             Scenario({"CREATE", "UPDATE", "DELETE"}, 0, 1)}

NoFault == {Scenario({"CREATE", "UPDATE"}, 0, 0)}
OneBreak == {Scenario({"CREATE", "UPDATE"}, 1, 0)}
TwoBreaks == {Scenario({"CREATE", "UPDATE"}, 2, 0)}
OneBreakRead == {Scenario({"CREATE", "UPDATE", "READ"}, 1, 0)}
OneRestart == {Scenario({"CREATE", "UPDATE"}, 0, 1)}
=============================================================================
