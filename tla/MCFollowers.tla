----------------------------- MODULE MCFollowers -----------------------------
(* Followers for TLC: the scenarios of the runs. *)
EXTENDS Followers

Scenario(k, writes, conns, faults) ==
  [kind |-> k, writes |-> writes, conns |-> conns, faults |-> faults]

\* Two writes while the follower connects, and one write while it leaves, is
\* lost or comes back.
Either == {Scenario(k, 2, 1, 0) : k \in {"CLIENT", "STANDBY"}}
            \cup {Scenario(k, 1, 2, 1) : k \in {"CLIENT", "STANDBY"}}

Standby == {Scenario("STANDBY", 1, 1, 0)}
Client == {Scenario("CLIENT", 1, 1, 0)}
LostClient == {Scenario("CLIENT", 0, 1, 1)}
LeavingClient == {Scenario("CLIENT", 1, 1, 1)}
=============================================================================
