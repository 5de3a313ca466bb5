---------------------------- MODULE MCLockManager ----------------------------
(* LockManager for TLC. *)
EXTENDS LockManager, TLC

\* Clients and pool threads are interchangeable.
Symmetry == Permutations(Clients) \cup Permutations(Workers)
=============================================================================
