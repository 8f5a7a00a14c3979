---------------------------- MODULE MCPolicyLoop ----------------------------
(* Small instances of PolicyLoop for TLC. *)
EXTENDS PolicyLoop, TLC

\* Transactions and requests are treated alike; symmetry is used for safety only.
Symmetry == Permutations(Txs) \cup Permutations(Reqs)
=============================================================================
