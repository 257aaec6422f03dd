------------------------------ MODULE MCKVStore ------------------------------
(* Small instances of KVStore for TLC. *)
EXTENDS KVStoreProps, TLC

CONSTANTS k1, k2, v1, v2, s1, s2, t1, t2

AllSelectors == {"causal", "linear", "k_causal"}
OnlyCausal == {"causal"}

\* No action or property distinguishes keys, values, sessions or threads.
Symmetry == Permutations(Keys) \cup Permutations(Values)
              \cup Permutations(Sessions) \cup Permutations(Threads)
=============================================================================
