---------------------------- MODULE MCVaultStore ----------------------------
(* Model checking instance of VaultStore: processes and edits are            *)
(* interchangeable, so states are explored up to their permutation.          *)
EXTENDS VaultStoreInvariant, TLC

Symmetry == Permutations(Procs) \cup Permutations(Edits)
=============================================================================
