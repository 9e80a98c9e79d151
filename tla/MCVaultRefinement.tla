-------------------------- MODULE MCVaultRefinement --------------------------
(***************************************************************************)
(* One process, three edits, a crash and a power loss: the Vault store as  *)
(* an implementation of DurableVault.                                      *)
(***************************************************************************)
EXTENDS VaultStoreRefinement, TLC

Symmetry == Permutations(Edits)
=============================================================================
