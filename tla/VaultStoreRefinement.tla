------------------------ MODULE VaultStoreRefinement ------------------------
(***************************************************************************)
(* The A/B snapshot store implements DurableVault: its current graph is    *)
(* the one a load selects, and the graphs at risk are the ones a load      *)
(* would select after each outcome of a power loss.                        *)
(***************************************************************************)
EXTENDS VaultStore

AtRisk ==
    {LoadLocked([s \in Slots |-> IF s = "A" THEN a ELSE b]).edits :
        a \in Outcomes(vis["A"], dur["A"]), b \in Outcomes(vis["B"], dur["B"])}

Promise == INSTANCE DurableVault WITH graph <- Loaded.edits, risk <- AtRisk

\* Every behaviour of the store, with its crashes, failed syncs and power
\* losses, is one of DurableVault under this mapping.
ImplementsDurableVault == Promise!VSpec
=============================================================================
