----------------------- MODULE CredentialTransaction -----------------------
(***************************************************************************)
(* Saved-host operations that change the Vault graph and OS keyring        *)
(* accounts together, and their crash recovery (src-tauri/src/lib.rs,      *)
(* password_identity_transaction.rs, proxy_profile_transaction.rs,         *)
(* group_config_transaction.rs).                                           *)
(*                                                                         *)
(* Three stores change one after the other: the journal (ImportJournal),   *)
(* the keyring (target and backup accounts) and the Vault.  The Vault is   *)
(* used through the promise of DurableVault: a current graph and the set   *)
(* of graphs a power loss may leave instead.  The keyring is external; an  *)
(* operation on it that fails may or may not have taken effect.            *)
(*                                                                         *)
(* Each operation holds the process mutex and the cross-process file lock  *)
(* to its end and recovers a pending transaction first, so operations do   *)
(* not overlap; a crash releases the locks between any two steps.          *)
(***************************************************************************)
EXTENDS ImportJournal, FiniteSets

CONSTANTS
    Secrets,            \* secret values
    NoSecret,           \* an absent keyring entry
    Kinds,              \* flows in use: subset of {"identity", "host", "import"}
    MaxGraph,           \* bound: graphs ever planned
    Budgets,            \* bounds: the faults of a behaviour stay within one of these
    Reordered           \* TRUE: a power loss may keep a directory change and lose an older one

ASSUME NoSecretAssumption == NoSecret \notin Secrets
ASSUME GraphsAssumption == MaxGraph \in Nat /\ Graphs = 0..MaxGraph
ASSUME ReorderedAssumption == Reordered \in BOOLEAN
ASSUME KindsAssumption == Kinds \subseteq {"identity", "host", "import"}

Faults == {"crash", "powerLoss", "keyring", "vaultSync", "journal", "damage"}
ASSUME FaultsAssumption == Budgets \subseteq [Faults -> Nat]

Accounts == [Owners -> Secrets \cup {NoSecret}]
EmptyAccounts == [o \in Owners |-> NoSecret]

VARIABLES
    vault,      \* the current Vault graph
    vaultRisk,  \* the graphs a power loss may leave, vault among them
    blobs,      \* the graphs whose managed secret blobs are durably published
    target,     \* the keyring accounts of the owners
    backup,     \* the transaction's own backup accounts
    slot,       \* the journal slot files as programs see them
    slotRisk,   \* the slot files a power loss may leave, slot among them
    handle,     \* the envelope of the running operation's journal handle
    pc,         \* the step of the running operation, or "idle"
    mode,       \* "start", "forward", or why recovery runs: "fail", "giveUp", "post"
    plan,       \* the planned mutation
    previous,   \* what the running operation found at each target
    todo,       \* owners the current loop has still to visit
    goal,       \* the phase the current publication writes
    then,       \* the step after the current publication
    result,     \* what the last operation told its client
    belongs,    \* belongs[g]: the accounts that belong to graph g (history)
    planned,    \* the number of graphs planned so far
    faults      \* how often each fault has happened

vaultVars == <<vault, vaultRisk, blobs>>
keyring == <<target, backup>>
journal == <<slot, slotRisk>>
control == <<handle, pc, mode, previous, todo, goal, then>>
history == <<belongs, planned>>
vars == <<vault, vaultRisk, blobs, target, backup, slot, slotRisk, handle, pc, mode, plan,
          previous, todo, goal, then, result, belongs, planned, faults>>

NoPlan == [kind |-> "none", owners |-> {}, value |-> EmptyAccounts, blobs |-> FALSE,
           before |-> 0, after |-> 0]

Init ==
    /\ vault = 0 /\ vaultRisk = {0} /\ blobs = {0}
    /\ target \in Accounts /\ backup = EmptyAccounts
    /\ slot = [s \in Slots |-> Missing]
    /\ slotRisk = {slot}
    /\ handle = Missing /\ pc = "idle" /\ mode = "start" /\ plan = NoPlan
    /\ previous = NothingRecorded /\ todo = {} /\ goal = "Preparing" /\ then = "idle"
    /\ result = "none"
    /\ belongs = [g \in Graphs |-> target] /\ planned = 0
    /\ faults = [f \in Faults |-> 0]

Fault(f) ==
    /\ faults' = [faults EXCEPT ![f] = @ + 1]
    /\ \E b \in Budgets : \A g \in Faults : faults'[g] <= b[g]

----------------------------------------------------------------------------
(* Control: how an operation ends, and where a failed step leads.          *)

\* The operation returns r: its locals are gone.
Return(r) ==
    /\ pc' = "idle"
    /\ result' = r
    /\ handle' = Missing /\ mode' = "start" /\ previous' = NothingRecorded
    /\ todo' = {} /\ goal' = "Preparing" /\ then' = "idle"

Goto(step) ==
    /\ pc' = step
    /\ UNCHANGED <<handle, mode, previous, todo, goal, then, result>>

\* Enter a loop over the owners e.
Loop(step, e) ==
    /\ pc' = step
    /\ todo' = e
    /\ UNCHANGED <<handle, mode, previous, goal, then, result>>

\* Recovery starts from what the stores hold, not from the operation's locals.
Recover(why) ==
    /\ pc' = "recover"
    /\ mode' = why
    /\ handle' = Missing /\ previous' = NothingRecorded
    /\ todo' = {} /\ goal' = "Preparing" /\ then' = "idle"
    /\ UNCHANGED result

\* Mutant: a failure after the Vault commit is reported like one before it.
FailAsUncommitted(committed) ==
    IF mode # "forward" THEN Return("repair") ELSE Recover("fail")

\* A step failed.  Inside recovery the operation ends with a repair error.
\* Going forward, fail_before_journal, fail_after_journal, recover_post_commit,
\* recover_saved_host_credential_transaction or legacy_import_failure_with_recovery
\* runs recovery; the import reports a failure after its Vault commit, or in
\* begin, without recovering.
Fail(committed) ==
    IF mode # "forward" THEN Return("repair")
    ELSE CASE plan.kind = "import" -> IF committed THEN Return("repair") ELSE Recover("fail")
           [] plan.kind = "host" -> Recover("post")
           [] plan.kind = "identity" -> Recover(IF committed THEN "post" ELSE "fail")

FailBegin ==
    CASE plan.kind = "import" -> Return("repair")
      [] plan.kind = "host" -> Recover("giveUp")
      [] plan.kind = "identity" -> Recover("fail")

\* recover_pending_legacy_import returned Ok.
Recovered ==
    CASE mode = "start" -> Goto("body")
      [] mode = "fail" -> Return("error")
      [] mode = "giveUp" -> Return("repair")
      [] mode = "post" -> Goto("recheck")

----------------------------------------------------------------------------
(* Journal publication: write_slot removes the slot file, renames the      *)
(* synced temporary file over its name and syncs the directory.            *)

SetSlot(s, v) ==
    /\ slot' = [slot EXCEPT ![s] = v]
    /\ slotRisk' = slotRisk \cup
            IF Reordered THEN {[r EXCEPT ![s] = v] : r \in slotRisk} ELSE {slot'}

\* publish_next: refuse unless the handle is what the slots say, then write
\* the next generation to the other slot.
PublishNext(phase, prev, step) ==
    IF LoadEnvelope(slot) = handle
    THEN /\ handle' = [handle EXCEPT !.generation = @ + 1, !.phase = phase, !.previous = prev]
         /\ pc' = "remove"
         /\ goal' = phase
         /\ then' = step
         /\ UNCHANGED <<mode, previous, todo, result>>
    ELSE Fail(goal = "VaultDurable")

FailPublication ==
    IF goal = "Preparing" THEN FailBegin ELSE Fail(goal = "VaultDurable")

\* A step of write_slot fails: publish_next returns an error.
FailedPublication ==
    /\ Fault("journal")
    /\ FailPublication
    /\ UNCHANGED journal

RemoveOldSlot ==
    /\ pc = "remove"
    /\ \/ SetSlot(SlotFor(handle.generation), Missing) /\ Goto("rename") /\ UNCHANGED faults
       \/ FailedPublication
    /\ UNCHANGED <<vaultVars, keyring, plan, history>>

RenameTemp ==
    /\ pc = "rename"
    /\ \/ SetSlot(SlotFor(handle.generation), handle) /\ Goto("sync") /\ UNCHANGED faults
       \/ FailedPublication
    /\ UNCHANGED <<vaultVars, keyring, plan, history>>

SyncJournal ==
    /\ slot' = slot
    /\ slotRisk' = {slot}

\* Mutant: a failed directory sync goes unnoticed.
SyncSlotIgnored ==
    /\ pc = "sync"
    /\ \/ SyncJournal /\ UNCHANGED faults
       \/ Fault("journal") /\ UNCHANGED journal
    /\ IF then \in {"backup", "mutate", "cleanup"} THEN Loop(then, handle.entries) ELSE Goto(then)
    /\ UNCHANGED <<vaultVars, keyring, plan, history>>

SyncSlot ==
    /\ pc = "sync"
    /\ \/ /\ SyncJournal
          /\ IF slot[SlotFor(handle.generation)] # handle THEN FailPublication
             ELSE IF then \in {"backup", "mutate", "cleanup"} THEN Loop(then, handle.entries)
             ELSE Goto(then)
          /\ UNCHANGED faults
       \/ FailedPublication
    /\ UNCHANGED <<vaultVars, keyring, plan, history>>

----------------------------------------------------------------------------
(* The forward path.                                                       *)

\* run_saved_host_operation: recovery comes before the operation itself.
StartOperation ==
    /\ pc = "idle"
    /\ pc' = "recover"
    /\ mode' = "start"
    /\ result' = "none"
    /\ plan' = NoPlan
    /\ UNCHANGED <<vaultVars, keyring, journal, handle, previous, todo, goal, then,
                   history, faults>>

\* An operation that changes nothing here: a read, a connection, a rejection.
OperationOnly ==
    /\ pc = "body"
    /\ Return("none")
    /\ UNCHANGED <<vaultVars, keyring, journal, plan, history, faults>>

\* What a sync of the Vault directories leaves.
VaultConfirmed == vaultRisk' = {vault} /\ UNCHANGED <<vault, blobs>>

\* A commit of graph g is published; a failed directory sync leaves the graphs
\* before it at risk.
VaultPublished(g) ==
    /\ vault' = g
    /\ blobs' = blobs
    /\ \/ vaultRisk' = {g} /\ UNCHANGED faults
       \/ vaultRisk' = vaultRisk \cup {g} /\ Fault("vaultSync")

\* Commits that touch no keyring account (port forwards, notes, catalogs):
\* Durable, or an error with the publication left unconfirmed.
PlainCommit ==
    /\ pc = "body"
    /\ planned < MaxGraph
    /\ planned' = planned + 1
    /\ belongs' = [belongs EXCEPT ![planned + 1] = belongs[vault]]
    /\ blobs' = blobs \cup {planned + 1}
    /\ vault' = planned + 1
    /\ \/ vaultRisk' = {planned + 1} /\ UNCHANGED faults
       \/ vaultRisk' = vaultRisk \cup {planned + 1} /\ Fault("vaultSync")
    /\ Return("none")
    /\ UNCHANGED <<keyring, journal, plan>>

\* Mutant: no flow confirms the graph it starts from.
UnconfirmedBase(kind) == vaultRisk

\* The graphs a power loss may leave when a flow has read its base graph: every
\* flow but the import confirms first (confirm_current_snapshot_durability).
PlanningBase(kind) == IF kind = "import" THEN vaultRisk ELSE {vault}

\* A mutation of graph and accounts.  begin writes generation 1 to slot A.
Begin(kind, owners, value, needsBlobs) ==
    LET next == planned + 1
    IN  /\ pc = "body"
        /\ planned < MaxGraph
        /\ needsBlobs => kind = "import"
        /\ owners # {} \/ needsBlobs
        /\ vault' = vault
        /\ vaultRisk' = PlanningBase(kind)
        /\ blobs' = IF needsBlobs THEN blobs ELSE blobs \cup {next}
        /\ planned' = next
        /\ belongs' = [belongs EXCEPT ![next] =
                [o \in Owners |-> IF o \in owners THEN value[o] ELSE belongs[vault][o]]]
        /\ plan' = [kind |-> kind, owners |-> owners, value |-> value, blobs |-> needsBlobs,
                    before |-> vault, after |-> next]
        /\ handle' = [state |-> "valid", tx |-> next, generation |-> 1, phase |-> "Preparing",
                      blobs |-> needsBlobs, before |-> vault, after |-> next,
                      entries |-> owners, previous |-> NothingRecorded, kind |-> kind]
        /\ mode' = "forward"
        /\ pc' = "remove"
        /\ goal' = "Preparing"
        /\ then' = "backup"
        /\ previous' = NothingRecorded
        /\ UNCHANGED <<keyring, journal, todo, result, faults>>

\* Resolve the target account and copy its value to the backup account.
BackUp(o) ==
    /\ pc = "backup"
    /\ o \in todo
    /\ \/ /\ backup' = [backup EXCEPT ![o] = target[o]]
          /\ previous' = [previous EXCEPT ![o] =
                IF target[o] = NoSecret THEN "Absent" ELSE "BackedUp"]
          /\ todo' = todo \ {o}
          /\ UNCHANGED <<handle, pc, mode, goal, then, result, faults>>
       \/ /\ backup' \in {backup, [backup EXCEPT ![o] = target[o]]}
          /\ Fault("keyring")
          /\ Fail(FALSE)
    /\ UNCHANGED <<vaultVars, target, journal, plan, history>>

BackedUp ==
    /\ pc = "backup"
    /\ todo = {}
    /\ Goto(IF plan.blobs THEN "publishBlobs" ELSE "activate")
    /\ UNCHANGED <<vaultVars, keyring, journal, plan, history, faults>>

\* Mutant: blobs are recorded as durable before they are published.
BlobsMarkedOnly ==
    /\ pc = "publishBlobs"
    /\ pc' = "mark"
    /\ goal' = "BlobsDurable"
    /\ UNCHANGED <<vaultVars, keyring, journal, plan, history, faults,
                   handle, mode, previous, todo, then, result>>

\* SecretStoreTransactionLease::publish, then mark_blobs_durable.
PublishBlobs ==
    /\ pc = "publishBlobs"
    /\ \/ /\ blobs' = blobs \cup {plan.after}
          /\ pc' = "mark"
          /\ goal' = "BlobsDurable"
          /\ UNCHANGED <<handle, mode, previous, todo, then, result, faults>>
       \/ /\ blobs' = blobs
          /\ Fault("vaultSync")
          /\ Fail(FALSE)
    /\ UNCHANGED <<vault, vaultRisk, keyring, journal, plan, history>>

\* activate_for_owners: the complete previous-state map, written to both slots.
ActivationSource == IF handle.blobs THEN "BlobsDurable" ELSE "Preparing"
\* Mutant: Active is published to one slot only.
ActivateOnce ==
    /\ pc = "activate"
    /\ PublishNext("Active", previous, "mutate")
    /\ UNCHANGED <<vaultVars, keyring, journal, plan, history, faults>>

Activate ==
    /\ pc \in {"activate", "activateAgain"}
    /\ IF pc = "activate" /\ \/ handle.phase # ActivationSource
                             \/ handle.blobs /\ ~BothSlotsSay(slot, handle, "BlobsDurable")
       THEN Fail(FALSE)
       ELSE PublishNext("Active", previous, IF pc = "activate" THEN "activateAgain" ELSE "mutate")
    /\ UNCHANGED <<vaultVars, keyring, journal, plan, history, faults>>

\* Delete or overwrite a target account.
Mutate(o) ==
    /\ pc = "mutate"
    /\ o \in todo
    /\ \/ /\ target' = [target EXCEPT ![o] = plan.value[o]]
          /\ todo' = todo \ {o}
          /\ UNCHANGED <<handle, pc, mode, previous, goal, then, result, faults>>
       \/ /\ target' \in {target, [target EXCEPT ![o] = plan.value[o]]}
          /\ Fault("keyring")
          /\ Fail(FALSE)
    /\ UNCHANGED <<vaultVars, backup, journal, plan, history>>

\* commit_planned_graph_replacement: an error means nothing was published.
CommitVault ==
    /\ pc = "mutate"
    /\ todo = {}
    /\ \/ VaultPublished(plan.after) /\ Goto("confirm")
       \/ UNCHANGED vaultVars /\ Fault("vaultSync") /\ Fail(FALSE)
    /\ UNCHANGED <<keyring, journal, plan, history>>

\* confirm_exact_..._commit: the exact after graph, made directory-durable.
ConfirmCommit ==
    /\ pc = "confirm"
    /\ \/ /\ vault = plan.after
          /\ VaultConfirmed
          /\ pc' = "mark"
          /\ goal' = "VaultDurable"
          /\ UNCHANGED <<handle, mode, previous, todo, then, result, faults>>
       \/ UNCHANGED vaultVars /\ Fault("vaultSync") /\ Fail(TRUE)
    /\ UNCHANGED <<keyring, journal, plan, history>>

----------------------------------------------------------------------------
(* Steps the forward path and recovery share.                              *)

\* mark_blobs_durable, mark_rollback_targets_restored, mark_vault_durable:
\* publish until both slots carry the phase.

\* Mutant: a retry after an interrupted mark is refused.
MarkSourceOnce == IF goal = "BlobsDurable" THEN {"Preparing"} ELSE {"Active"}

MarkSource == IF goal = "BlobsDurable" THEN {"Preparing", goal} ELSE {"Active", goal}
AfterMark == IF goal = "BlobsDurable" THEN "activate" ELSE "cleanup"
Marked == IF goal = "BlobsDurable" THEN Goto("activate") ELSE Loop("cleanup", handle.entries)

\* Mutant: the terminal phase is published to one slot only.
MarkOneSlot ==
    /\ pc = "mark"
    /\ IF BothSlotsSay(slot, handle, goal) THEN Marked
       ELSE IF handle.phase \notin MarkSource THEN Fail(goal = "VaultDurable")
       ELSE PublishNext(goal, handle.previous, AfterMark)
    /\ UNCHANGED <<vaultVars, keyring, journal, plan, history, faults>>

Mark ==
    /\ pc \in {"mark", "markAgain"}
    /\ IF BothSlotsSay(slot, handle, goal) THEN Marked
       ELSE IF pc = "mark" /\ handle.phase \notin MarkSource THEN Fail(goal = "VaultDurable")
       ELSE PublishNext(goal, handle.previous, IF pc = "mark" THEN "markAgain" ELSE AfterMark)
    /\ UNCHANGED <<vaultVars, keyring, journal, plan, history, faults>>

\* Mutant: a failed deletion of a backup account goes unnoticed.
CleanUpIgnored(o) ==
    /\ pc = "cleanup"
    /\ o \in todo
    /\ \/ backup' = [backup EXCEPT ![o] = NoSecret] /\ UNCHANGED faults
       \/ backup' = backup /\ Fault("keyring")
    /\ todo' = todo \ {o}
    /\ UNCHANGED <<vaultVars, target, journal, plan, history,
                   handle, pc, mode, previous, goal, then, result>>

\* cleanup_legacy_import_backups
CleanUp(o) ==
    /\ pc = "cleanup"
    /\ o \in todo
    /\ \/ /\ backup' = [backup EXCEPT ![o] = NoSecret]
          /\ todo' = todo \ {o}
          /\ UNCHANGED <<handle, pc, mode, previous, goal, then, result, faults>>
       \/ /\ backup' \in {backup, [backup EXCEPT ![o] = NoSecret]}
          /\ Fault("keyring")
          /\ Fail(TRUE)
    /\ UNCHANGED <<vaultVars, target, journal, plan, history>>

CleanedUp ==
    /\ pc = "cleanup"
    /\ todo = {}
    /\ IF LoadEnvelope(slot) = handle THEN Goto("removeOlder") ELSE Fail(TRUE)
    /\ UNCHANGED <<vaultVars, keyring, journal, plan, history, faults>>

\* finish: the older slot and a sync, then the latest slot and a sync.
RemoveSlot ==
    /\ \/ /\ pc = "removeOlder"
          /\ SetSlot(OtherSlot(SlotFor(handle.generation)), Missing)
          /\ Goto("syncOlder")
          /\ UNCHANGED faults
       \/ /\ pc = "removeLatest"
          /\ SetSlot(SlotFor(handle.generation), Missing)
          /\ Goto("syncLatest")
          /\ UNCHANGED faults
       \/ /\ pc \in {"removeOlder", "removeLatest"}
          /\ Fault("journal")
          /\ Fail(TRUE)
          /\ UNCHANGED journal
    /\ UNCHANGED <<vaultVars, keyring, plan, history>>

Finished == IF mode = "forward" THEN Return("ok") ELSE Recovered
SyncRemoval ==
    /\ pc \in {"syncOlder", "syncLatest"}
    /\ \/ /\ SyncJournal
          /\ IF pc = "syncOlder" THEN Goto("removeLatest") ELSE Finished
          /\ UNCHANGED faults
       \/ /\ Fault("journal")
          /\ Fail(TRUE)
          /\ UNCHANGED journal
    /\ UNCHANGED <<vaultVars, keyring, plan, history>>

----------------------------------------------------------------------------
(* recover_pending_legacy_import.                                          *)

\* Continue with the loaded envelope e: mark phase, or enter a loop.
ResumeMark(e, phase) ==
    /\ handle' = e
    /\ pc' = "mark"
    /\ goal' = phase
    /\ UNCHANGED <<mode, previous, todo, then, result>>
ResumeLoop(e, step) ==
    /\ handle' = e
    /\ pc' = step
    /\ todo' = e.entries
    /\ goal' = e.phase
    /\ UNCHANGED <<mode, previous, then, result>>

\* Mutant: an uncommitted Active transaction is dropped like a Preparing one.
DecideWithoutRollback(e) ==
    IF vault = e.after THEN ResumeMark(e, "VaultDurable")
    ELSE IF vault = e.before THEN ResumeLoop(e, "cleanup")
    ELSE Return("repair")

\* An Active transaction is decided by the durable Vault graph.
DecideActive(e) ==
    IF vault = e.after
    THEN IF e.blobs /\ vault \notin blobs THEN Return("repair") ELSE ResumeMark(e, "VaultDurable")
    ELSE IF vault = e.before /\ \A o \in e.entries : e.previous[o] # "Unknown"
    THEN ResumeLoop(e, "rollback")
    ELSE Return("repair")

RecoverPending ==
    LET e == LoadEnvelope(slot)
    IN  /\ pc = "recover"
        /\ CASE e = Missing -> Recovered /\ UNCHANGED <<vaultVars, faults>>
             [] e = Corrupt -> Return("repair") /\ UNCHANGED <<vaultVars, faults>>
             [] e.state = "valid" /\ e.phase = "Preparing" ->
                    ResumeLoop(e, "cleanup") /\ UNCHANGED <<vaultVars, faults>>
             [] e.state = "valid" /\ e.phase \in {"RollbackTargetsRestored", "VaultDurable"} ->
                    ResumeMark(e, e.phase) /\ UNCHANGED <<vaultVars, faults>>
             [] e.state = "valid" /\ e.phase \in {"BlobsDurable", "Active"} ->
                    \/ /\ VaultConfirmed
                       /\ IF e.phase = "Active" THEN DecideActive(e)
                          ELSE IF vault = e.before THEN ResumeLoop(e, "cleanup")
                          ELSE Return("repair")
                       /\ UNCHANGED faults
                    \/ Fault("vaultSync") /\ Return("repair") /\ UNCHANGED vaultVars
        /\ UNCHANGED <<keyring, journal, plan, history>>

\* rollback_active_legacy_import: put the previous value back, or delete.
RollBack(o) ==
    LET restored == [target EXCEPT ![o] =
                IF handle.previous[o] = "Absent" THEN NoSecret ELSE backup[o]]
    IN  /\ pc = "rollback"
        /\ o \in todo
        /\ IF handle.previous[o] = "BackedUp" /\ backup[o] = NoSecret
           THEN Return("repair") /\ UNCHANGED <<target, faults>>
           ELSE \/ /\ target' = restored
                   /\ todo' = todo \ {o}
                   /\ UNCHANGED <<handle, pc, mode, previous, goal, then, result, faults>>
                \/ /\ target' \in {target, restored}
                   /\ Fault("keyring")
                   /\ Return("repair")
        /\ UNCHANGED <<vaultVars, backup, journal, plan, history>>

\* Mutant: the first restored account ends the rollback.
RolledBackEarly ==
    /\ pc = "rollback"
    /\ todo # handle.entries
    /\ pc' = "mark"
    /\ goal' = "RollbackTargetsRestored"
    /\ UNCHANGED <<vaultVars, keyring, journal, handle, mode, plan, previous, todo, then,
                   result, history, faults>>

RolledBack ==
    /\ pc = "rollback"
    /\ todo = {}
    /\ pc' = "mark"
    /\ goal' = "RollbackTargetsRestored"
    /\ UNCHANGED <<vaultVars, keyring, journal, handle, mode, plan, previous, todo, then,
                   result, history, faults>>

\* recover_post_commit after a successful recovery: the durable graph decides
\* what the client is told.
Recheck ==
    /\ pc = "recheck"
    /\ \/ /\ VaultConfirmed
          /\ Return(IF vault = plan.after THEN "ok"
                    ELSE IF vault = plan.before THEN "error" ELSE "repair")
          /\ UNCHANGED faults
       \/ Fault("vaultSync") /\ Return("repair") /\ UNCHANGED vaultVars
    /\ UNCHANGED <<keyring, journal, plan, history>>

----------------------------------------------------------------------------
(* Faults.                                                                 *)

\* The process dies; what it wrote stays visible.
Crash ==
    /\ pc # "idle"
    /\ Fault("crash")
    /\ Return("none")
    /\ UNCHANGED <<vaultVars, keyring, journal, plan, history>>

\* Unsynced journal and Vault changes may be lost; the keyring keeps its own.
PowerLoss ==
    /\ Fault("powerLoss")
    /\ vault' \in vaultRisk
    /\ vaultRisk' = {vault'}
    /\ slot' \in slotRisk
    /\ slotRisk' = {slot'}
    /\ Return(result)
    /\ UNCHANGED <<blobs, keyring, plan, history>>

\* A slot file becomes unreadable.
DamageSlot(s) ==
    /\ slot[s].state = "valid"
    /\ Fault("damage")
    /\ slot' = [slot EXCEPT ![s] = Corrupt]
    /\ slotRisk' = {[r EXCEPT ![s] = IF @ = slot[s] THEN Corrupt ELSE @] : r \in slotRisk}
    /\ UNCHANGED <<vaultVars, keyring, control, plan, result, history>>

Forward ==
    \/ PlainCommit
    \/ \E kind \in Kinds, owners \in SUBSET Owners, needsBlobs \in BOOLEAN :
          \E value \in Accounts :
             /\ \A o \in Owners \ owners : value[o] = NoSecret
             /\ Begin(kind, owners, value, needsBlobs)

Step ==
    \/ StartOperation
    \/ OperationOnly
    \/ RemoveOldSlot
    \/ RenameTemp
    \/ SyncSlot
    \/ \E o \in Owners : BackUp(o)
    \/ BackedUp
    \/ PublishBlobs
    \/ Activate
    \/ \E o \in Owners : Mutate(o)
    \/ CommitVault
    \/ ConfirmCommit
    \/ Mark
    \/ \E o \in Owners : CleanUp(o)
    \/ CleanedUp
    \/ RemoveSlot
    \/ SyncRemoval
    \/ RecoverPending
    \/ \E o \in Owners : RollBack(o)
    \/ RolledBack
    \/ Recheck

Next ==
    \/ Forward
    \/ Step
    \/ Crash
    \/ PowerLoss
    \/ \E s \in Slots : DamageSlot(s)

Spec == Init /\ [][Next]_vars

----------------------------------------------------------------------------
(* Properties.                                                             *)

\* Every variable has its type, and a loop over accounts visits only accounts
\* that the journalled transaction names.
TypeOK ==
    /\ vault \in Graphs /\ vaultRisk \subseteq Graphs /\ blobs \subseteq Graphs
    /\ target \in Accounts /\ backup \in Accounts
    /\ slot \in [Slots -> SlotValues] /\ slotRisk \subseteq [Slots -> SlotValues]
    /\ handle \in SlotValues
    /\ pc \in {"idle", "recover", "body", "remove", "rename", "sync", "backup", "publishBlobs",
               "activate", "activateAgain", "mutate", "confirm", "mark", "markAgain", "cleanup",
               "removeOlder", "syncOlder", "removeLatest", "syncLatest", "rollback", "recheck"}
    /\ mode \in {"start", "forward", "fail", "giveUp", "post"}
    /\ plan.owners \subseteq Owners /\ plan.value \in Accounts
    /\ previous \in [Owners -> PreviousStates]
    /\ goal \in Phases
    /\ pc \in {"backup", "mutate", "cleanup", "rollback"} =>
          handle.state = "valid" /\ todo \subseteq handle.entries
    /\ result \in {"none", "ok", "error", "repair"}
    /\ belongs \in [Graphs -> Accounts] /\ planned \in Graphs
    /\ faults \in [Faults -> Nat]

NoTransaction == LoadEnvelope(slot) = Missing
AtRest == NoTransaction /\ pc \in {"idle", "body"}

\* The stores agree whenever an operation may use them: with no transaction
\* pending, the keyring holds exactly the accounts of the current graph, and
\* of every graph a power loss may still make current.
StoresAgree == AtRest => \A g \in vaultRisk : target = belongs[g]

\* No backup account outlives its transaction: finish removes the journal,
\* the only record of the backup accounts, after cleanup_legacy_import_backups
\* has deleted every one of them, whatever interrupted it before.
NoOrphanBackup == AtRest => backup = EmptyAccounts

\* The last copy of a secret is never overwritten: whichever graph may be
\* current, each of its secrets is in its account or in the backup account.
NoSecretDestroyed ==
    \A g \in vaultRisk, o \in Owners :
        belongs[g][o] = NoSecret \/ belongs[g][o] \in {target[o], backup[o]}

\* A client is told the truth: "ok" means the new graph is durable, "error"
\* that it is not and cannot become current.  Only a repair error leaves the
\* outcome open.
ResultTruthful ==
    pc = "idle" =>
        /\ result = "ok" => vaultRisk = {plan.after}
        /\ result = "error" => plan.after \notin vaultRisk

\* A graph that a load or a power loss may make current has its managed secret
\* blobs: commit_legacy_vault_document publishes them and marks them durable
\* before its Vault commit.
GraphHasBlobs == vaultRisk \subseteq blobs

\* Recovery is never at a loss on its own account: without an unreadable slot,
\* the slots give an answer whatever journal calls have failed, and an undecided
\* transaction finds its before or its after graph, if it was begun by a flow
\* that confirmed its before graph first.
RecoveryDecides ==
    LET e == LoadEnvelope(slot)
    IN  faults["damage"] = 0 =>
            /\ e # Corrupt
            /\ e.state = "valid" /\ e.phase = "Active" /\ e.kind # "import"
                  => vaultRisk \subseteq {e.before, e.after}

\* "Do not let callers delete backup accounts until both slots can prove that
\* all rollback targets were restored": as long as an Active envelope, found
\* with one slot unreadable too, may order a rollback, its recorded previous
\* states and the backup accounts are those of the before graph.
RollbackIsExact ==
    LET e == LoadEnvelope(slot)
    IN  e.state = "valid" /\ e.phase = "Active" /\ e.before \in vaultRisk =>
            \A o \in e.entries :
                belongs[e.before][o] =
                    IF e.previous[o] = "BackedUp" THEN backup[o] ELSE NoSecret

\* "Vault must still be the exact planned before graph": the comment on the
\* BlobsDurable phase in recover_pending_legacy_import.
PlannedBeforeGraph ==
    LET e == LoadEnvelope(slot)
    IN  e.state = "valid" /\ e.phase = "BlobsDurable" => vault = e.before
=============================================================================
