# Goral: a verification project

TLA+ models of Goral, what TLC checks of them on small instances, and what TLAPS
proves of them for every value of their constants. Paths below are relative to
the repository root, with its contents under `src/`.

Goral is a Tauri 2 terminal client. React views call typed commands of
`src-tauri`, which validates them, coordinates the stores and delegates protocol
work to the `crates/netcatty-*` crates. The models cover the Rust side: the
stores on disk and in the keyring, the transactions across them, and the
sessions, forwards and file transfers that run beside each other.

## The system and its models

| Part | State it keeps | What is hard about it | Modules |
|---|---|---|---|
| Vault snapshot store (`netcatty-vault/src/store.rs`) | two slot directories of immutable snapshots, a revision token per client | several processes; crash and power loss between file-system steps; failing directory syncs; unreadable files | `VaultStore`, `DurableVault`, `VaultStoreRefinement` |
| Recovery journal (`src-tauri/src/legacy_import_transaction.rs`) | two slot files with an envelope: phase, graphs before and after, previous state of each account | publication in several steps; a damaged slot; directory changes lost by a power loss | `ImportJournal` |
| Credential coordinator (`src-tauri/src/lib.rs` and the three `*_transaction.rs`) | none of its own: journal, keyring and Vault | three stores without a common commit; keyring calls that fail after taking effect | `CredentialTransaction` |
| Managed secret store and SSH keys (`netcatty-secret-store`) | owner file, keyset slots, encrypted objects, rotation manifest and marker | a rotation resumed after a crash; collection against retained snapshots; first initialization | `SecretStore` |
| Staged one-shot secrets (`netcatty-credentials/src/ephemeral.rs`, `managed_key_staging.rs`) | in-memory entries with owner and deadline | a clock that is read before the lock; groups and joined takes; expiry tasks | `StagedSecrets` |
| Host-key and interactive brokers (`netcatty-ssh`) | pending requests, receivers of each window | answers, timers, cancelled connects and destroyed windows race | `PromptBroker` |
| SSH sessions (`netcatty-ssh/src/runtime.rs`) | the session map, shared transports with a counter | leases against the last release; cancellation at every await; a full queue | `SshSession` |
| Port forwarding (`resolved_port_forward.rs`, `port_forward.rs`, commands) | entries, forwards, the catalog's revision | start, stop, edit and watcher of one rule meet on several threads | `PortForward` |
| SFTP transfers (`runtime.rs`, `sftp.rs`, `directory_transfer.rs`) | reservations, two worker slots, plans and checkpoints, staged files and backups | pause, resume and cancel of a family; other programs write the same file; no compare-and-swap | `TransferScheduler`, `SafeUpload`, `LocalDownload` |
| Serial sessions and file transfer (`netcatty-serial`, `serial_ymodem.rs`, `serial_zmodem.rs`) | the owner of the line's bytes, two protocol machines, a staged file | the line is lent and must come back clean; loss, damage and late bytes; cancel against publication | `SerialSession`, `YmodemTransfer`, `ZmodemTransfer`, `ReceivePublish` |
| Telnet (`netcatty-telnet`) | option states, queued commands, the login | offers that cross; writes that a stop or a read interrupts; prompts after the login window | `TelnetCodec`, `TelnetSession` |
| Connection logs (`connection_log_*.rs`, `netcatty-replay-store`) | catalog, captures in memory, replay index and blobs | finalization and its retries against edits, clears and reconciliation | `ConnectionLogs` |

Not modelled: the Vault's record types and their validation (pure functions of
one document), the local PTY, Mosh and Eternal Terminal runtimes (supervision of
external clients), the migration parsers (their commit is the import flow of
`CredentialTransaction`), the AI assistant, settings and windows, the system
manager, and the renderer. `PROJECT.json` gives the reason for each, and for every
modelled part what is left out of it. Byte formats, encodings and texts are
abstracted everywhere; sizes are small numbers. The map covers about a tenth
of the repository's lines, and most of the code with state that outlives a call
or is shared by two tasks.

How the parts meet: a command runs inside `run_saved_host_operation`, which takes
the process mutex and the cross-process file lock, recovers a pending rotation
and a pending journalled transaction, and then runs the operation in a detached
task. The operation reads and commits the Vault with revision tokens, stages undo
information in the journal and in backup keyring accounts, and publishes managed
blobs before a graph that refers to them. Connects resolve staged secrets, ask a
window through the brokers, and start sessions; transfers and forwards run on
the transports of sessions; a session's output is captured for its log. In the
models, `CredentialTransaction` uses the Vault through the state of
`DurableVault`, `TelnetSession` uses `TelnetCodec`, and `CredentialTransaction`
uses `ImportJournal`; the other parts are connected by calls whose outcomes the
caller's model chooses freely.

## From code to model

**VaultStore.** A graph is the set of edits it contains; a client submits the
whole graph it read plus one new edit, so a lost update is a missing edit. `vis`
is what programs see of a slot directory and `dur` what its last successful sync
made durable. After a power loss a slot holds every entry in both views and any
selection of the entries in one of them. File contents are synced before the hard
link, so a snapshot entry that survives is readable; a temporary file may be
torn. Operations hold the store's gate and the file lock from load to return, so
one is in progress (`pc`, `holder`); its steps interleave with the faults, and
whole operations of several processes with each other.

| Code | Action |
|---|---|
| `list` and other reads | `Read` |
| `commit_planned_graph_*`, catalog replacements | `CommitReplacement`, `RejectStale` |
| `create`, `update`, `delete` | `CommitDirect` |
| `commit_locked`, `publish_named_no_overwrite_with_hooks` | `StartCommit`, `CreateTemp`, `SyncTemp`, `PrePublicationFailure`, `Publish`, `SyncPublication`, `RemoveTemp` |
| `cleanup_owned_slot_artifacts` and the return | `ReturnDurable`, `ReturnUncertain` |
| `confirm_current_snapshot_durability` | `ConfirmBegin`, `ConfirmSync`, `ConfirmFail`, `ConfirmReturn` |
| environment | `ProcessCrash`, `PowerLoss`, `Damage` |

**CredentialTransaction.** Graphs are numbered in the order in which they are
planned, and `belongs[g]` records which secrets belong to graph `g`. The flows are
`identity` (password identity, proxy profile and group config have one shape),
`host` and `import`; they differ in what they confirm before planning
(`PlanningBase`), in blob publication, and in what a failure does (`Fail`,
`FailBegin`). The steps are `Begin` (Preparing), `BackUp` per account, for imports
`PublishBlobs` and `Mark` BlobsDurable, `Activate` in both slots, `Mutate` per
account, `CommitVault`, `ConfirmCommit`, `Mark` VaultDurable in both slots,
`CleanUp` per account, and the two removals of `finish`. Each journal write is
three steps, `RemoveOldSlot`, `RenameTemp`, `SyncSlot`. `RecoverPending` with
`DecideActive`, `RollBack` and `RolledBack` is `recover_pending_legacy_import`; it
runs first in every operation and after failures. A power loss chooses among the
slot contents since the last sync: the states the slots went through in order,
or with `Reordered` any mixture of them.

**SecretStore.** The file system is a set of entries, `seen` by programs and
`disk` made durable by directory syncs. A command is the sequence of steps it
still has to take, `todo`, computed under the locks; kills, failing links and
syncs, and power losses come between any two of them.

**StagedSecrets, PromptBroker, SshSession, PortForward.** One action per await,
lock section or atomic operation: the clock is read before the lock is taken,
the decrement of a transport's counter and the swap that disconnects are two
steps, a stop takes an entry off the list, cancels it and disconnects it in three.
A request, session or start is one process; the windows, timers and cancellations
are others. Three places where the order is the point: an answer of a window may be
on its way when the window is destroyed (`late`) and runs before or after the
clean-up, in which `reject_owner` of the two brokers are two steps; a session is put
into the map under the lock (`ShellOk`) and told `Connected` after it
(`TellConnected`), so others may share a transport that was not announced yet, never
the other way round (`ToldIsKnown`); an edit of a rule that leaves its connection alone
stops nothing (`Relabel`) but takes the revision of a start that is at work.

**Transfers.** `TransferScheduler` has one process per file, one for a directory,
one for the worker and one per client request; a request reaches a family of
transfers one control at a time. `SafeUpload` and `LocalDownload` have one step
per call of the remote server or the local file system, with another program that
replaces, writes or removes the target between any two, two versions that may have
equal size and time, and calls that fail. A request to the server that is not answered
within 30 seconds (`sftp.rs:268`) has failed for the caller and may have been carried
out: the renames that acquire the old file, publish the new one and restore the old one
(`AcquireFails`, `PublishFails`, `RecoveryFails`) have both outcomes, as creations and
removals have, and `unheard` records that one of the first two took effect. A download compares sizes and times in
whole seconds: `looks` gives the metadata each version of the remote file shows, two
versions may look alike, and `SourceUnchanged` and the resumption compare looks. Its
clean-up removes three things in order and may stop after any of them (`CleanupStops`).
A cancel of a session collects the transfers in a second step, under the second lock
(`CollectControls`). `SerialSession` is the actor of a line with its callers;
`YmodemTransfer` and `ZmodemTransfer` are both ends of a protocol with their
drivers over a line that loses, damages and delays; `ReceivePublish` is the
blocking job that gives a received file its name while its driver may vanish.

**TelnetSession, ConnectionLogs.** The codec handles a token per step and its
answers belong to the read that caused them, so an interrupted read drops them, as
in the code; the echo a read has changed is told before its text (`TerminalIsTold`
compares each line with the echo the terminal knew when it got it). The logs have a process per session, one for the background
reconciliation and one per command; an operation of the replay store is one step
with every point at which it can fail.

## Runs

Three runs check one component, with the module that the proofs extend:

| Run | Instance | Checked | States |
|---|---|---|---|
| `vault_store` | 2 processes, 3 edits, 3 generations, 1 power loss, 1 damaged snapshot | no acknowledged edit is lost, no failed one appears, no token of another graph is accepted, retention covers what may come back, one damaged snapshot costs one generation; the inductive invariant | 740,131 |
| `vault_refinement` | 1 process, 3 edits, 3 generations, 1 restart, 1 power loss | the store implements `DurableVault` | 126,224 |
| `prompts` | 2 attempts, 2 windows, receivers of 1 message, 3 lists of known hosts | only the owner decides a prompt; of a destroyed window only answers that were on their way count, until its clean-up | 2,163,648 |

Five runs are suites: a behaviour is one of one of several instances, named by
the variable `which`, and each property is a conjunction over the instances. In
`saved_hosts`, `stores`, `sessions` and `transfers` a module with theorems is
extended (`CredentialTransaction`, `StagedSecrets`, `SshSession`, `SafeUpload`):
it keeps its own variables, constants and properties, and rests while another
instance runs, so that the proofs speak of the formulas that the runs check. The
variables `v1`, `v2`, ... stand for those of the chosen instance in the order of
its module and the unused ones keep a dummy value, so the reachable states are
the disjoint union of those of the instances, and a property of the suite fails
exactly if it fails in one of them. `InstancesAreSound` has TLC evaluate the
assumptions of all of them.

| Run | Instances | States |
|---|---|---|
| `saved_hosts` | transactions on 1 account, 2 secrets, 2 planned graphs, all flows, under either a crash, a power loss, a keyring and a Vault error, or a crash, a keyring error and an unreadable journal slot; a port forward with 2 starts of its rule and a stop, 2 starts and an edit (which stops it first), or 1 start, a stop and an edit | 1,616,077 |
| `stores` | transactions on two accounts; on one with directory changes that reach the disk out of order, a power loss and two journal errors; the secret store under power loss, under kills and under a kill that leaves a file half written (2 objects, 2 or 3 epochs, 1 or 2 faults); staged secrets with groups, owners and limits (2 references, windows, commands and secrets, of 1 or 2 bytes, 3 bytes in all); connection logs (3 sessions; 2 with two edits and commits of uncertain durability; 2 with a clear and a crash; 2 with reads; 1 with all of the last) | 1,301,018 |
| `sessions` | 3 SSH sessions, 2 to a transport, queues of 1; four telnet sessions (options that cross, resizes, echo, login) | 1,953,446 |
| `transfers` | four schedules of directory and single transfers; an upload (2 attempts, 2 faults, 2 foreign versions, a source that changes once); a download (3 attempts); three lives of a serial line; YMODEM (4 chunks, 4 faults), ZMODEM (files of 3 and 0 chunks, 3 faults); publication of a received file | 3,104,556 |
| `liveness` | thirteen small instances with fairness, see below | 161,884 |

Four runs find a violation, see the findings: `vault_sync_tolerated` (1 process, 2
edits, syncs that may be tolerated), `credential_import_third_graph` (imports
only), `secret_store_torn` (1 kill) and `replay_dropped` (1 session, 1 clear).

Why the bounds are enough to be interesting: three generations put two snapshots
in one slot, so compaction, the other slot and reuse of a generation number after
a power loss all occur, and the end of the generation counter is met (`MaxGen`
plays the part of `u64::MAX`); two processes give stale tokens. Two planned graphs
give a transaction on top of an unconfirmed commit, or a second one after a
recovered one; two accounts give an interruption between accounts; two journal
errors are needed because every phase that counts is written to both slots. Three
sessions on transports for two meet a full transport and one that is free again.
Two starts meet an old watcher; two stoppers meet one start, and
`TunnelsAreSound` covers any number of each. A window of four chunk numbers with four chunks
wraps around; one fault less than the retry limit lets a transfer recover, as many
let it give up. Staged secrets of two bytes meet the limits on a window's entries
and on bytes; the limit on all entries is out of the instance's reach with two
references, and is proved. A budget of one fault of each kind in one behaviour has a crash
followed by a power loss followed by a failing recovery.

`CHECK_DEADLOCK FALSE` is set where a system comes to rest: a store that cannot
be opened, requests that have all been made, sessions that have ended. In
`vault_refinement` and `saved_hosts`, where a store always has something to do,
the deadlock check is on (the requests for a rule of a forward may all be over, and
a step that changes nothing stands for that). Each property has mutants, plausible mistakes in
the code it is about (they are the operators commented "Mutant" next to
what they change, listed in `PROJECT.json`), that make TLC find it violated.

### Findings

1. On Windows `sync_directory` reports success for a directory flush that the
   platform does not support (`netcatty-vault/src/store.rs:6218`), while `Durable`
   is documented as "the new directory entry was synced" (`store.rs:477`).
   `vault_sync_tolerated` shows a commit reported as durable that a power loss
   removes. The other runs assume that a sync that reports success has synced
   (`SyncTolerated = FALSE`), which is the Unix code.
2. The legacy import plans from a graph whose durability it has not confirmed
   (`src-tauri/src/lib.rs:6405`). After an earlier commit of uncertain durability,
   a power loss in the BlobsDurable phase leaves a graph that is not the before
   graph; the comment at `lib.rs:6322` says it must be
   (`credential_import_third_graph`). Recovery then returns the repair error in
   every later operation. No secret is lost and the stores are not mixed up:
   `saved_hosts` checks that with the import among its flows.
3. A file of the secret store is written in place under a temporary name
   (`netcatty-secret-store/src/file_store.rs:4463`), and nothing removes one that
   a kill has left half written. Whatever looks at the directory refuses it: of
   blobs the resumption of a rotation and the collection (`:3114`), of keysets
   every opening (`:3877`), of manifests the rotation (`:2256`). `:1140` says that a
   rotation "is restart-safe"; `secret_store_torn` shows one that every later start
   refuses. No secret is lost (`NoSecretLost` includes the torn instance), and
   `RestartSafe` holds in it as long as no torn file is there.
4. `clear_unsaved_connection_logs` hands the list it committed to a background
   reconciliation of the replays (`src-tauri/src/lib.rs:2564`), which may run after
   a later session was finalized and then drops that session's replay
   (`connection_log_replay.rs:497`). The comment at `:490` says that it "is safe to
   finish asynchronously"; `replay_dropped` shows the log without its replay.
   `NothingLost` asserts that replays are kept wherever no clear has been
   scheduled: in `logs` and `edits` for every behaviour, in `collection` up to the
   first clear.

Smaller observations, which the models follow and no property contradicts: a stop
that meets a start between its connection and its tunnel relies on the start to
notice (`resolved_port_forward.rs:245`), and a start that adopts its entry while
the stop is half-way keeps a listener over a connection the stop has closed:
`TunnelsSound` says that a later stop reaches it, and `StoppedEnds` that the
connection of a cancelled forward is closed, not that the first stop ended the
listener; an interrupted first initialization of
the secret store is not resumed (`lib.rs:4498`); two requests to go back in one
ZMODEM read leave two chains of reads, which is harmless (`zmodem.rs:1587`); a
serial reservation made after the session ended is not released
(`netcatty-serial/src/runtime.rs:929`); an interrupted telnet read drops the
answers it owed (`netcatty-telnet/src/runtime.rs:742`), and a stop is not seen while a
handler writes (`:725`); a bookmark set during a session is not honoured by the
retention that runs at its end (`lib.rs:9992`).

## Fairness and liveness

`liveness` checks five properties, each a "leads to" over several parts. Its
`FairSpec` has fairness of the steps the code's scheduling guarantees and of
nothing else. Weak: a task that can run does run (Tokio polls ready futures),
connects, writes and SFTP requests end by their time limits, timers fire, blocking
jobs end, a line delivers what it does not lose, the telnet peer keeps reading.
Strong: a `select!` that is polled again and again does not for ever pick another branch than
the cancellation; the transfers' semaphore and the log coordinator's lock are first come, first served; the serial
actor's select is biased towards deadlines and commands. For stores, weak fairness
of the steps of a running operation (a detached task, driven to its end even when
the window goes away) and of the start of another one (the recovery of every
launch and every command). Faults, answers of users and requests of windows have
none; faults are bounded, so that after the last one recovery is undisturbed.
Because a behaviour is one of one instance, a condition on the union of steps of
several instances is a condition on each.

- `StoppedEnds`: what is told to stop ends, in sessions, forwards, directory
  transfers, the serial line, telnet.
- `HeldIsReleased`: transports, list entries, reservations and the line's bytes
  are given back.
- `EveryWaitEnds`: transfers leave the map, detections are decided, both ends
  of a file transfer end, the driver of a received file is answered.
- `RecoveryEnds`: a pending transaction and a pending rotation are resolved.
- `NothingStays`: prompts end though nobody answers, staged secrets expire though
  nobody calls, captured output is released.

## Proofs

Eight modules hold theorems. Each extends its component's module and proves
`Spec => []P` from an inductive invariant, for every value of the constants that
satisfies the component's named assumptions (finiteness of a set, a positive
bound, a value outside a set).

**The Vault store** (`VaultStoreProofs`, on `VaultStoreInvariant` and
`VaultStoreRefinement`).

- `TypeCorrect`; `FailedEditsStayInvisible` and `OneDamageIsRecoverable` with no
  assumption on the faults; `InductiveInvariant`, `InvHolds`, `AckedEditsSurvive`,
  `AcceptedTokensAreCurrent` and `RetentionSuffices` assuming `~SyncTolerated`.
- `StoreImplementsDurableVault`: assuming `~SyncTolerated`,
  `Spec /\ []Undamaged => ImplementsDurableVault`, where `Undamaged` says that no
  snapshot has become unreadable. Every step is a step of `DurableVault` under the
  mapping (the graph a load selects, the set of graphs it may select after a power
  loss, the acknowledged edits) or a stutter. `AcknowledgedIsAtNoRisk` carries the
  promise of `DurableVault` over: what was reported durable is in every graph that
  a load may select, now and after a power loss. A damaged snapshot takes the store back behind what
  it has acknowledged, which `DurableVault` does not allow; the hypothesis is that
  case and the run has `MaxDamage = 0`.

`NoAckedEditLost` is not inductive: it speaks of the loaded graph only, and nothing
in it says what a power loss leaves. `Inv` adds that. The snapshots in both views
form a chain in which a later generation contains every earlier one (`Chain`); each
is in the slot of its generation (`InOrder`); what is only durable is not newer
than what is visible (`VisibleIsNewest`); the acknowledged edits are in a snapshot
that both views have (`Anchored`). A commit in progress is above the chain until
its link (`BeforePublication`) and its top afterwards (`AfterPublication`). The
loaded graph is then the top of the chain, and contains whatever is anchored; a
power loss keeps the anchor and a part of the chain, which is a chain. `Tokens`
says that a token sealed by a running process agrees with the snapshot of its
generation, and is needed for `CommitReplacement`, which continues the chain from
the token's graph. A damaged snapshot breaks the chain, so `Inv` is conditional on
its absence. `FailInv` is about the graphs anyone still holds: none contains a
failed edit, and before its link nobody but the commit itself has the commit's
edit.

The recovery theorems speak of damaged stores too and have invariants of their
own. For retention, `Shadowed`: a snapshot that is durable only, because its
removal was not synced, is older than one of its slot that no power loss takes
away. For the one damage, `OrderInv`: without a power loss the generations are
published in order, each in the slot of its parity, the two newest are present, and
as many are unreadable as were damaged.

The refinement adds `Planned` (until its link a commit is going to publish the
current graph with one edit more) and rests on lemmas about what a power loss
leaves: the graphs at risk shrink with a directory sync, are only the current one
once the newest snapshot is in both views (`SettledRisk`), gain exactly the
commit's graph with its link, and do not change with steps on temporary names.

**Credential transactions** (`CredentialTransactionProofs`): `TransactionsAreTyped`,
`ResultsAreTruthful` and `GraphsHaveBlobs`, with no assumption beyond the
module's: any accounts, secrets, flows and graphs, any budgets of faults, a
damaged slot and reordered directory changes included. `ControlFlow` says where
each kind of operation may be and what its publications lead to. `CommitInv` says
of the forward path that the after graph is not among the graphs at risk until
`CommitVault`, also while a failure is being recovered (`mode = "fail"`, which
reports "error"), and is the only one once `ConfirmCommit` has succeeded (after
which "ok" is reported); planned graphs are numbered upwards, so a new plan's after
graph is at risk nowhere. `BlobInv` adds that the blobs of the after graph are
published from `BlobsReady` on. Each step of an operation is shown to stay on
its `Course`, an action that relates these places before and after, and to shrink the
graphs at risk unless it is the commit; the two together keep the promises.

**The saga of a transaction** (in the same module).

| Theorem | Hypotheses |
|---|---|
| `StoresAlwaysAgree`: when the journal is found empty, the accounts are those of every graph that may be current | none |
| `NoSecretIsDestroyed`: a secret of a graph that may be current is in its account or in its backup | none |
| `RollbacksAreExact`: a loaded Active envelope and the backups have the before graph's accounts | no power loss so far |
| `RecoveryAlwaysDecides`: the slots have an answer, and a pending transaction is at its before or after graph | `~Reordered`, no slot damaged so far |
| `NoBackupIsOrphaned`: an empty journal leaves no backup account | `~Reordered`, no slot damaged so far |

None of the five properties is inductive: each speaks of the slots and graphs that a
program sees, and what counts is every content of the two slots (`slotRisk`) and every
graph (`vaultRisk`) that a power loss may bring back. The invariant `Saga` speaks of
those. `AccountsInv` is its centre: either the accounts are those of every graph at
risk (`Settled`), or the transaction from graph `b` to graph `a` is `Armed`: each slot
file that may be found is unreadable or Active for this transaction, the recorded
previous states and backups give the accounts of `b`, and the accounts of `a` are in
place if `a` may be current. This is why the code publishes Active in both slots and
syncs before it writes an account, why it removes Active from both before it deletes a
backup, and why one unreadable slot does no harm. `JournalInv` says that whatever an
Active slot names can be restored as far as its backups are there; `StepInv`,
`PlanInv`, `ForwardInv` and `RollbackInv` say how far the running operation is: which
accounts are backed up, written or restored, and that the other slot is Active when
the second one is published. A slot write leaves in each slot what it held or the new
envelope (`SlotsMove`), which holds for either kind of directory; so the first two
theorems need no order.

For `RollbacksAreExact`, `VisibleInv` adds that no slot shows Active when backups are
deleted and `ExactInv` that a visible Active slot has its backups. A power loss may
bring back an Active slot under which backups were deleted: that needs two
interrupted directory syncs before it, because `mark_rollback_targets_restored`
(`legacy_import_transaction.rs:1332`) returns at once when both slots *show*
RollbackTargetsRestored, without syncing what an interrupted process left unsynced.
TLC finds it with three crashes and a power loss. No secret is lost then
(`NoSecretIsDestroyed` has no such hypothesis); recovery ends with the repair error.
The run's budget of one crash and one power loss does not reach it and checks the
property without the hypothesis.

For the last two, `OrderInv` says of all slot contents at risk that they have an
answer (`Answered`): none is unreadable, two envelopes follow each other, the newer
one names every account that has a backup, and the graphs at risk are its before and
after graph. `HandleInv` and `OriginInv` relate it to the envelope the operation
holds.

TLC checked these invariants before they were proved, with two crashes, two power
losses and errors of every store, for both kinds of directory.

**Sessions.** `TunnelsAreSound` (`PortForwardProofs`): the invariant says, for each
step between connecting and storing, between taking an entry, cancelling and
disconnecting it, who answers for the connection: its start, the listed entry, or
the stop that has taken it. `PromptsAreDecidedByOwner` and
`DestroyedWindowsGrantNothing` (`PromptBrokerProofs`): an answer is followed from
the pending map through the one-shot channel to the verdict, and receivers hold
only requests that were made. The second is an action property over all steps: an
answer of a destroyed window that is still taken was on its way to a request that
was open when the window went, and `reject_owner` of its broker has not run; for
this `LateInv` has that an answer on its way is to a request that was made, and that
no such request is pending once its owner was rejected; a request is made once, so
it does not come back. `TransportsAreSound` (`SshSessionProofs`): the counter
of a transport is the number of the sessions that hold it, nobody can take a lease
between the decrement to zero and the swap, and the last to let go is the only one
that disconnects; it needs `Sessions` to be finite. What it says of `Connected` is
what the code keeps: who was told is known to the others until it leaves the map;
between the two steps of its task a session is known and not told.
The theorem about forwards speaks of `TunnelsSound` of `PortForward`, which
`saved_hosts` checks of its instances.

**Staged secrets** (`StagedSecretsProofs`, for any references, windows, commands
and limits; the time to live is positive, sizes are natural numbers).
`SecretsAreHandedOutOnce`: no secret is taken twice, and a command only goes on
with secrets that its own window staged and whose deadline was ahead when the
command read the clock. The invariant ties each entry to the record of the secret
that was staged under it (`StoredInv`), with `taken = 0`; a generation number is
used once, so an expiry task that comes late finds another generation and drops
nothing. A drain collects from several references and hands out at its end, so
what it holds is in time, too (`HandedInv`). `GroupsAreAtomic`, an action
property: a group is consumed whole or not at all, and a secret with time left only
leaves by being taken or with its window. `LimitsHold`: the limits on entries, on a
window's entries and on bytes hold at every moment. The bytes are a fold over a
finite map; that the fold exists and that removing or adding an entry changes it by
that entry's size (`SumsExist`, `SumSplits`) is shown by the least cardinality at
which it could fail, since the library's induction theorems cannot be used.
`StagedSecretsAreSound` joins the two invariants in the run's property.

**The safe upload** (`SafeUploadProofs`, for any numbers of attempts, chunks,
versions and faults; `None` and `Torn` are values apart). The invariant `UploadInv`
has five parts, each said step by step because an attempt may end, and another
program may act, between any two steps.

| Theorem | States | The part of the invariant it rests on |
|---|---|---|
| `NoNoticedVersionIsLost` | a version that another program saved and that this upload had to notice is in the target or in the backup | `Keeps`: until the target is moved away, either the saved versions in it are in the file that was examined, or the file is told apart by size and time before the move; after the move the backup is compared with what the editor read or with what was examined; it is removed only after that |
| `UploadsArePublishedWhole` | what the target shows of an upload is one version of the source, all of it | `Stages`: what is staged comes from the sources between the one in the owner record and the current one, and only from that one, in full, from the comparison on |
| `UploadsAreTruthful` | "ok" means published and a changed source or destination means not; a failure with the new file in place, or with the old one in the backup before any publication, means that a request was carried out and its answer lost; a backup that stays has its owner record; an editor's save without faults leaves nothing else | `Places`: what the workspace holds at each step, the record and the attempt naming the same source; `Reports`: published or not, step by step |

`SavedKept` alone is not inductive: it speaks of the versions in the files, and a
replacement is harmless only because the attempt has compared the right one of
three observations (the first look, the last check before the move, the backup
afterwards), which `Replaceable` spells out for the stream and the editor.

**The transfer scheduler** (`TransferSchedulerProofs`, for any single transfers and
manifest, any paths, callers and requests, any number of slots and any queue; the
singles are finitely many, an entry of a manifest is listed once, and the directory
is none of the file transfers). The invariant `SchedulerInv` follows a transfer from
the reservation to its last event, and what the directory's task knows of it.

| Theorem | States | The part of the invariant it rests on |
|---|---|---|
| `WritesAreExclusive` | no two running transfers write to one file, or one below the directory of another | `Reservations`: those in the map are pairwise without conflict, and a transfer that may still write is among them; so an early `Forget` is the one thing that must not happen |
| `TransfersAreTruthful` | one outcome, true of the file; no child outlives the report of its directory; the checkpoint passes complete entries only | `Results`; `ChildrenKnown`: a child that is not quiet is awaited or is being submitted; `EntriesKnown`: the checkpoint is the longest complete prefix (`AdvanceIsLongest`); `MarksLeft`: an entry that is not complete is awaited, or the directory has failed, stopped or been cancelled |
| `NoWorkspaceIsOrphaned` | a local workspace is that of a download that runs, failed, can be resumed or was dropped | `Results` |
| `LimitsAreKept` | slots, queue and checkpoint keep their limits | `SlotsHeld`, `Queued` |

`TransfersTruthful` is not inductive: that a directory reports "Completed" with its
checkpoint at the end follows only from what every entry before it has left behind,
and that none of its children runs on from the set the task waits for. `Queued` says
that a command is in the queue once, without which a transfer could be started twice
and write after its report. A cancellation is never undone (`ControlsKeep`), which is
why the directory's task may read it again when it reports.

The run `transfers` checks these formulas on four instances of the module, inside its
own `TransfersTruthful` and `WriteExclusive`: outcomes and limits on all of them, writes
and workspaces on the two with single transfers (`TwoSingles`, `Mixed`).

TLC checked `SchedulerInv`, `UploadInv` and `StagedInv` on the instances of the runs
before they were proved.

Only model-checked:

- liveness and ENABLED, which are out of the prover's reach;
- `RollbackIsExact` with a power loss among the faults;
- of the suites, `NoSecretLost` and `RestartSafe` of the secret store (its commands
  are sequences of steps computed from a fold over the objects, and their
  invariant would have to speak of every suffix of every one of them); what the
  suite checks of transactions is covered by the theorems of
  `CredentialTransactionProofs`, for all accounts and budgets;
- `NothingLost` and `FinishedStaysFinished`, and the properties of the download, the serial line and its
  protocols, the received file, telnet and the connection logs. The invariant
  of the download would be a variant of `UploadInv`; those of the line protocols
  have to relate windows of chunk numbers modulo a constant at both ends to what is
  on its way in each direction.

## Assumptions and limits

- An error of `hard_link` means that no entry was made (local file systems). Of the
  requests to an SFTP server nothing of the kind is assumed: a rename, a removal or the
  creation of a stage that fails may have been carried out.
- A remote version that shows the size and the time of another cannot be told apart by
  a download. `PublishedWhole` of the download says that a published file is one whole
  version unless two versions looked alike.
- A staged file of ZMODEM or YMODEM whose name another program has taken over is
  removed by its name (`serial_zmodem.rs:1353`), as the model does; what
  `PublishSound` says of other programs is that the names they had are neither replaced
  nor removed, also when the job met them on the way to a free name
  (`OthersKeepNames`), and that after the commit no name refers to a foreign file.
- The instances of the secret store with liveness, and those with two faults, have no
  half-written files; what follows from one is finding 3. A rotation counts as
  ended when its recovery answers, also with an error.
- `NothingStays` speaks of captures, prompts and secrets that must go; that a replay
  must stay is `NothingLost` and, for clears, finding 4.
- A sync of the secret store that fails ends its command; a sync that the coordinator
  repeats and that succeeds (`lib.rs:4559`) is the step without a fault.
- The journal directory exists and is durable; `prepare_root` creates it without
  syncing its parent.
- By default directory changes of the journal reach the disk in order; with
  `Reordered` they need not. Then `StoresAgree` and `NoSecretDestroyed` still
  hold (`stores`), but a mixture of slots may be refused by `validate_slot_pair`,
  or a backup account may be left over, because `write_slot` removes a slot without
  first syncing an older publication that an interrupted process left unsynced.
  `RecoveryDecides` and `NoOrphanBackup` are therefore stated for the ordered case.
- Keyring operations are durable when they return.
- Reads and commits that change nothing are not distinguished; a replacement
  without changes reports Durable without writing (`store.rs:1876`).
- Master-key rotation recovery precedes journal recovery in every operation; each
  is modelled, in `SecretStore` and `CredentialTransaction`, not their sequence.
- The telnet peer negotiates as RFC 1143 asks; the serial line keeps the order of
  what it delivers.

## Plan

1. Theorems about the secret store's rotation, the download and the publication of a
   received file.
2. `RollbackIsExact` across one power loss, from an invariant that tells published
   slots from synced ones.
3. The supervision of local PTY, Mosh and Eternal Terminal processes.
4. The inheritance of `effective_host.rs` and the group tree as operators, checked
   against a reference definition.
