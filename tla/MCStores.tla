------------------------------ MODULE MCStores ------------------------------
(***************************************************************************)
(* The stores below the desktop core: the staged one-shot secrets, further *)
(* instances of the credential transactions (two accounts, journal errors  *)
(* with directory changes that reach the disk out of order), the managed   *)
(* secret store, and the logs and replays of connections. A behaviour is   *)
(* one of one of these, so the run explores one after the other; the       *)
(* staged secrets are this module's own variables and constants, and rest  *)
(* while another instance runs.                                            *)
(***************************************************************************)
EXTENDS StagedSecrets, TLC

CONSTANTS NoSecret, s, s1, s2, o1, o2

VARIABLES
  which,  \* the instance that a behaviour is one of
  \* its variables, in the order of its module
  v1, v2, v3, v4, v5, v6, v7, v8, v9, v10, v11, v12, v13, v14, v15, v16, v17, v18, v19,
  v20

Budget(crash, powerLoss, keyringErr, vaultSync, journalErr) ==
  "crash" :> crash @@ "powerLoss" :> powerLoss @@ "keyring" :> keyringErr
    @@ "vaultSync" :> vaultSync @@ "journal" :> journalErr @@ "damage" :> 0

TwoAccounts == INSTANCE CredentialTransaction WITH
  Owners <- {o1, o2}, Secrets <- {s}, Kinds <- {"identity", "host"}, MaxGraph <- 2,
  Graphs <- 0..2, Budgets <- {Budget(1, 0, 1, 0, 0)}, Reordered <- FALSE, vault <- v1,
  vaultRisk <- v2, blobs <- v3, target <- v4, backup <- v5, slot <- v6, slotRisk <- v7,
  handle <- v8, pc <- v9, mode <- v10, plan <- v11, previous <- v12, todo <- v13,
  goal <- v14, then <- v15, result <- v16, belongs <- v17, planned <- v18, faults <- v19
OutOfOrder == INSTANCE CredentialTransaction WITH
  Owners <- {o1}, Secrets <- {s1, s2}, Kinds <- {"identity", "host"}, MaxGraph <- 2,
  Graphs <- 0..2, Budgets <- {Budget(0, 1, 0, 0, 2)}, Reordered <- TRUE, vault <- v1,
  vaultRisk <- v2, blobs <- v3, target <- v4, backup <- v5, slot <- v6, slotRisk <- v7,
  handle <- v8, pc <- v9, mode <- v10, plan <- v11, previous <- v12, todo <- v13,
  goal <- v14, then <- v15, result <- v16, belongs <- v17, planned <- v18, faults <- v19

PowerFails == INSTANCE SecretStore WITH
  Objects <- {s1, s2}, MaxEpoch <- 3, Faults <- {"power", "link"}, MaxFaults <- 2,
  seen <- v1, disk <- v2, keyring <- v3, stage <- v4, todo <- v5, proof <- v6, faults <- v7
ProcessFails == INSTANCE SecretStore WITH
  Objects <- {s1, s2}, MaxEpoch <- 2, Faults <- {"kill", "sync", "link"}, MaxFaults <- 2,
  seen <- v1, disk <- v2, keyring <- v3, stage <- v4, todo <- v5, proof <- v6, faults <- v7

TornWrite == INSTANCE SecretStore WITH
  Objects <- {s1, s2}, MaxEpoch <- 2, Faults <- {"kill", "torn"}, MaxFaults <- 1,
  seen <- v1, disk <- v2, keyring <- v3, stage <- v4, todo <- v5, proof <- v6, faults <- v7

Logs == INSTANCE ConnectionLogs WITH
  MaxSessions <- 3, MaxChunks <- 0, MaxEdits <- 1, MaxCrashes <- 0, MaxUnsaved <- 2,
  MaxReplays <- 3, Commands <- {"replace"}, Faults <- {}, MaxAttempts <- 2,
  MaxFinishFailures <- 2, catalog <- v1, rev <- v2, index <- v3, blobs <- v4, custody <- v5,
  startup <- v6, lock <- v7, session <- v8, capture <- v9, timers <- v10, background <- v11,
  view <- v12, export <- v13, started <- v14, edits <- v15, crashes <- v16,
  confirmed <- v17, removed <- v18, completed <- v19, reads <- v20
Edits == INSTANCE ConnectionLogs WITH
  MaxSessions <- 2, MaxChunks <- 0, MaxEdits <- 2, MaxCrashes <- 0, MaxUnsaved <- 1,
  MaxReplays <- 3, Commands <- {"replace"}, Faults <- {"unsure"}, MaxAttempts <- 2,
  MaxFinishFailures <- 2, catalog <- v1, rev <- v2, index <- v3, blobs <- v4, custody <- v5,
  startup <- v6, lock <- v7, session <- v8, capture <- v9, timers <- v10, background <- v11,
  view <- v12, export <- v13, started <- v14, edits <- v15, crashes <- v16,
  confirmed <- v17, removed <- v18, completed <- v19, reads <- v20
Replays == INSTANCE ConnectionLogs WITH
  MaxSessions <- 2, MaxChunks <- 1, MaxEdits <- 1, MaxCrashes <- 1, MaxUnsaved <- 2,
  MaxReplays <- 1, Commands <- {"clear"}, Faults <- {"blob"}, MaxAttempts <- 2,
  MaxFinishFailures <- 2, catalog <- v1, rev <- v2, index <- v3, blobs <- v4, custody <- v5,
  startup <- v6, lock <- v7, session <- v8, capture <- v9, timers <- v10, background <- v11,
  view <- v12, export <- v13, started <- v14, edits <- v15, crashes <- v16,
  confirmed <- v17, removed <- v18, completed <- v19, reads <- v20
Reads == INSTANCE ConnectionLogs WITH
  MaxSessions <- 2, MaxChunks <- 1, MaxEdits <- 1, MaxCrashes <- 0, MaxUnsaved <- 2,
  MaxReplays <- 1, Commands <- {"read"}, Faults <- {"blob"}, MaxAttempts <- 2,
  MaxFinishFailures <- 2, catalog <- v1, rev <- v2, index <- v3, blobs <- v4, custody <- v5,
  startup <- v6, lock <- v7, session <- v8, capture <- v9, timers <- v10, background <- v11,
  view <- v12, export <- v13, started <- v14, edits <- v15, crashes <- v16,
  confirmed <- v17, removed <- v18, completed <- v19, reads <- v20
Collection == INSTANCE ConnectionLogs WITH
  MaxSessions <- 1, MaxChunks <- 1, MaxEdits <- 1, MaxCrashes <- 1, MaxUnsaved <- 2,
  MaxReplays <- 1, Commands <- {"clear", "read"}, Faults <- {"blob", "nogc"},
  MaxAttempts <- 2, MaxFinishFailures <- 2, catalog <- v1, rev <- v2, index <- v3,
  blobs <- v4, custody <- v5, startup <- v6, lock <- v7, session <- v8, capture <- v9,
  timers <- v10, background <- v11, view <- v12, export <- v13, started <- v14,
  edits <- v15, crashes <- v16, confirmed <- v17, removed <- v18, completed <- v19,
  reads <- v20

ASSUME InstancesAreSound ==
  /\ PowerFails!BoundsAssumption
  /\ ProcessFails!BoundsAssumption
  /\ TornWrite!BoundsAssumption
  /\ Logs!ConnectionLogsAssumption
  /\ Edits!ConnectionLogsAssumption
  /\ Replays!ConnectionLogsAssumption
  /\ Reads!ConnectionLogsAssumption
  /\ Collection!ConnectionLogsAssumption
  /\ StagedAssumption

instanceVars ==
  <<v1, v2, v3, v4, v5, v6, v7, v8, v9, v10, v11, v12, v13, v14, v15, v16, v17, v18, v19,
    v20>>

\* What an instance with fewer variables does not use.
rest7 == <<v8, v9, v10, v11, v12, v13, v14, v15, v16, v17, v18, v19, v20>>
Unused7 ==
  /\ v8 = "" /\ v9 = "" /\ v10 = "" /\ v11 = "" /\ v12 = "" /\ v13 = "" /\ v14 = ""
  /\ v15 = "" /\ v16 = "" /\ v17 = "" /\ v18 = "" /\ v19 = "" /\ v20 = ""

Unused ==
  /\ v1 = "" /\ v2 = "" /\ v3 = "" /\ v4 = "" /\ v5 = "" /\ v6 = "" /\ v7 = ""
  /\ Unused7

SuiteInit ==
  /\ Init
  /\ \/ which = "staged" /\ Unused
     \/ which = "accounts" /\ TwoAccounts!Init /\ v20 = ""
     \/ which = "reordered" /\ OutOfOrder!Init /\ v20 = ""
     \/ which = "power" /\ PowerFails!Init /\ Unused7
     \/ which = "process" /\ ProcessFails!Init /\ Unused7
     \/ which = "torn" /\ TornWrite!Init /\ Unused7
     \/ which = "logs" /\ Logs!Init
     \/ which = "edits" /\ Edits!Init
     \/ which = "replays" /\ Replays!Init
     \/ which = "reads" /\ Reads!Init
     \/ which = "collection" /\ Collection!Init

\* A step of the instance x.
Moves(x) == which = x /\ UNCHANGED <<which, vars>>

SuiteNext ==
  \/ which = "staged" /\ Next /\ UNCHANGED <<which, instanceVars>>
  \/ Moves("accounts") /\ TwoAccounts!Next /\ UNCHANGED v20
  \/ Moves("reordered") /\ OutOfOrder!Next /\ UNCHANGED v20
  \/ Moves("power") /\ PowerFails!Next /\ UNCHANGED rest7
  \/ Moves("process") /\ ProcessFails!Next /\ UNCHANGED rest7
  \/ Moves("torn") /\ TornWrite!Next /\ UNCHANGED rest7
  \/ Moves("logs") /\ Logs!Next
  \/ Moves("edits") /\ Edits!Next
  \/ Moves("replays") /\ Replays!Next
  \/ Moves("reads") /\ Reads!Next
  \/ Moves("collection") /\ Collection!Next

SuiteSpec == SuiteInit /\ [][SuiteNext]_<<which, vars, instanceVars>>

\* The instance with torn files alone, and the one with a single log.
TornSpec ==
  (SuiteInit /\ which = "torn") /\ [][SuiteNext]_<<which, vars, instanceVars>>
CollectionSpec ==
  (SuiteInit /\ which = "collection") /\ [][SuiteNext]_<<which, vars, instanceVars>>

\* The secrets (or objects, or references) s1 and s2 are interchangeable, and so
\* are the accounts (or windows) and the commands in flight.
Symmetry == Permutations({s1, s2}) \cup Permutations({o1, o2}) \cup Permutations(Callers)

-----------------------------------------------------------------------------
\* The stores agree again whenever an operation may use them. With no
\* transaction pending the keyring holds exactly the accounts of every graph
\* that is or may become current (also when the second of two accounts fails,
\* and when write_slot's directory changes reach the disk out of order), and no
\* backup account outlives its transaction. A loop over accounts visits only
\* the accounts its journalled transaction names (TypeOK).
StoresAgree ==
  /\ which = "accounts" => 
       /\ TwoAccounts!TypeOK
       /\ TwoAccounts!NoOrphanBackup
       /\ TwoAccounts!StoresAgree
  /\ which = "reordered" => OutOfOrder!StoresAgree

\* No secret is lost or unreadable. The last copy of a keyring secret is in its
\* account or in the backup account, in whatever order the journal's directory
\* changes reach the disk; a blob that put has acknowledged survives every
\* power loss; and each stored blob can be decrypted with a key of the keyring,
\* in the middle of a rotation too.
NoSecretLost ==
  /\ which = "reordered" => OutOfOrder!NoSecretDestroyed
  /\ which = "power" => 
       /\ PowerFails!NoSecretLost
       /\ PowerFails!SecretsReadable
  /\ which = "process" => ProcessFails!SecretsReadable
  /\ which = "torn" => TornWrite!NoSecretLost

\* A secret store that is opened after a kill or a power loss at any step finds
\* a state its recovery accepts: a manifest it can act on, a marker that says
\* what is the case, and the key of every store that has an owner. The exception
\* is a kill that leaves a temporary file half written; TornRotationRestarts
\* shows what follows from one. MarkerTruthful and OwnerHasKey hold there too.
RestartSafe ==
  /\ which = "power" => PowerFails!RestartSafe
  /\ which = "process" => 
       /\ ProcessFails!RestartSafe
       /\ ProcessFails!MarkerTruthful
       /\ ProcessFails!OwnerHasKey
  /\ which = "torn" =>
       /\ (\A a \in v1 : a.kind # "torn") => TornWrite!RestartSafe
       /\ TornWrite!MarkerTruthful
       /\ TornWrite!OwnerHasKey

\* "This call is restart-safe from a stable source pair, a mixed v1/v2 pair, or
\* the exact stable target pair" (rotate_master_key_epoch, file_store.rs:1140):
\* once a rotation has its manifest, and until its marker is there, what a kill
\* leaves is accepted by the recovery at the next start, a half-written temporary
\* file included.
TornRotationRestarts ==
  which = "torn" =>
    \A a \in v1 : a.kind = "manifest" /\ TornWrite!Marker(a.epoch) \notin v1
                     => TornWrite!RestartSafe

\* What is recorded of a session is kept: its log stays in the list, within the
\* limits of the retention, through edits of the list by windows with an older
\* copy, retries, clean-ups and the end of other sessions. Its replay stays with
\* it through crashes and all of that but a clean-up of the list (see
\* ReplayOutlivesCleanup): the replays are compared with the list that it left,
\* some time later. And a log that names a replay finds its blobs, whatever
\* step of a replacement or collection a crash interrupts, and what is read or
\* exported is what the command was authorised for.
NothingLost ==
  /\ which = "logs" => 
       /\ Logs!TypeOK
       /\ Logs!NothingLost
       /\ Logs!ReplayKept
  /\ which = "edits" => 
       /\ Edits!TypeOK
       /\ Edits!NothingLost
       /\ Edits!ReplayKept
  /\ which = "replays" => 
       /\ Replays!IndexResolvable
       /\ Replays!NothingLost
  /\ which = "reads" => 
       /\ Reads!IndexResolvable
       /\ Reads!ReadsAuthorised
       /\ Reads!NothingLost
  /\ which = "collection" => 
       /\ Collection!IndexResolvable
       /\ Collection!ReadsAuthorised
       /\ Collection!NothingLost
       /\ v15 = 0 => Collection!ReplayKept

\* A finished log never becomes unfinished again, and a replay is never
\* attached to a log that has left the list.
FinishedStaysFinished ==
  [][/\ which = "logs" => Logs!FinishedStaysFinishedStep
     /\ which = "edits" => Edits!FinishedStaysFinishedStep
     /\ which = "logs" => Logs!NoOrphanReplayStep
     /\ which = "edits" => Edits!NoOrphanReplayStep]_<<which, vars, instanceVars>>

\* "The Vault catalog is the authoritative source of truth: once it has been
\* durably published, replay cleanup is safe to finish asynchronously"
\* (reconcile_catalog_background, connection_log_replay.rs:490): the replay of a
\* session that was finalized outlives a clean-up that began before it.
ReplayOutlivesCleanup == which = "collection" => Collection!ReplayKept

=============================================================================
