----------------------------- MODULE VaultStore -----------------------------
(***************************************************************************)
(* The A/B snapshot store of crates/netcatty-vault (SavedHostStore).       *)
(*                                                                         *)
(* The Vault is a directory with two slots.  A commit of generation g      *)
(* writes a complete immutable snapshot into the slot of g's parity:       *)
(* temporary file, fsync, hard link (the publication point), directory     *)
(* sync, removal of the temporary name, compaction of the slot.  A reader  *)
(* takes the newest readable snapshot of the two slots.                    *)
(*                                                                         *)
(* A Vault graph is abstracted to the set of edits it contains: a client   *)
(* submits the complete graph it read plus one fresh edit of its own.      *)
(*                                                                         *)
(* The file system is modelled by two views of each slot directory: vis,   *)
(* what running programs see, and dur, the entries the last successful     *)
(* directory sync made durable.  A power loss keeps every entry in both    *)
(* views, and any of the entries in only one of them.                      *)
(***************************************************************************)
EXTENDS Naturals, FiniteSets

CONSTANTS
    Procs,          \* desktop processes sharing the Vault directory
    Edits,          \* edits clients may submit, each at most once
    MaxGen,         \* the largest representable generation (u64::MAX in the code)
    MaxPowerLoss,   \* bound: power losses
    MaxRestart,     \* bound: process crashes
    MaxDamage,      \* bound: snapshots that become unreadable on disk
    SyncTolerated   \* TRUE: a directory sync may report success without syncing

ASSUME MaxGenAssumption == MaxGen \in Nat
ASSUME BoundsAssumption == MaxPowerLoss \in Nat /\ MaxRestart \in Nat /\ MaxDamage \in Nat
ASSUME SyncAssumption == SyncTolerated \in BOOLEAN

Slots == {"A", "B"}

\* Mutant: every generation goes to the same slot.
AlwaysSlotA(g) == "A"

\* Slot::for_generation
ForGeneration(g) == IF g % 2 = 1 THEN "A" ELSE "B"

Other(s) == IF s = "A" THEN "B" ELSE "A"

\* A directory entry.  ok is FALSE for a torn or unreadable file.  A temporary
\* name and the final name of one snapshot are two entries of one file.
File == [kind : {"snapshot", "temp"}, gen : 1..MaxGen, edits : SUBSET Edits, ok : BOOLEAN]

Directory == [Slots -> SUBSET File]

Token == [gen : 0..MaxGen, max : 0..MaxGen, edits : SUBSET Edits, seal : Nat]
NoToken == [gen |-> 0, max |-> 0, edits |-> {}, seal |-> 0]

VARIABLES
    vis,        \* the slot directories as programs see them
    dur,        \* the slot directories as of their last successful sync
    key,        \* key[p]: incarnation of p, i.e. its random seal key
    token,      \* token[p]: the inventory revision p's client holds, with the graph it read
    pc,         \* where the operation holding the Vault locks is
    holder,     \* the process that holds them
    work,       \* what the operation publishes: [gen, edits, edit]
    acked,      \* edits some client was told are durable
    failed,     \* edits some client was told were not committed
    used,       \* edits submitted so far
    faults      \* how many faults of each kind have happened

fs == <<vis, dur>>
clients == <<key, token>>
ghosts == <<acked, failed, used>>
vars == <<vis, dur, key, token, pc, holder, work, acked, failed, used, faults>>

----------------------------------------------------------------------------
(* Reading the slots.                                                      *)

Snapshots(files) == {f \in files : f.kind = "snapshot"}

AllSnapshots(dir) == Snapshots(dir["A"]) \cup Snapshots(dir["B"])

Newest(files) == {f \in files : \A h \in files : h.gen <= f.gen}

\* probe_slot: the snapshot a slot contributes, as a set of at most one.  Two
\* files of the highest generation, or an unreadable one, contribute nothing.
ProbeSlot(files) ==
    LET latest == Newest(Snapshots(files))
    IN  {f \in latest : latest = {f} /\ f.ok}

\* The highest generation any file name of the two slots carries.
MaxSeen(dir) ==
    IF AllSnapshots(dir) = {} THEN 0
    ELSE (CHOOSE f \in Newest(AllSnapshots(dir)) : TRUE).gen

\* load_locked
LoadLocked(dir) ==
    LET candidates == ProbeSlot(dir["A"]) \cup ProbeSlot(dir["B"])
        selected == {f \in Newest(candidates) : Newest(candidates) = {f}}
        chosen == CHOOSE f \in selected : TRUE
    IN  IF AllSnapshots(dir) = {}
        THEN [ok |-> TRUE, gen |-> 0, max |-> 0, edits |-> {}]
        ELSE IF selected = {}
        THEN [ok |-> FALSE, gen |-> 0, max |-> MaxSeen(dir), edits |-> {}]
        ELSE [ok |-> TRUE, gen |-> chosen.gen, max |-> MaxSeen(dir), edits |-> chosen.edits]

Loaded == LoadLocked(vis)

\* inventory_revision: what process p hands to a client that reads graph l.
InventoryRevision(p, l) == [gen |-> l.gen, max |-> l.max, edits |-> l.edits, seal |-> key[p]]

\* Mutant: the token carries no seal of the process that issued it.
VerifiedUnsealed(p, t, l) == t.gen = l.gen /\ t.max = l.max

\* verify_inventory_revision: generations and seal must match; the graph
\* itself is not part of the token the code compares.
Verified(p, t, l) == t.gen = l.gen /\ t.max = l.max /\ t.seal = key[p]

\* managed_secret_retention_set: the graphs whose secrets must be kept, and
\* whether every artifact of both slots could be attributed.
RetentionCertain(dir) ==
    \A s \in Slots :
        /\ \A f \in dir[s] : f.ok
        /\ \A f, h \in Snapshots(dir[s]) : f.gen = h.gen => f = h

\* Mutant: only the secrets of the current graph are kept.
RetainedCurrentOnly(dir) == {LoadLocked(dir).edits}

Retained(dir) == {f.edits : f \in dir["A"] \cup dir["B"]}

----------------------------------------------------------------------------
(* The file system.                                                        *)

\* What a power loss may leave of one slot directory.
Outcomes(v, d) == {x \in SUBSET (v \cup d) : v \cap d \subseteq x}

\* sync_directory: a sync that reports success has made the slot durable,
\* except where the platform's inability to sync is reported as success.
SyncOk(s) ==
    dur' \in {[dur EXCEPT ![s] = vis'[s]]} \cup IF SyncTolerated THEN {dur} ELSE {}

\* A sync whose result the code ignores.
SyncBestEffort(s) == SyncOk(s) \/ dur' = dur

NoFaults == [powerLoss |-> 0, restart |-> 0, damage |-> 0]

Init ==
    /\ vis = [s \in Slots |-> {}]
    /\ dur = [s \in Slots |-> {}]
    /\ key = [p \in Procs |-> 1]
    /\ token = [p \in Procs |-> NoToken]
    /\ pc = "idle"
    /\ holder \in Procs
    /\ work = [gen |-> 0, edits |-> {}, edit |-> {}]
    /\ acked = {}
    /\ failed = {}
    /\ used = {}
    /\ faults = NoFaults

----------------------------------------------------------------------------
(* Operations.  Every one holds the process gate and the cross-process     *)
(* saved-host lock from its load to its return, so one runs at a time.     *)

\* list_with_revision and the other reads: the client learns the graph and
\* the revision token of the same load.
Read(p) ==
    /\ pc = "idle"
    /\ Loaded.ok
    /\ token' = [token EXCEPT ![p] = InventoryRevision(p, Loaded)]
    /\ UNCHANGED <<fs, key, pc, holder, work, ghosts, faults>>

\* The part of commit_locked that every mutation shares: the next generation,
\* refused at the representable maximum.
StartCommit(p, e, base) ==
    /\ Loaded.max < MaxGen
    /\ pc' = "create"
    /\ holder' = p
    /\ work' = [gen |-> Loaded.max + 1, edits |-> base \cup {e}, edit |-> {e}]
    /\ used' = used \cup {e}
    /\ UNCHANGED <<fs, clients, acked, failed, faults>>

\* commit_planned_graph_replacement, commit_planned_graph_import and the
\* catalog replacements: the client's complete graph replaces the current one
\* when its token is the current revision.
CommitReplacement(p, e) ==
    /\ pc = "idle"
    /\ e \in Edits \ used
    /\ Loaded.ok
    /\ Verified(p, token[p], Loaded)
    /\ StartCommit(p, e, token[p].edits)

\* The same with a stale token: InventoryRevisionConflict, nothing written.
RejectStale(p) ==
    /\ pc = "idle"
    /\ Loaded.ok
    /\ token[p] # NoToken
    /\ ~Verified(p, token[p], Loaded)
    /\ token' = [token EXCEPT ![p] = NoToken]
    /\ UNCHANGED <<fs, key, pc, holder, work, ghosts, faults>>

\* create, update, delete: load, edit the loaded graph, commit, one lock scope.
CommitDirect(p, e) ==
    /\ pc = "idle"
    /\ e \in Edits \ used
    /\ Loaded.ok
    /\ StartCommit(p, e, Loaded.edits)

TempEntry(ok) == [kind |-> "temp", gen |-> work.gen, edits |-> work.edits, ok |-> ok]

\* Mutant: the snapshot names the generation after its own.
FinalEntryNext == [kind |-> "snapshot", gen |-> work.gen + 1, edits |-> work.edits, ok |-> TRUE]

FinalEntry == [kind |-> "snapshot", gen |-> work.gen, edits |-> work.edits, ok |-> TRUE]
WorkSlot == ForGeneration(work.gen)

\* An error before the hard link: the client is told nothing was committed.
ReturnError ==
    /\ pc' = "idle"
    /\ failed' = failed \cup work.edit
    /\ UNCHANGED <<dur, clients, holder, work, acked, used, faults>>

\* The temporary file is created and partly written, or cannot be.
CreateTemp ==
    /\ pc = "create"
    /\ \/ /\ vis' = [vis EXCEPT ![WorkSlot] = @ \cup {TempEntry(FALSE)}]
          /\ pc' = "write"
          /\ UNCHANGED <<dur, clients, holder, work, ghosts, faults>>
       \/ /\ vis' = vis
          /\ ReturnError

\* write_all and sync_all of the temporary file.
SyncTemp ==
    /\ pc = "write"
    /\ vis' = [vis EXCEPT ![WorkSlot] = (@ \ {TempEntry(FALSE)}) \cup {TempEntry(TRUE)}]
    /\ pc' = "link"
    /\ UNCHANGED <<dur, clients, holder, work, ghosts, faults>>

\* A failed write, fsync or hard link: the final name does not exist, so the
\* temporary file is removed (its own failure is ignored).
PrePublicationFailure ==
    /\ pc \in {"write", "link"}
    /\ \/ vis' = [vis EXCEPT ![WorkSlot] = @ \ {TempEntry(FALSE), TempEntry(TRUE)}]
       \/ vis' = vis
    /\ ReturnError

\* The hard link: the publication point.
Publish ==
    /\ pc = "link"
    /\ vis' = [vis EXCEPT ![WorkSlot] = @ \cup {FinalEntry}]
    /\ pc' = "sync"
    /\ UNCHANGED <<dur, clients, holder, work, ghosts, faults>>

\* Mutant: a failed directory sync is reported as Durable.
SyncPublicationIgnored ==
    /\ pc = "sync"
    /\ vis' = vis
    /\ SyncOk(WorkSlot) \/ dur' = dur
    /\ pc' = "durable"
    /\ UNCHANGED <<clients, holder, work, ghosts, faults>>

\* Mutant: a failed directory sync is reported as an error.
SyncPublicationAsError ==
    /\ pc = "sync"
    /\ vis' = vis
    /\ \/ /\ SyncOk(WorkSlot)
          /\ pc' = "durable"
          /\ UNCHANGED <<clients, holder, work, ghosts, faults>>
       \/ ReturnError

\* The directory sync after the link: Durable, PublishedDurabilityUncertain
\* or, when the published file cannot be re-read, PublicationIndeterminate.
SyncPublication ==
    /\ pc = "sync"
    /\ vis' = vis
    /\ \/ SyncOk(WorkSlot) /\ pc' = "durable"
       \/ dur' = dur /\ pc' \in {"uncertain", "indeterminate"}
    /\ UNCHANGED <<clients, holder, work, ghosts, faults>>

\* Unless indeterminate, the temporary name is removed and the slot synced
\* again, both on a best-effort basis.
RemoveTemp ==
    /\ pc \in {"durable", "uncertain"}
    /\ \/ vis' = [vis EXCEPT ![WorkSlot] = @ \ {TempEntry(TRUE)}]
       \/ vis' = vis
    /\ SyncBestEffort(WorkSlot)
    /\ pc' = IF pc = "durable" THEN "compact" ELSE "return"
    /\ UNCHANGED <<clients, holder, work, ghosts, faults>>

\* cleanup_owned_slot_artifacts: older readable snapshots and readable
\* temporary files up to the published generation, each removal best effort.
Compactable(files, g) ==
    {f \in files : f.ok /\ IF f.kind = "snapshot" THEN f.gen < g ELSE f.gen <= g}

\* The revision a commit returns to its client.
Committed == [ok |-> TRUE, gen |-> work.gen, max |-> work.gen, edits |-> work.edits]
ReturnRevision ==
    /\ pc' = "idle"
    /\ token' = [token EXCEPT ![holder] = InventoryRevision(holder, Committed)]
    /\ UNCHANGED <<key, holder, work, failed, used, faults>>

\* A durable publication compacts its slot and reports Durable.
ReturnDurable ==
    /\ pc = "compact"
    /\ \E gone \in SUBSET Compactable(vis[WorkSlot], work.gen) :
          /\ vis' = [vis EXCEPT ![WorkSlot] = @ \ gone]
          /\ IF gone = {} THEN dur' = dur ELSE SyncBestEffort(WorkSlot)
    /\ acked' = acked \cup work.edits
    /\ ReturnRevision

\* A publication of uncertain durability is reported as such: no compaction.
ReturnUncertain ==
    /\ pc \in {"return", "indeterminate"}
    /\ acked' = acked
    /\ ReturnRevision
    /\ UNCHANGED fs

----------------------------------------------------------------------------
(* confirm_current_snapshot_durability: sync the slot of the selected      *)
(* snapshot, then the competing one, and reload.  Refused when a newer     *)
(* generation exists that cannot be read.                                  *)

ConfirmBegin(p) ==
    /\ pc = "idle"
    /\ Loaded.ok
    /\ Loaded.gen = Loaded.max
    /\ pc' = "confirmSelected"
    /\ holder' = p
    /\ work' = [gen |-> Loaded.gen, edits |-> Loaded.edits, edit |-> {}]
    /\ UNCHANGED <<fs, clients, ghosts, faults>>

\* Mutant: the snapshot is re-read without syncing its directories.
ConfirmWithoutSync ==
    /\ pc = "confirmSelected"
    /\ pc' = "confirmReload"
    /\ UNCHANGED <<fs, clients, holder, work, ghosts, faults>>

ConfirmSync ==
    /\ vis' = vis
    /\ \/ /\ pc = "confirmSelected"
          /\ SyncOk(WorkSlot)
          /\ pc' = "confirmCompeting"
       \/ /\ pc = "confirmCompeting"
          /\ SyncOk(Other(WorkSlot))
          /\ pc' = "confirmReload"
    /\ UNCHANGED <<clients, holder, work, ghosts, faults>>

\* A failed sync, or a reload that differs from the first load.
ConfirmFail ==
    /\ \/ pc \in {"confirmSelected", "confirmCompeting"}
       \/ pc = "confirmReload" /\ Loaded # Committed
    /\ pc' = "idle"
    /\ UNCHANGED <<fs, clients, holder, work, ghosts, faults>>

ConfirmReturn ==
    /\ pc = "confirmReload"
    /\ Loaded = Committed
    /\ acked' = acked \cup work.edits
    /\ ReturnRevision
    /\ UNCHANGED fs

----------------------------------------------------------------------------
(* Faults.                                                                 *)

\* A process dies: the operating system releases its locks, what it wrote
\* stays visible, and its successor draws a new seal key.
ProcessCrash(p) ==
    /\ faults.restart < MaxRestart
    /\ faults' = [faults EXCEPT !.restart = @ + 1]
    /\ key' = [key EXCEPT ![p] = @ + 1]
    /\ pc' = IF holder = p THEN "idle" ELSE pc
    /\ UNCHANGED <<fs, token, holder, work, ghosts>>

\* Everything stops; unsynced directory changes may or may not survive.
PowerLoss ==
    /\ faults.powerLoss < MaxPowerLoss
    /\ faults' = [faults EXCEPT !.powerLoss = @ + 1]
    /\ \E a \in Outcomes(vis["A"], dur["A"]), b \in Outcomes(vis["B"], dur["B"]) :
          /\ vis' = [s \in Slots |-> IF s = "A" THEN a ELSE b]
          /\ dur' = vis'
    /\ key' = [p \in Procs |-> key[p] + 1]
    /\ pc' = "idle"
    /\ UNCHANGED <<token, holder, work, ghosts>>

\* A snapshot becomes unreadable on disk.
Damage(s) ==
    /\ faults.damage < MaxDamage
    /\ \E f \in Snapshots(vis[s]) :
          /\ f.ok
          /\ LET broken == [f EXCEPT !.ok = FALSE]
                 Break(files) == IF f \in files THEN (files \ {f}) \cup {broken} ELSE files
             IN  /\ vis' = [vis EXCEPT ![s] = Break(@)]
                 /\ dur' = [dur EXCEPT ![s] = Break(@)]
    /\ faults' = [faults EXCEPT !.damage = @ + 1]
    /\ UNCHANGED <<clients, pc, holder, work, ghosts>>

Operation ==
    \/ CreateTemp
    \/ SyncTemp
    \/ PrePublicationFailure
    \/ Publish
    \/ SyncPublication
    \/ RemoveTemp
    \/ ReturnDurable
    \/ ReturnUncertain
    \/ ConfirmSync
    \/ ConfirmFail
    \/ ConfirmReturn

Next ==
    \/ \E p \in Procs : Read(p)
    \/ \E p \in Procs, e \in Edits : CommitReplacement(p, e)
    \/ \E p \in Procs : RejectStale(p)
    \/ \E p \in Procs, e \in Edits : CommitDirect(p, e)
    \/ \E p \in Procs : ConfirmBegin(p)
    \/ Operation
    \/ \E p \in Procs : ProcessCrash(p)
    \/ PowerLoss
    \/ \E s \in Slots : Damage(s)

Spec == Init /\ [][Next]_vars

----------------------------------------------------------------------------
(* Properties.                                                             *)

\* Every variable has its type; in particular no snapshot is given a
\* generation beyond the representable maximum (commit_locked's checked_add).
TypeOK ==
    /\ vis \in Directory
    /\ dur \in Directory
    /\ key \in [Procs -> Nat]
    /\ token \in [Procs -> Token]
    /\ pc \in {"idle", "create", "write", "link", "sync", "durable", "uncertain",
               "indeterminate", "compact", "return", "confirmSelected",
               "confirmCompeting", "confirmReload"}
    /\ holder \in Procs
    /\ work \in [gen : 0..MaxGen, edits : SUBSET Edits, edit : SUBSET Edits]
    /\ acked \subseteq Edits
    /\ failed \subseteq Edits
    /\ used \subseteq Edits
    /\ faults \in [powerLoss : Nat, restart : Nat, damage : Nat]

\* An edit that some client was told is durable (commit_locked reported
\* Durable, or confirm_current_snapshot_durability succeeded) is in the graph
\* every later load returns: no stale writer overwrites it, no compaction
\* removes its last copy, no crash or power loss takes it back.
NoAckedEditLost ==
    faults.damage = 0 => Loaded.ok /\ acked \subseteq Loaded.edits

\* "Err from a mutating store method therefore means that this point was not
\* reached": an edit reported as failed never appears in a loaded graph, also
\* not through a temporary file that a crash or a failed removal left behind.
FailedEditNeverVisible == failed \cap Loaded.edits = {}

\* The compare-and-swap on the inventory revision is sound: a token that
\* verify_inventory_revision accepts was issued for the very graph that is
\* current, although generation numbers are used again after a power loss
\* discards a publication.
AcceptedTokenIsCurrent ==
    \A p \in Procs :
        faults.damage = 0 /\ Loaded.ok /\ Verified(p, token[p], Loaded)
            => token[p].edits = Loaded.edits

\* managed_secret_retention_set covers recovery: whatever graph a power loss
\* may make current, its secrets are among the ones the scan tells the
\* garbage collector to keep.
RetentionCoversRecovery ==
    pc = "idle" /\ RetentionCertain(vis) =>
        \A a \in Outcomes(vis["A"], dur["A"]), b \in Outcomes(vis["B"], dur["B"]) :
            LET l == LoadLocked([s \in Slots |-> IF s = "A" THEN a ELSE b])
            IN  l.ok => l.gen = 0 \/ l.edits \in Retained(vis)

\* "A/B recoverable": while no power loss has discarded a publication, one
\* unreadable snapshot costs at most the newest generation; the store still
\* opens, on the other slot.
OneDamageRecoverable ==
    faults.damage <= 1 /\ faults.powerLoss = 0 /\ Loaded.max >= 2
        => Loaded.ok /\ Loaded.gen + 1 >= Loaded.max
=============================================================================
