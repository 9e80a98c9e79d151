--------------------------- MODULE LocalDownload ---------------------------
(***************************************************************************)
(* The publication of a downloaded file on this machine                    *)
(* (netcatty-ssh/src/runtime.rs).  The download is written to a staged     *)
(* file in a private workspace beside the target.  To publish it, the old  *)
(* target is hard-linked to a backup, compared, removed, and the staged    *)
(* file hard-linked into its place: a hard link never overwrites.          *)
(*                                                                         *)
(* Another program works on the target at the same time, replacing it,     *)
(* writing it in place (through the backup's link too) and removing it.    *)
(* The target is recognised by its snapshot, its size and time, which two  *)
(* bodies may share.  So is the remote file, whose time has whole seconds  *)
(* or is not told at all: an edit may leave it with a size and a time that *)
(* it has or had.  Any call may fail without effect and the program may    *)
(* end at any point; a download it kept the plan and checkpoint of is      *)
(* resumed in the same workspace.                                          *)
(***************************************************************************)
EXTENDS Naturals

CONSTANTS
  None, Torn,   \* no value; an owner record that is not whole
  Total,        \* length of the remote file, in chunks
  Metas,        \* what a snapshot tells apart
  MaxVersions,  \* bound: versions the other program writes
  MaxRemote,    \* bound: versions of the remote file
  MaxAttempts,  \* bound: downloads begun
  MaxFaults     \* bound: failing calls and ends of the program

\* What a model must choose.
DownloadBoundsAssumption ==
  /\ Total \in Nat \ {0} /\ Metas \subseteq Nat /\ Metas # {}
  /\ {MaxVersions, MaxRemote, MaxAttempts, MaxFaults} \subseteq Nat

VARIABLES
  target, staged, backup,  \* the three files, or None
  linked,      \* target and backup are two names of one file
  owner,       \* the owner record: None, Torn, or what it names
  dir,         \* the workspace exists
  remote,      \* current version of the remote file
  looks,       \* the metadata that each of its versions had: size and time
  step, source, expected, outcome,   \* the attempt
  checkpoint,  \* what the caller knows to be staged, or None
  attempts, faults,
  version,     \* last version the other program wrote
  saved,       \* versions of the other program it still has to find
  published    \* this attempt has linked its file into place

files == <<target, staged, backup, linked>>
workspace == <<owner, dir>>
attempt == <<source, expected, attempts>>
other == <<version, saved>>
server == <<remote, looks>>
vars == <<files, workspace, server, step, attempt, outcome, checkpoint, faults,
          other, published>>

UserFile(v, m) == [by |-> "other", body |-> {v}, size |-> 0, meta |-> m]
StageFile(b, n) == [by |-> "download", body |-> b, size |-> n, meta |-> 0]

\* local_file_snapshot.
Snapshot(f) == IF f = None THEN None ELSE f.meta
OthersIn(f) == IF f # None /\ f.by = "other" THEN f.body ELSE {}

Steps == {"idle", "workspace", "owner", "stage", "write", "discard",
          "check", "link", "verify", "recheck", "unlink", "publish", "restore",
          "unlink_restored", "unlink_staged", "unlink_backup", "cleanup"}

Init ==
  /\ target \in {None} \cup {UserFile(0, m) : m \in Metas}
  /\ staged = None /\ backup = None /\ linked = FALSE /\ owner = None
  /\ dir = FALSE /\ remote = 0 /\ looks = [v \in 0 .. MaxRemote |-> 0]
  /\ step = "idle" /\ source = 0 /\ expected = None
  /\ outcome = None /\ checkpoint = None /\ attempts = 0
  /\ faults = 0 /\ version = 0 /\ published = FALSE
  /\ saved = (IF target = None THEN {} ELSE {0})

\* What the remote metadata show now.
Look == looks[remote]

Fault == faults < MaxFaults /\ faults' = faults + 1
End(o) == outcome' = o /\ step' = "idle"

-----------------------------------------------------------------------------
\* prepare_local_download_artifacts.

\* A new plan has a workspace of its own; one that an earlier attempt left
\* without a backup is not followed any longer.
BeginFresh ==
  /\ step = "idle" /\ backup = None /\ attempts < MaxAttempts
  /\ attempts' = attempts + 1 /\ source' = Look /\ expected' = target
  /\ staged' = None /\ owner' = None /\ dir' = FALSE
  /\ checkpoint' = None /\ published' = FALSE /\ step' = "workspace"
  /\ UNCHANGED <<target, backup, linked, server, outcome, faults, other>>

CreateWorkspace ==
  /\ step = "workspace" /\ dir' = TRUE /\ step' = "owner"
  /\ UNCHANGED <<files, owner, server, attempt, outcome, checkpoint, faults,
                 other, published>>

\* The record names the source and the file that is to be replaced.
OwnerRecord == <<source, Snapshot(expected)>>

WriteOwner ==
  /\ step = "owner" /\ owner' = OwnerRecord /\ step' = "stage"
  /\ UNCHANGED <<files, dir, server, attempt, outcome, checkpoint, faults, other,
                 published>>

CreateStage ==
  /\ step = "stage" /\ staged' = StageFile({}, 0) /\ step' = "write"
  /\ UNCHANGED <<target, backup, linked, workspace, server, attempt, outcome,
                 checkpoint, faults, other, published>>

\* What this attempt made is removed again.
PrepareFails ==
  /\ step \in {"workspace", "owner", "stage"} /\ Fault
  /\ owner' = None /\ dir' = FALSE /\ End("failed")
  /\ UNCHANGED <<files, server, attempt, checkpoint, other, published>>

Owns(s, e) == owner = <<s, e>>

\* validate_download_resume_checkpoint, validate_local_download_workspace.
Resumable ==
  /\ checkpoint.remote = Look /\ dir /\ Owns(Look, Snapshot(target))
  /\ staged # None /\ staged.size = checkpoint.size /\ backup = None

BeginResumed ==
  /\ step = "idle" /\ checkpoint # None /\ attempts < MaxAttempts
  /\ attempts' = attempts + 1 /\ published' = FALSE
  /\ source' = Look /\ expected' = target
  /\ IF Resumable
       THEN step' = "write" /\ UNCHANGED outcome
       ELSE step' = "idle" /\ outcome' = "conflict"
  /\ UNCHANGED <<files, workspace, server, checkpoint, faults, other>>

-----------------------------------------------------------------------------
\* stream_download.

WriteLimit == staged.size < Total

\* One chunk; the checkpoint is recorded when the write was accepted.
Write ==
  /\ step = "write" /\ WriteLimit
  /\ staged' = StageFile(staged.body \cup {remote}, staged.size + 1)
  /\ checkpoint' = [size |-> staged.size + 1, remote |-> source]
  /\ UNCHANGED <<target, backup, linked, workspace, server, step, attempt,
                 outcome, faults, other, published>>

\* Mutant: the remote file is not looked at again after it was read.
SourceUnchangedAssumed == TRUE
\* The remote metadata is compared once more.
SourceUnchanged == Look = source

\* The staged file is synced and gets the remote time.
Staged ==
  /\ step = "write" /\ staged.size = Total
  /\ IF SourceUnchanged
       THEN step' = "check" /\ UNCHANGED outcome
       ELSE End("failed")
  /\ UNCHANGED <<files, workspace, server, attempt, checkpoint, faults, other,
                 published>>

WriteFails ==
  /\ step = "write" /\ Fault /\ End("failed")
  /\ UNCHANGED <<files, workspace, server, attempt, checkpoint, other, published>>

\* A cancelled download keeps its workspace only if it can be resumed.
Cancel ==
  /\ step = "write" /\ outcome' = "cancelled"
  /\ \/ checkpoint # None /\ step' = "idle"
     \/ step' = "discard"
  /\ UNCHANGED <<files, workspace, server, attempt, checkpoint, faults, other,
                 published>>

-----------------------------------------------------------------------------
\* promote_local_download.

Check ==
  /\ step = "check"
  /\ CASE backup # None -> End("conflict")
       [] backup = None /\ Snapshot(target) # Snapshot(expected) -> End("destination_changed")
       [] OTHER -> /\ step' = IF expected = None THEN "publish" ELSE "link"
                   /\ UNCHANGED outcome
  /\ UNCHANGED <<files, workspace, server, attempt, checkpoint, faults, other,
                 published>>

\* hard_link(target, backup).
LinkBackup ==
  /\ step = "link"
  /\ IF target # None
       THEN backup' = target /\ linked' = TRUE /\ step' = "verify" /\ UNCHANGED outcome
       ELSE End("failed") /\ UNCHANGED <<backup, linked>>
  /\ UNCHANGED <<target, staged, workspace, server, attempt, checkpoint, faults,
                 other, published>>

Acquired == Snapshot(backup) = Snapshot(expected)

VerifyBackup ==
  /\ step = "verify"
  /\ IF Acquired
       THEN step' = "recheck" /\ UNCHANGED <<backup, linked, outcome>>
       ELSE backup' = None /\ linked' = FALSE /\ End("destination_changed")
  /\ UNCHANGED <<target, staged, workspace, server, attempt, checkpoint, faults,
                 other, published>>

\* Mutant: the target is not looked at again once it is linked.
StillCurrentAssumed == TRUE
StillCurrent == Snapshot(target) = Snapshot(expected)

Recheck ==
  /\ step = "recheck"
  /\ IF StillCurrent
       THEN step' = "unlink" /\ UNCHANGED outcome
       ELSE End("destination_changed")
  /\ UNCHANGED <<files, workspace, server, attempt, checkpoint, faults, other,
                 published>>

\* remove_file(target).
UnlinkTarget ==
  /\ step = "unlink"
  /\ IF target # None
       THEN target' = None /\ linked' = FALSE /\ step' = "publish" /\ UNCHANGED outcome
       ELSE End("failed") /\ UNCHANGED <<target, linked>>
  /\ UNCHANGED <<staged, backup, workspace, server, attempt, checkpoint, faults,
                 other, published>>

\* hard_link(staged, target).
Publish ==
  /\ step = "publish"
  /\ IF target = None
       THEN /\ target' = staged /\ published' = TRUE /\ step' = "unlink_staged"
            /\ saved' = saved \ OthersIn(expected) /\ UNCHANGED outcome
       ELSE End("destination_changed") /\ UNCHANGED <<target, saved, published>>
  /\ UNCHANGED <<staged, backup, linked, workspace, server, attempt, checkpoint,
                 faults, version>>

\* The link fails on its own account: the old file is brought back.
PublishFails ==
  /\ step = "publish" /\ Fault
  /\ CASE target # None -> End("destination_changed")
       [] target = None /\ expected # None -> step' = "restore" /\ UNCHANGED outcome
       [] OTHER -> End("failed")
  /\ UNCHANGED <<files, workspace, server, attempt, checkpoint, other, published>>

\* restore_local_backup_no_replace: link the backup, then remove its name.
RestoreBackup ==
  /\ step = "restore"
  /\ IF target = None
       THEN /\ target' = backup /\ linked' = TRUE /\ step' = "unlink_restored"
            /\ UNCHANGED outcome
       ELSE End("recovery_failed") /\ UNCHANGED <<target, linked>>
  /\ UNCHANGED <<staged, backup, workspace, server, attempt, checkpoint, faults,
                 other, published>>

UnlinkRestored ==
  /\ step = "unlink_restored" /\ backup' = None /\ linked' = FALSE /\ End("failed")
  /\ UNCHANGED <<target, staged, workspace, server, attempt, checkpoint, faults,
                 other, published>>

UnlinkStaged ==
  /\ step = "unlink_staged" /\ staged' = None
  /\ step' = IF expected = None THEN "cleanup" ELSE "unlink_backup"
  /\ UNCHANGED <<target, backup, linked, workspace, server, attempt, outcome,
                 checkpoint, faults, other, published>>

UnlinkBackup ==
  /\ step = "unlink_backup" /\ backup' = None /\ step' = "cleanup"
  /\ UNCHANGED <<target, staged, linked, workspace, server, attempt, outcome,
                 checkpoint, faults, other, published>>

\* cleanup_owned_local_download_workspace.
MayClean == dir /\ Owns(source, Snapshot(expected)) /\ backup = None

Cleanup ==
  /\ step \in {"cleanup", "discard"} /\ step' = "idle"
  /\ IF MayClean
       THEN /\ staged' = None /\ owner' = None /\ dir' = FALSE
            /\ outcome' = IF step = "cleanup" THEN "ok" ELSE outcome
       ELSE /\ outcome' = IF step = "cleanup" THEN "conflict" ELSE outcome
            /\ UNCHANGED <<staged, workspace>>
  /\ UNCHANGED <<target, backup, linked, server, attempt, checkpoint, faults,
                 other, published>>

\* Mutant: an error of the last cleaning up is ignored.
ErrorOfIgnored ==
  CASE step = "cleanup" -> "ok" [] step = "discard" -> outcome [] OTHER -> "failed"
\* The error of a failing call, by the step it fails in.
ErrorOf ==
  CASE step = "restore" -> "recovery_failed"
    [] step \in {"unlink_restored", "unlink_staged", "unlink_backup"} -> "cleanup_failed"
    [] step = "discard" -> outcome
    [] OTHER -> "failed"

CallFails ==
  /\ step \in {"check", "link", "verify", "recheck", "unlink", "restore",
               "unlink_restored", "unlink_staged", "unlink_backup", "cleanup",
               "discard"}
  /\ Fault /\ End(ErrorOf)
  /\ UNCHANGED <<files, workspace, server, attempt, checkpoint, other, published>>

\* A removal of the clean-up fails, or the program ends before it: what came before it
\* in the order stage, record, workspace is gone.
CleanupStops ==
  /\ step \in {"cleanup", "discard"} /\ MayClean /\ Fault
  /\ staged' = None /\ owner' \in {owner, None}
  /\ End(ErrorOf) \/ End("ended")
  /\ UNCHANGED <<target, backup, linked, dir, server, attempt, checkpoint, other,
                 published>>

\* The program ends.  A chunk whose checkpoint was recorded may not have
\* reached the file, and the owner record may not be whole.
Crash ==
  /\ step # "idle" /\ Fault /\ End("ended")
  /\ staged' \in IF step = "write" /\ staged.size > 0
                   THEN {staged, StageFile(staged.body, staged.size - 1)}
                   ELSE {staged}
  /\ owner' \in IF step = "owner" THEN {None, Torn} ELSE {owner}
  /\ UNCHANGED <<target, backup, linked, dir, server, attempt, checkpoint, other,
                 published>>

-----------------------------------------------------------------------------
\* The surroundings.

RemoteEdited ==
  /\ remote < MaxRemote /\ remote' = remote + 1
  /\ \E l \in 0 .. remote' : looks' = [looks EXCEPT ![remote'] = l]
  /\ UNCHANGED <<files, workspace, step, attempt, outcome, checkpoint, faults,
                 other, published>>

\* Which versions the code can notice: until the last comparison, those with
\* another snapshot; from the removal of the target on, all of them.
Noticed(m) ==
  \/ step \in {"idle", "publish", "restore", "unlink_restored", "unlink_staged",
               "unlink_backup", "cleanup", "discard"}
  \/ step # "unlink" /\ m # Snapshot(expected)

OtherReplaces(m) ==
  /\ version < MaxVersions /\ version' = version + 1
  /\ target' = UserFile(version', m) /\ linked' = FALSE
  /\ saved' = (saved \ OthersIn(target)) \cup IF Noticed(m) THEN {version'} ELSE {}
  /\ UNCHANGED <<staged, backup, workspace, server, step, attempt, outcome,
                 checkpoint, faults, published>>

OtherWrites(m) ==
  /\ target # None /\ target.by = "other"
  /\ version < MaxVersions /\ version' = version + 1
  /\ target' = UserFile(version', m)
  /\ backup' = IF linked THEN target' ELSE backup
  /\ saved' = (saved \ OthersIn(target)) \cup IF Noticed(m) THEN {version'} ELSE {}
  /\ UNCHANGED <<staged, linked, workspace, server, step, attempt, outcome,
                 checkpoint, faults, published>>

OtherRemoves ==
  /\ target # None /\ target.by = "other"
  /\ target' = None /\ linked' = FALSE /\ saved' = saved \ target.body
  /\ UNCHANGED <<staged, backup, workspace, server, step, attempt, outcome,
                 checkpoint, faults, version, published>>

Next ==
  \/ BeginFresh \/ BeginResumed \/ CreateWorkspace \/ WriteOwner \/ CreateStage
  \/ PrepareFails \/ Write \/ WriteFails \/ Staged \/ Cancel
  \/ Check \/ LinkBackup \/ VerifyBackup \/ Recheck \/ UnlinkTarget
  \/ Publish \/ PublishFails \/ RestoreBackup \/ UnlinkRestored
  \/ UnlinkStaged \/ UnlinkBackup \/ Cleanup \/ CallFails
  \/ CleanupStops \/ Crash
  \/ RemoteEdited \/ \E m \in Metas : OtherReplaces(m) \/ OtherWrites(m)
  \/ OtherRemoves

Spec == Init /\ [][Next]_vars

-----------------------------------------------------------------------------
Files == [by : {"other"}, body : SUBSET (0 .. MaxVersions), size : {0}, meta : Metas]
         \cup [by : {"download"}, body : SUBSET (0 .. MaxRemote),
               size : 0 .. Total, meta : {0}]

\* Types; the two names of one file agree.
TypeOK ==
  /\ {target, staged, backup} \subseteq Files \cup {None}
  /\ linked \in BOOLEAN /\ (linked => target = backup)
  /\ owner \in ((0 .. MaxRemote) \X (Metas \cup {0, None})) \cup {None, Torn}
  /\ step \in Steps /\ dir \in BOOLEAN /\ looks \in [0 .. MaxRemote -> 0 .. MaxRemote]
  /\ expected \in Files \cup {None} /\ source \in 0 .. MaxRemote
  /\ checkpoint \in [size : 0 .. Total, remote : 0 .. MaxRemote] \cup {None}
  /\ faults <= MaxFaults /\ attempts <= MaxAttempts /\ saved \subseteq 0 .. version

\* A version of the target that the code could notice is never lost, whatever
\* fails and wherever the program ends: it is at the target or in the backup
\* until a download that saw it as the old file is in its place.
SavedKept == saved \subseteq OthersIn(target) \cup OthersIn(backup)

\* What the target shows of a download is a whole file, however often it was resumed,
\* and all of it one version of the remote file as long as no two of its versions had
\* one size and time: a download reads on, and is resumed, through an edit that the
\* metadata do not show.
PublishedWhole ==
  (target # None /\ target.by = "download") =>
    /\ target.size = Total
    /\ \/ \E v \in 0 .. MaxRemote : target.body = {v}
       \/ \E v, w \in 0 .. remote : v # w /\ looks[v] = looks[w]

\* A download that reports success has published and left nothing behind; one
\* that reports a changed destination, a cancellation or a failed recovery has
\* not published.  A plain failure says nothing: the cleaning up may have
\* failed after the publication.
OutcomeTruthful ==
  step = "idle" =>
    /\ outcome = "ok" => published
    /\ outcome = "cleanup_failed" /\ staged = None => published
    /\ outcome \in {"destination_changed", "cancelled", "recovery_failed"} => ~published
    /\ outcome = "ok" /\ published => backup = None /\ ~dir
=============================================================================
