----------------------------- MODULE SafeUpload -----------------------------
(***************************************************************************)
(* The replacement of one remote file over SFTP (netcatty-ssh/src/sftp.rs). *)
(* The new body is written to a staged file in a private workspace beside  *)
(* the target; the target is then moved to a backup with a rename that     *)
(* never overwrites, and the staged file moved into its place.             *)
(*                                                                         *)
(* Two callers use the protocol.  A streaming upload ("stream") keeps its  *)
(* plan and may be resumed in the same workspace.  The remote editor       *)
(* ("editor") replaces a file only while it still has the body it read.    *)
(*                                                                         *)
(* Another client of the server works on the target at the same time: it   *)
(* replaces or removes it, and writes through a handle it opened earlier.  *)
(* SFTP has no compare-and-swap, so which of its versions survive is the   *)
(* question.  A version has a body and metadata; two bodies may have equal *)
(* metadata (same size, saved in the same second).  Any call may fail, and *)
(* a call that changes a file may fail after it took effect: its reply is  *)
(* not awaited for longer than 30 seconds (sftp.rs:268).  The server       *)
(* answers the requests of a session in order, so a call that has failed   *)
(* takes effect before the next one or never.  An attempt may be abandoned *)
(* at any point (lost connection, end of the program).                     *)
(***************************************************************************)
EXTENDS Naturals

CONSTANTS
  None, Torn,   \* no value; an owner record that is not whole
  Total,        \* length of the uploaded file, in chunks
  Metas,        \* what metadata tells apart: size, time, permissions
  MaxVersions,  \* bound: versions the other client writes
  MaxSources,   \* bound: versions of the local file
  MaxAttempts,  \* bound: uploads begun
  MaxFaults     \* bound: failing calls and abandoned attempts

Versions == 0 .. MaxVersions

\* What a file can be: a version of the other client, or what was uploaded of the
\* versions of the source.
Files == [by : {"other"}, body : SUBSET Versions, size : {0}, meta : Metas]
         \cup [by : {"upload"}, body : SUBSET (0 .. MaxSources),
               size : 0 .. Total, meta : {0}]

\* What an attempt can report.
Outcomes == {"ok", "failed", "conflict", "size_mismatch", "source_changed",
             "destination_changed", "promotion_failed", "recovery_failed",
             "cleanup_failed", "abandoned"}

\* What a model must choose.  The marks for no value and for a torn record are
\* neither a file nor a fingerprint, nor the name of a file or an outcome.
BoundsAssumption ==
  /\ Total \in Nat \ {0} /\ Metas \subseteq Nat /\ Metas # {}
  /\ {MaxVersions, MaxSources, MaxAttempts, MaxFaults} \subseteq Nat
  /\ None \notin Nat \cup Files \cup {"target", "backup"} \cup Outcomes
  /\ Torn \notin Nat \cup {None}

VARIABLES
  target, staged, backup,  \* the three files, or None
  owner,      \* the owner record: None, Torn, or the fingerprint it names
  dir,        \* the workspace exists
  local,      \* current version of the local source
  step, kind, source, initial, expected, outcome,  \* the attempt
  checkpoint, \* chunks the caller knows to be staged, or None
  attempts, faults,
  handle,     \* the file the other client has open
  version,    \* last version the other client wrote
  saved,      \* versions of the other client it still has to find
  published,  \* this attempt has moved its file into place
  unheard     \* its acquisition or publication took effect, the reply was lost

files == <<target, staged, backup>>
workspace == <<owner, dir>>
attempt == <<kind, source, initial, expected, attempts, unheard>>
other == <<handle, version, saved>>
vars == <<files, workspace, local, step, attempt, outcome, checkpoint, faults,
          other, published>>

UserFile(v, m) == [by |-> "other", body |-> {v}, size |-> 0, meta |-> m]
StageFile(b, n) == [by |-> "upload", body |-> b, size |-> n, meta |-> 0]
Empty == StageFile({}, 0)

Steps == {"idle", "workspace", "owner", "stage", "discover", "resume", "write",
          "compare", "validate", "check", "acquire", "verify", "restore",
          "publish", "recover", "reverify", "drop", "cleanup", "discard"}

Init ==
  /\ target \in {None} \cup {UserFile(0, m) : m \in Metas}
  /\ staged = None /\ backup = None /\ owner = None /\ dir = FALSE
  /\ local = 0 /\ step = "idle" /\ kind = "stream" /\ source = 0
  /\ initial = None /\ expected = None /\ outcome = None /\ checkpoint = None
  /\ attempts = 0 /\ faults = 0 /\ handle = None /\ version = 0
  /\ saved = (IF target = None THEN {} ELSE {0}) /\ published = FALSE /\ unheard = FALSE

Meta(f) == IF f = None THEN None ELSE f.meta
Body(f) == IF f = None THEN None ELSE <<f.by, f.body>>
OthersIn(f) == IF f # None /\ f.by = "other" THEN f.body ELSE {}

Fault == faults < MaxFaults /\ faults' = faults + 1

\* The editor's attempts end by discarding what they own; an upload keeps its
\* workspace for a retry.
LeftTo == IF kind = "editor" THEN "discard" ELSE "idle"

End(o) == outcome' = o /\ step' = LeftTo

-----------------------------------------------------------------------------
\* The beginning of an attempt.

\* The editor loads the file it will later replace.
EditorReads ==
  /\ step = "idle" /\ target # None /\ expected # Body(target)
  /\ expected' = Body(target)
  /\ UNCHANGED <<files, workspace, local, step, kind, source, initial, attempts,
                 outcome, checkpoint, faults, other, published, unheard>>

\* safe_upload_inner with the expected body: read again before anything is
\* staged.  Its plan is new, so the workspace does not exist yet.
BeginEditor ==
  /\ step = "idle" /\ ~dir /\ expected # None /\ attempts < MaxAttempts
  /\ attempts' = attempts + 1 /\ kind' = "editor" /\ published' = FALSE
  /\ unheard' = FALSE
  /\ source' = local /\ initial' = target
  /\ IF Body(target) = expected
       THEN step' = "workspace" /\ UNCHANGED outcome
       ELSE step' = "idle" /\ outcome' = "destination_changed"
  /\ UNCHANGED <<files, workspace, local, expected, checkpoint, faults, other>>

\* stage_stream_safe_upload, with the caller's checkpoint or without.  A
\* workspace the editor left belongs to another plan and is not followed on.
BeginStream ==
  /\ step = "idle" /\ (dir => kind = "stream") /\ attempts < MaxAttempts
  /\ attempts' = attempts + 1 /\ kind' = "stream" /\ published' = FALSE
  /\ unheard' = FALSE
  /\ source' = local /\ initial' = target
  /\ \/ checkpoint # None /\ step' = "resume"
     \/ step' = "workspace"
  /\ UNCHANGED <<files, workspace, local, expected, outcome, checkpoint, faults,
                 other>>

\* create_dir: an existing workspace is a conflict, from which an upload may
\* still discover its own stage.
CreateWorkspace ==
  /\ step = "workspace"
  /\ IF dir
       THEN step' = "discover" /\ UNCHANGED dir
       ELSE dir' = TRUE /\ step' = "owner"
  /\ UNCHANGED <<files, owner, local, attempt, outcome, checkpoint, faults,
                 other, published>>

CreateWorkspaceFails ==
  /\ step = "workspace" /\ Fault /\ (dir' = TRUE \/ UNCHANGED dir)
  /\ IF kind = "stream"
       THEN step' = "discover" /\ UNCHANGED outcome
       ELSE step' = "idle" /\ outcome' = "conflict"
  /\ UNCHANGED <<files, owner, local, attempt, checkpoint, other, published>>

WriteOwner ==
  /\ step = "owner" /\ owner' = source /\ step' = "stage"
  /\ UNCHANGED <<files, dir, local, attempt, outcome, checkpoint, faults, other,
                 published>>

\* A record that does not read back as the expected one stays with its workspace;
\* one that was written although the call failed is removed, if it can be.
WriteOwnerFails ==
  /\ step = "owner" /\ Fault
  /\ \/ owner' \in {None, Torn, source} /\ UNCHANGED dir
     \/ owner' = None /\ dir' = FALSE
  /\ step' = "idle" /\ outcome' = "failed"
  /\ UNCHANGED <<files, local, attempt, checkpoint, other, published>>

CreateStage ==
  /\ step = "stage" /\ staged' = Empty
  /\ checkpoint' = IF kind = "stream" THEN 0 ELSE checkpoint
  /\ step' = "write"
  /\ UNCHANGED <<target, backup, workspace, local, attempt, outcome, faults,
                 other, published>>

\* The workspace is given up.  A stage that was created although the call failed
\* keeps it from being removed.
CreateStageFails ==
  /\ step = "stage" /\ Fault
  /\ \/ owner' = None /\ dir' = FALSE /\ UNCHANGED staged
     \/ owner' \in {None, owner} /\ staged' \in {None, Empty} /\ UNCHANGED dir
  /\ step' = "idle" /\ outcome' \in {"conflict", "failed"}
  /\ UNCHANGED <<target, backup, local, attempt, checkpoint, other, published>>

\* Mutant: the fingerprint of the source is not part of the record.
OwnedAnySource == owner \notin {None, Torn}
\* The owner record names this plan and this source.
OwnedHere == owner = source

\* validate_resume_artifact_upload and discover_owned_artifact_checkpoint: a
\* stage is continued only from the length it really has, and never beside a
\* backup.
Resumable(n) ==
  dir /\ OwnedHere /\ backup = None /\ staged # None /\ staged.size = n

Discover ==
  /\ step = "discover"
  /\ IF staged # None /\ staged.size <= Total /\ Resumable(staged.size)
       THEN step' = "write" /\ checkpoint' = staged.size /\ UNCHANGED outcome
       ELSE End("conflict") /\ UNCHANGED checkpoint
  /\ UNCHANGED <<files, workspace, local, attempt, faults, other, published>>

Resume ==
  /\ step = "resume"
  /\ IF Resumable(checkpoint)
       THEN step' = "write" /\ UNCHANGED outcome
       ELSE End("conflict")
  /\ UNCHANGED <<files, workspace, local, attempt, checkpoint, faults, other,
                 published>>

-----------------------------------------------------------------------------
\* Staging.

WriteLimit == staged.size < Total

\* One chunk of a stream; the editor writes its body in one piece.
Written == IF kind = "editor" THEN StageFile({source}, Total)
           ELSE StageFile(staged.body \cup {local}, staged.size + 1)

Write ==
  /\ step = "write" /\ staged # None /\ WriteLimit
  /\ staged' = Written
  /\ checkpoint' = IF kind = "stream" THEN staged'.size ELSE checkpoint
  /\ UNCHANGED <<target, backup, workspace, local, step, attempt, outcome,
                 faults, other, published>>

\* The chunk may have reached the server although the call failed; the
\* checkpoint does not count it.
WriteFails ==
  /\ step = "write" /\ staged # None /\ staged.size < Total /\ Fault
  /\ staged' \in {staged, Written}
  /\ End("failed")
  /\ UNCHANGED <<target, backup, workspace, local, attempt, checkpoint, other,
                 published>>

\* The fingerprint of the open source is compared once more.
SourceUnchanged == kind = "editor" \/ local = source

Staged ==
  /\ step = "write" /\ staged # None /\ staged.size = Total
  /\ IF SourceUnchanged
       THEN /\ step' = IF kind = "editor" THEN "compare" ELSE "validate"
            /\ UNCHANGED outcome
       ELSE End("source_changed")
  /\ UNCHANGED <<files, workspace, local, attempt, checkpoint, faults, other,
                 published>>

\* The editor reads the target again before it publishes.
Compare ==
  /\ step = "compare"
  /\ IF Meta(target) = Meta(initial) /\ Body(target) = expected
       THEN step' = "validate" /\ UNCHANGED outcome
       ELSE End("destination_changed")
  /\ UNCHANGED <<files, workspace, local, attempt, checkpoint, faults, other,
                 published>>

-----------------------------------------------------------------------------
\* promote_staged_upload_inner.

Validate ==
  /\ step = "validate"
  /\ IF owner \in {None, Torn} THEN End("conflict")
     ELSE IF staged = None \/ staged.size # Total THEN End("size_mismatch")
     ELSE IF backup # None THEN End("conflict")
     ELSE step' = "check" /\ UNCHANGED outcome
  /\ UNCHANGED <<files, workspace, local, attempt, checkpoint, faults, other,
                 published>>

Check ==
  /\ step = "check"
  /\ IF Meta(target) # Meta(initial)
       THEN End("destination_changed")
       ELSE /\ step' = IF initial = None THEN "publish" ELSE "acquire"
            /\ UNCHANGED outcome
  /\ UNCHANGED <<files, workspace, local, attempt, checkpoint, faults, other,
                 published>>

\* The open handle of the other client follows the file it belongs to.
Moved(from, to) == handle' = IF handle = from THEN to ELSE handle

\* rename_no_overwrite(target, backup).
MayMoveAway == target # None /\ backup = None
MoveAway == backup' = target /\ target' = None /\ Moved("target", "backup")

Acquire ==
  /\ step = "acquire"
  /\ IF MayMoveAway
       THEN /\ MoveAway
            /\ step' = IF kind = "editor" THEN "verify" ELSE "publish"
            /\ UNCHANGED <<staged, outcome>>
       ELSE End("promotion_failed") /\ UNCHANGED <<files, handle>>
  /\ UNCHANGED <<workspace, local, attempt, checkpoint, faults, version, saved,
                 published>>

\* An acquisition that failed is not looked into: if it took effect, the old file
\* stays in the backup.
AcquireFails ==
  /\ step = "acquire" /\ Fault /\ End("promotion_failed")
  /\ \/ UNCHANGED <<target, backup, handle, unheard>>
     \/ MayMoveAway /\ MoveAway /\ unheard' = TRUE
  /\ UNCHANGED <<staged, workspace, local, kind, source, initial, expected, attempts,
                 checkpoint, version, saved, published>>

\* Mutant: the acquired file is recognised by its metadata alone.
MatchesMeta == Meta(backup) = Meta(initial)
\* backup_matches_expected.
Matches == Meta(backup) = Meta(initial) /\ Body(backup) = expected

Verify ==
  /\ step = "verify"
  /\ step' = IF Matches THEN "publish" ELSE "restore"
  /\ outcome' = IF Matches THEN outcome ELSE "destination_changed"
  /\ UNCHANGED <<files, workspace, local, attempt, checkpoint, faults, other,
                 published>>

VerifyFails ==
  /\ step = "verify" /\ Fault
  /\ step' = "restore" /\ outcome' = "failed"
  /\ UNCHANGED <<files, workspace, local, attempt, checkpoint, other, published>>

\* Mutant: a failed recovery is reported as a failed publication.
RecoveryErrorHidden == "promotion_failed"
RecoveryError == "recovery_failed"

\* rename_no_overwrite(backup, target).
MayRestore == backup # None /\ target = None
MoveBack == target' = backup /\ backup' = None /\ Moved("backup", "target")

\* restore_conditional_backup; the error found is already in outcome.
Restore ==
  /\ step = "restore"
  /\ IF MayRestore
       THEN MoveBack /\ End(outcome) /\ UNCHANGED staged
       ELSE End(RecoveryError) /\ UNCHANGED <<files, handle>>
  /\ UNCHANGED <<workspace, local, attempt, checkpoint, faults, version, saved,
                 published>>

\* rename_no_overwrite(staged, target).
MayMoveIn == target = None /\ staged # None
MoveIn ==
  /\ target' = staged /\ staged' = None /\ published' = TRUE
  /\ saved' = saved \ OthersIn(initial)

Publish ==
  /\ step = "publish"
  /\ IF MayMoveIn
       THEN /\ MoveIn
            /\ step' = IF initial = None THEN "cleanup"
                       ELSE IF kind = "editor" THEN "reverify" ELSE "drop"
       ELSE step' = "recover" /\ UNCHANGED <<target, staged, saved, published>>
  /\ UNCHANGED <<backup, workspace, local, attempt, outcome, checkpoint, faults,
                 handle, version>>

\* A publication that failed is taken for one that did nothing.
PublishFails ==
  /\ step = "publish" /\ Fault /\ step' = "recover"
  /\ \/ UNCHANGED <<target, staged, saved, published, unheard>>
     \/ MayMoveIn /\ MoveIn /\ unheard' = TRUE
  /\ UNCHANGED <<backup, workspace, local, kind, source, initial, expected, attempts,
                 outcome, checkpoint, handle, version>>

\* can_restore_backup_after_failed_promotion.
CanRestore == target = None /\ Meta(backup) = Meta(initial)

\* The publication failed: bring the old file back if its place is free.
Recover ==
  /\ step = "recover"
  /\ CASE initial = None -> End("promotion_failed") /\ UNCHANGED <<files, handle>>
       [] initial # None /\ CanRestore /\ backup # None ->
            MoveBack /\ End("promotion_failed") /\ UNCHANGED staged
       [] OTHER -> End(RecoveryError) /\ UNCHANGED <<files, handle>>
  /\ UNCHANGED <<workspace, local, attempt, checkpoint, faults, version, saved,
                 published>>

\* The publication is visible; an unknown backup is kept.
Reverify ==
  /\ step = "reverify"
  /\ IF Matches
       THEN step' = "drop" /\ UNCHANGED outcome
       ELSE End("cleanup_failed")
  /\ UNCHANGED <<files, workspace, local, attempt, checkpoint, faults, other,
                 published>>

\* remove_backup_with_retry.
DropBackup == backup' = None /\ Moved("backup", None)

Drop ==
  /\ step = "drop" /\ DropBackup /\ step' = "cleanup"
  /\ UNCHANGED <<target, staged, workspace, local, attempt, outcome, checkpoint,
                 faults, version, saved, published>>

\* The last of its attempts fails, as it does after one that removed the backup and
\* whose reply was lost.
DropFails ==
  /\ step = "drop" /\ Fault /\ End("cleanup_failed")
  /\ DropBackup \/ UNCHANGED <<backup, handle>>
  /\ UNCHANGED <<target, staged, workspace, local, attempt, checkpoint, version, saved,
                 published>>

\* cleanup_committed_artifact_workspace.
MayCleanup == staged = None /\ backup = None /\ owner \notin {None, Torn}

Cleanup ==
  /\ step = "cleanup"
  /\ IF MayCleanup
       THEN /\ owner' = None /\ dir' = FALSE
            /\ step' = "idle" /\ outcome' = "ok"
       ELSE End("conflict") /\ UNCHANGED workspace
  /\ UNCHANGED <<files, local, attempt, checkpoint, faults, other, published>>

\* A look at the workspace fails, or a removal does: then the owner record is written
\* again, if it can be.
CleanupFails ==
  /\ step = "cleanup" /\ Fault
  /\ \/ (End("conflict") \/ End("failed")) /\ UNCHANGED workspace
     \/ /\ MayCleanup /\ End("cleanup_failed")
        /\ \/ owner' \in {None, Torn, owner} /\ UNCHANGED dir
           \/ owner' = None /\ dir' = FALSE
  /\ UNCHANGED <<files, local, attempt, checkpoint, other, published>>

\* A call of one of the checking steps fails.
CheckFails ==
  /\ step \in {"discover", "resume", "compare", "validate", "check"} /\ Fault
  /\ End(IF step \in {"discover", "resume"} THEN "conflict" ELSE "failed")
  /\ UNCHANGED <<files, workspace, local, attempt, checkpoint, other, published>>

\* A recovery that took effect although the call failed is not told from one that did
\* not.
RecoveryFails ==
  /\ step \in {"restore", "recover"} /\ initial # None /\ Fault
  /\ \/ UNCHANGED <<target, backup, handle>>
     \/ MayRestore /\ (step = "recover" => CanRestore) /\ MoveBack
  /\ End(RecoveryError)
  /\ UNCHANGED <<staged, workspace, local, attempt, checkpoint, version, saved, published>>

\* The second comparison cannot be made: the backup is kept as well.
ReverifyFails ==
  /\ step = "reverify" /\ Fault /\ End("cleanup_failed")
  /\ UNCHANGED <<files, workspace, local, attempt, checkpoint, other, published>>

\* discard_owned_fresh_artifacts: only what is ours, and never beside a backup.
MayDiscard == backup = None /\ OwnedHere

Discard ==
  /\ step = "discard" /\ step' = "idle"
  /\ IF MayDiscard
       THEN staged' = None /\ owner' = None /\ dir' = (backup # None)
       ELSE UNCHANGED <<staged, workspace>>
  /\ UNCHANGED <<target, backup, local, attempt, outcome, checkpoint, faults, other,
                 published>>

\* What is left depends on the calls that failed.
DiscardFails ==
  /\ step = "discard" /\ Fault /\ step' = "idle"
  /\ \/ MayDiscard /\ staged' \in {staged, None} /\ owner' \in {owner, None}
     \/ UNCHANGED <<staged, owner>>
  /\ UNCHANGED <<target, backup, dir, local, attempt, outcome, checkpoint, other, published>>

\* The future is dropped: a timeout, a lost session, the end of the program.
Abandon ==
  /\ step # "idle" /\ Fault
  /\ step' = "idle" /\ outcome' = "abandoned"
  /\ UNCHANGED <<files, workspace, local, attempt, checkpoint, other, published>>

-----------------------------------------------------------------------------
\* The surroundings: the local file and the other client of the server.

SourceEdited ==
  /\ local < MaxSources /\ local' = local + 1
  /\ UNCHANGED <<files, workspace, step, attempt, outcome, checkpoint, faults,
                 other, published>>

\* Which versions the code can notice.  The editor compares bodies until it
\* publishes.  A streaming upload compares metadata, once, before it acquires
\* the target; what then appears at the free target is not overwritten.
NoticedAtTarget(m) ==
  \/ step \in {"idle", "publish", "recover", "drop", "cleanup"}
  \/ kind = "editor"
  \/ step # "acquire" /\ m # Meta(initial)
NoticedAtBackup ==
  IF kind = "editor" THEN ~published \/ step = "idle"
  ELSE step \notin {"publish", "drop"}

OtherReplaces(m) ==
  /\ version < MaxVersions /\ version' = version + 1
  /\ target' = UserFile(version', m)
  /\ saved' = (saved \ OthersIn(target))
                \cup IF NoticedAtTarget(m) THEN {version'} ELSE {}
  /\ handle' = IF handle = "target" THEN None ELSE handle
  /\ UNCHANGED <<staged, backup, workspace, local, step, attempt, outcome,
                 checkpoint, faults, published>>

OtherRemoves ==
  /\ target # None /\ target.by = "other"
  /\ target' = None /\ saved' = saved \ target.body
  /\ handle' = IF handle = "target" THEN None ELSE handle
  /\ UNCHANGED <<staged, backup, workspace, local, step, attempt, outcome,
                 checkpoint, faults, version, published>>

OtherOpens ==
  /\ target # None /\ target.by = "other" /\ handle = None /\ handle' = "target"
  /\ UNCHANGED <<files, workspace, local, step, attempt, outcome, checkpoint,
                 faults, version, saved, published>>

OtherWrites(m) ==
  /\ version < MaxVersions /\ version' = version + 1
  /\ \/ /\ handle = "target" /\ target' = UserFile(version', m)
        /\ saved' = (saved \ OthersIn(target))
                      \cup IF NoticedAtTarget(m) THEN {version'} ELSE {}
        /\ UNCHANGED backup
     \/ /\ handle = "backup" /\ backup' = UserFile(version', m)
        /\ saved' = (saved \ OthersIn(backup))
                      \cup IF NoticedAtBackup THEN {version'} ELSE {}
        /\ UNCHANGED target
  /\ UNCHANGED <<staged, workspace, local, step, attempt, outcome, checkpoint,
                 faults, handle, published>>

Next ==
  \/ EditorReads \/ BeginEditor \/ BeginStream
  \/ CreateWorkspace \/ CreateWorkspaceFails \/ WriteOwner \/ WriteOwnerFails
  \/ CreateStage \/ CreateStageFails \/ Discover \/ Resume
  \/ Write \/ WriteFails \/ Staged \/ Compare
  \/ Validate \/ Check \/ Acquire \/ AcquireFails \/ Verify \/ VerifyFails \/ Restore
  \/ Publish \/ PublishFails \/ Recover \/ RecoveryFails
  \/ Reverify \/ ReverifyFails \/ Drop \/ DropFails \/ Cleanup
  \/ CleanupFails \/ CheckFails
  \/ Discard \/ DiscardFails \/ Abandon \/ SourceEdited
  \/ \E m \in Metas : OtherReplaces(m) \/ OtherWrites(m)
  \/ OtherRemoves \/ OtherOpens

Spec == Init /\ [][Next]_vars

-----------------------------------------------------------------------------
\* Types; what is staged is never longer than the source.
TypeOK ==
  /\ {target, staged, backup} \subseteq Files \cup {None}
  /\ owner \in (0 .. MaxSources) \cup {None, Torn} /\ dir \in BOOLEAN
  /\ step \in Steps /\ kind \in {"stream", "editor"} /\ handle \in {None, "target", "backup"}
  /\ source \in 0 .. local /\ local <= MaxSources /\ outcome \in Outcomes \cup {None}
  /\ checkpoint \in (0 .. Total) \cup {None}
  /\ faults <= MaxFaults /\ attempts <= MaxAttempts
  /\ saved \subseteq 0 .. version /\ {published, unheard} \subseteq BOOLEAN

\* "Replaces an existing regular file only while it still contains the exact
\* bytes the caller previously read", and a mismatching backup "is restored
\* without overwrite or retained": every version of the other client that the
\* code could notice is at the target or in the backup, after any sequence of
\* failures, until an attempt that saw it as the old file replaces it.
SavedKept == saved \subseteq OthersIn(target) \cup OthersIn(backup)

\* What the target shows of an upload is a whole file, all of it read from one
\* version of the source, whatever was resumed.
PublishedWhole ==
  (target # None /\ target.by = "upload") =>
     target.size = Total /\ \E s \in 0 .. MaxSources : target.body = {s}

\* An attempt that reports success, or that only the cleaning up failed, has
\* published.  One that reports that the publication or the recovery failed has not,
\* and after a failed publication the old file is back in its place: unless the reply
\* to the rename that acquired or published was lost, which the attempt takes for a
\* rename that did nothing.  Any other failure means that nothing was published, or
\* that only the look at an emptied workspace failed.
OutcomeTruthful ==
  step = "idle" =>
    /\ outcome \in {"ok", "cleanup_failed"} => published
    /\ outcome \in {"destination_changed", "source_changed", "size_mismatch"} => ~published
    /\ outcome \in {"promotion_failed", "recovery_failed"} /\ published => unheard
    /\ outcome = "promotion_failed" /\ backup # None => unheard
    /\ outcome \in {"failed", "conflict"} /\ published => staged = None /\ backup = None
    /\ outcome \in {"ok", "destination_changed"} => backup = None

\* A backup that is kept is kept with its workspace and its owner record, so
\* that what it belongs to can be told.
BackupIdentified == backup # None => dir /\ owner \notin {None, Torn}

\* The editor's plan is made inside the call: without faults it leaves a
\* workspace behind only for a backup.
EditorLeavesNothing ==
  (step = "idle" /\ kind = "editor" /\ attempts > 0 /\ faults = 0 /\ dir) => backup # None

\* What an upload says and leaves can be relied on: its outcome is true of the
\* target, what it leaves behind can be told, and nothing else is left.
UploadTruthful == TypeOK /\ OutcomeTruthful /\ BackupIdentified /\ EditorLeavesNothing
=============================================================================
