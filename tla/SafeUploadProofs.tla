-------------------------- MODULE SafeUploadProofs --------------------------
(***************************************************************************)
(* Proofs about SafeUpload, for any number of attempts, versions, sources  *)
(* and faults.  The other client may act between any two steps of an       *)
(* attempt, and an attempt may end at any of them, so what holds is said   *)
(* step by step: whose the workspace is and whether it holds a backup,     *)
(* which versions of the source the stage can be made of, which versions   *)
(* of the other client the acquired file can hold, and whether anything    *)
(* has been published, perhaps by a rename whose reply was lost.           *)
(***************************************************************************)
EXTENDS SafeUpload, TLAPS

-----------------------------------------------------------------------------
(* The inductive invariant, in named parts.                                *)

\* The steps of an attempt that owns its workspace.
Owning == Steps \ {"idle", "workspace", "owner", "discover", "resume", "discard"}

\* The steps before the target is moved away, in a workspace without a backup.
Preparing == {"owner", "stage", "write", "compare", "validate", "check", "acquire"}

\* The types of the variables.
FileTypes ==
  /\ target \in Files \cup {None} /\ backup \in Files \cup {None} /\ staged \in Files \cup {None}
  /\ initial \in Files \cup {None}

FlagTypes == dir \in BOOLEAN /\ published \in BOOLEAN /\ unheard \in BOOLEAN

PlanTypes ==
  /\ owner \in (0 .. MaxSources) \cup {None, Torn}
  /\ step \in Steps /\ kind \in {"stream", "editor"} /\ handle \in {None, "target", "backup"}
  /\ local \in 0 .. MaxSources /\ source \in 0 .. local
  /\ checkpoint \in (0 .. Total) \cup {None} /\ outcome \in Outcomes \cup {None}
  /\ faults \in 0 .. MaxFaults /\ attempts \in 0 .. MaxAttempts

VersionTypes ==
  /\ version \in 0 .. MaxVersions /\ saved \subseteq 0 .. version
  /\ OthersIn(target) \cup OthersIn(backup) \cup OthersIn(initial) \subseteq 0 .. version

Types == FileTypes /\ FlagTypes /\ PlanTypes /\ VersionTypes

\* What an attempt has of its workspace at each step.
Places ==
  /\ ~dir => staged = None /\ backup = None
  /\ BackupIdentified
  /\ step \in Owning => dir /\ owner = source
  /\ step = "owner" => dir
  /\ step = "discard" /\ faults = 0 => owner = source
  /\ step \in Preparing => backup = None
  /\ step \in {"owner", "stage"} => staged = None
  /\ step \in {"verify", "restore", "reverify", "drop"} => backup # None
  /\ step \in {"acquire", "verify", "restore", "reverify", "drop"} => initial # None
  /\ step \in {"publish", "recover"} => (initial = None <=> backup = None)
  /\ kind = "editor" => step \notin {"discover", "resume"} /\ (step = "workspace" => ~dir)
  /\ kind = "stream" => step \notin {"compare", "verify", "restore", "reverify", "discard"}
  /\ handle = "target" => target # None
  /\ handle = "backup" => backup # None

\* An uploaded file is all of one version of its source.
Whole(f) ==
  f # None /\ f.by = "upload" => f.size = Total /\ \E s \in 0 .. MaxSources : f.body = {s}

\* What is staged comes from the sources since the one that the owner record names,
\* and is whole once the source was compared.
Stages ==
  /\ Whole(target) /\ Whole(backup)
  /\ staged # None =>
       /\ staged.by = "upload" /\ owner \in (0 .. local) \cup {None}
       /\ owner # None => staged.body \subseteq owner .. local
       /\ staged.size > 0 => staged.body # {}
       /\ kind = "editor" /\ step = "write" => staged.body \subseteq {source}
       /\ step \in {"compare", "validate", "check", "acquire", "verify", "publish"} =>
            staged.size = Total /\ staged.body = {source}

\* The versions of the other client that have to be found, and which of them the file
\* that is moved away may hold.
Replaceable ==
  /\ kind = "editor" /\ step \notin {"idle", "discard"} => expected = Body(initial)
  /\ kind = "stream" /\ step \in Preparing \cup {"workspace", "discover", "resume"} =>
       \/ step # "acquire" /\ Meta(target) # Meta(initial)
       \/ saved \cap OthersIn(target) \subseteq OthersIn(initial)
  /\ kind = "stream" /\ step = "publish" => saved \cap OthersIn(backup) \subseteq OthersIn(initial)
  /\ step = "reverify" => saved \cap OthersIn(initial) = {}
  /\ step = "drop" => saved \cap OthersIn(backup) = {}

Keeps == SavedKept /\ Replaceable

\* What an attempt has done, and what it reports when it ends.
Reports ==
  /\ step \in {"reverify", "drop", "cleanup"} => published
  /\ step \in {"reverify", "drop"} => staged = None
  /\ step = "recover" /\ published => unheard
  /\ step \notin {"idle", "recover", "reverify", "drop", "cleanup", "discard"} => ~published
  /\ step = "cleanup" => staged = None /\ backup = None
  /\ step = "restore" => outcome \in {"destination_changed", "failed"}
  /\ step \in {"idle", "discard"} =>
       /\ outcome \in {"ok", "cleanup_failed"} => published
       /\ outcome \in {"destination_changed", "source_changed", "size_mismatch"} => ~published
       /\ outcome \in {"promotion_failed", "recovery_failed"} /\ published => unheard
       /\ outcome = "promotion_failed" /\ backup # None => unheard
       /\ outcome \in {"failed", "conflict"} /\ published => staged = None /\ backup = None
       /\ outcome \in {"ok", "destination_changed"} => backup = None
  /\ step = "idle" /\ kind = "editor" /\ faults = 0 /\ dir => backup # None

UploadInv == Types /\ Places /\ Stages /\ Keeps /\ Reports

\* The initial states satisfy it: there is no workspace and no attempt.
LEMMA UploadInit == ASSUME BoundsAssumption, Init PROVE UploadInv
<1>1. FileTypes /\ VersionTypes /\ Keeps
  BY DEF Init, FileTypes, VersionTypes, Keeps, SavedKept, Replaceable, Preparing, OthersIn,
         UserFile, Files, Versions, Body, Meta, BoundsAssumption
<1>2. FlagTypes /\ PlanTypes
  <2>1. FlagTypes
    BY DEF Init, FlagTypes
  <2>2. PlanTypes
    BY DEF Init, PlanTypes, Steps, BoundsAssumption
  <2> QED BY <2>1, <2>2
<1>3. Places
  <2>1. (~dir => staged = None /\ backup = None) /\ BackupIdentified
    BY DEF Init, BackupIdentified
  <2>2. /\ step \in Owning => dir /\ owner = source
        /\ step = "owner" => dir
        /\ step = "discard" /\ faults = 0 => owner = source
        /\ step \in Preparing => backup = None
        /\ step \in {"owner", "stage"} => staged = None
        /\ step \in {"verify", "restore", "reverify", "drop"} => backup # None
        /\ step \in {"acquire", "verify", "restore", "reverify", "drop"} => initial # None
        /\ step \in {"publish", "recover"} => (initial = None <=> backup = None)
    BY DEF Init, Owning, Preparing
  <2>3. /\ kind = "editor" => step \notin {"discover", "resume"} /\ (step = "workspace" => ~dir)
        /\ kind = "stream" => step \notin {"compare", "verify", "restore", "reverify", "discard"}
        /\ handle = "target" => target # None
        /\ handle = "backup" => backup # None
    BY DEF Init, BoundsAssumption
  <2> QED BY <2>1, <2>2, <2>3 DEF Places
<1>4. Reports
  BY DEF Init, Reports, Outcomes, BoundsAssumption
<1>5. Stages
  BY DEF Init, Stages, Whole, UserFile, BoundsAssumption
<1> QED BY <1>1, <1>2, <1>3, <1>4, <1>5 DEF UploadInv, Types

\* A step that changes no variable keeps it.
LEMMA UploadStutter == ASSUME UploadInv, UNCHANGED vars PROVE UploadInv'
BY DEF vars, files, workspace, attempt, other, UploadInv, Types, FileTypes, FlagTypes,
       PlanTypes, VersionTypes, Places, BackupIdentified, Stages, Whole, Keeps, SavedKept,
       Replaceable, Reports, OthersIn, Body, Meta

-----------------------------------------------------------------------------
(* The beginning of an attempt.                                            *)

\* Reading for the editor changes what it expects, between attempts only.
LEMMA EditorReadsKeeps ==
  ASSUME BoundsAssumption, UploadInv, EditorReads
  PROVE  UploadInv'
<1>1. Types'
  BY DEF UploadInv, Types, EditorReads, FileTypes, Files, Versions, FlagTypes, PlanTypes,
         Steps, Outcomes, VersionTypes, OthersIn, Body, files, workspace, other
<1>2. Places'
  BY DEF UploadInv, Places, EditorReads, BackupIdentified, Owning, Steps, Preparing, Body,
         files, workspace, other
<1>3. Stages'
  BY DEF UploadInv, Stages, EditorReads, Whole, Body, files, workspace, other
<1>4. Keeps'
  BY DEF UploadInv, Keeps, EditorReads, SavedKept, OthersIn, Replaceable, Body, Preparing,
         Meta, files, workspace, other
<1>5. Reports'
  BY DEF UploadInv, Reports, EditorReads, Body, files, workspace, other
<1> QED BY <1>1, <1>2, <1>3, <1>4, <1>5 DEF UploadInv

\* The editor begins where no workspace is; it goes on only if the target still has the
\* body it expects, which is then that of the file it saw.
LEMMA BeginEditorKeeps ==
  ASSUME BoundsAssumption, UploadInv, BeginEditor
  PROVE  UploadInv'
<1>1. Types'
  <2>1. FileTypes'
    BY DEF UploadInv, BoundsAssumption, FileTypes, Types, BeginEditor, Files, Versions,
           Outcomes, FlagTypes, PlanTypes, Steps, VersionTypes, OthersIn, Body, files,
           workspace, other
  <2>2. FlagTypes'
    BY DEF UploadInv, BoundsAssumption, FlagTypes, Types, BeginEditor, Files, Versions,
           Outcomes, FileTypes, PlanTypes, Steps, VersionTypes, OthersIn, Body, files,
           workspace, other
  <2>3. PlanTypes'
    BY DEF UploadInv, BoundsAssumption, PlanTypes, Types, BeginEditor, Files, Versions,
           Outcomes, Steps, FileTypes, FlagTypes, VersionTypes, OthersIn, Body, files,
           workspace, other
  <2>4. VersionTypes'
    BY DEF UploadInv, BoundsAssumption, VersionTypes, Types, BeginEditor, Files, Versions,
           Outcomes, OthersIn, FileTypes, FlagTypes, PlanTypes, Steps, Body, files,
           workspace, other
  <2> QED BY <2>1, <2>2, <2>3, <2>4 DEF Types
<1>2. Places'
  BY DEF UploadInv, Places, BeginEditor, BackupIdentified, Owning, Steps, Preparing, Body,
         files, workspace, other
<1>3. Stages'
  BY DEF UploadInv, Stages, BeginEditor, Whole, Body, files, workspace, other
<1>4. Keeps'
  BY DEF UploadInv, Keeps, BeginEditor, SavedKept, OthersIn, Replaceable, Body, Preparing,
         Meta, files, workspace, other
<1>5. Reports'
  BY DEF UploadInv, BoundsAssumption, Reports, Types, Places, BeginEditor, Files, Versions,
         Outcomes, FileTypes, FlagTypes, PlanTypes, Steps, VersionTypes, OthersIn,
         BackupIdentified, Owning, Preparing, Body, files, workspace, other
<1> QED BY <1>1, <1>2, <1>3, <1>4, <1>5 DEF UploadInv

\* An upload begins with the file it sees, all of whose versions it may replace.
LEMMA BeginStreamKeeps ==
  ASSUME BoundsAssumption, UploadInv, BeginStream
  PROVE  UploadInv'
<1>1. Types'
  <2>1. FileTypes'
    BY DEF UploadInv, BoundsAssumption, FileTypes, Types, BeginStream, Files, Versions,
           Outcomes, FlagTypes, PlanTypes, Steps, VersionTypes, OthersIn, files, workspace,
           other
  <2>2. FlagTypes'
    BY DEF UploadInv, BoundsAssumption, FlagTypes, Types, BeginStream, Files, Versions,
           Outcomes, FileTypes, PlanTypes, Steps, VersionTypes, OthersIn, files, workspace,
           other
  <2>3. PlanTypes'
    BY DEF UploadInv, BoundsAssumption, PlanTypes, Types, BeginStream, Files, Versions,
           Outcomes, Steps, FileTypes, FlagTypes, VersionTypes, OthersIn, files, workspace,
           other
  <2>4. VersionTypes'
    BY DEF UploadInv, BoundsAssumption, VersionTypes, Types, BeginStream, Files, Versions,
           Outcomes, OthersIn, FileTypes, FlagTypes, PlanTypes, Steps, files, workspace,
           other
  <2> QED BY <2>1, <2>2, <2>3, <2>4 DEF Types
<1>2. Places'
  BY DEF UploadInv, Places, BeginStream, BackupIdentified, Owning, Steps, Preparing, files,
         workspace, other
<1>3. Stages'
  BY DEF UploadInv, Stages, BeginStream, Whole, files, workspace, other
<1>4. Keeps'
  BY DEF UploadInv, Keeps, BeginStream, SavedKept, OthersIn, Replaceable, Body, Preparing,
         Meta, files, workspace, other
<1>5. Reports'
  BY DEF UploadInv, Reports, BeginStream, files, workspace, other
<1> QED BY <1>1, <1>2, <1>3, <1>4, <1>5 DEF UploadInv

\* A new workspace is empty; an existing one is somebody's, perhaps this upload's own.
LEMMA CreateWorkspaceKeeps ==
  ASSUME BoundsAssumption, UploadInv, CreateWorkspace
  PROVE  UploadInv'
<1>1. Types'
  <2>1. FileTypes'
    BY DEF UploadInv, BoundsAssumption, FileTypes, Types, CreateWorkspace, Files, Versions,
           Outcomes, FlagTypes, PlanTypes, Steps, VersionTypes, OthersIn, files, attempt,
           other
  <2>2. FlagTypes'
    BY DEF UploadInv, BoundsAssumption, FlagTypes, Types, CreateWorkspace, Files, Versions,
           Outcomes, FileTypes, PlanTypes, Steps, VersionTypes, OthersIn, files, attempt,
           other
  <2>3. PlanTypes'
    BY DEF UploadInv, BoundsAssumption, PlanTypes, Types, CreateWorkspace, Files, Versions,
           Outcomes, Steps, FileTypes, FlagTypes, VersionTypes, OthersIn, files, attempt,
           other
  <2>4. VersionTypes'
    BY DEF UploadInv, BoundsAssumption, VersionTypes, Types, CreateWorkspace, Files,
           Versions, Outcomes, OthersIn, FileTypes, FlagTypes, PlanTypes, Steps, files,
           attempt, other
  <2> QED BY <2>1, <2>2, <2>3, <2>4 DEF Types
<1>2. Places'
  BY DEF UploadInv, Places, CreateWorkspace, BackupIdentified, Owning, Steps, Preparing,
         files, attempt, other
<1>3. Stages'
  BY DEF UploadInv, Stages, CreateWorkspace, Whole, files, attempt, other
<1>4. Keeps'
  BY DEF UploadInv, Keeps, CreateWorkspace, SavedKept, OthersIn, Replaceable, Body,
         Preparing, Meta, files, attempt, other
<1>5. Reports'
  BY DEF UploadInv, Reports, CreateWorkspace, files, attempt, other
<1> QED BY <1>1, <1>2, <1>3, <1>4, <1>5 DEF UploadInv

\* A workspace that was created although the call failed is empty.
LEMMA CreateWorkspaceFailsKeeps ==
  ASSUME BoundsAssumption, UploadInv, CreateWorkspaceFails
  PROVE  UploadInv'
<1>1. Types'
  <2>1. FileTypes'
    BY DEF UploadInv, BoundsAssumption, CreateWorkspaceFails, Fault, Types, FileTypes,
           Files, Versions, Stages, files, workspace, attempt, other
  <2>2. FlagTypes'
    BY DEF UploadInv, BoundsAssumption, CreateWorkspaceFails, Fault, Types, FlagTypes,
           files, workspace, attempt, other
  <2>3. PlanTypes'
    BY DEF UploadInv, BoundsAssumption, CreateWorkspaceFails, Fault, Types, PlanTypes,
           Steps, Outcomes, files, workspace, attempt, other
  <2>4. VersionTypes'
    BY DEF UploadInv, BoundsAssumption, CreateWorkspaceFails, Fault, Types, VersionTypes,
           OthersIn, FileTypes, Files, Stages, Whole, files, workspace, attempt, other
  <2> QED BY <2>1, <2>2, <2>3, <2>4 DEF Types
<1>2. Places'
  BY DEF UploadInv, BoundsAssumption, CreateWorkspaceFails, Fault, Types, Places,
         BackupIdentified, Owning, Steps, Preparing, PlanTypes, OthersIn, files, workspace,
         attempt, other
<1>3. Stages'
  BY DEF UploadInv, BoundsAssumption, CreateWorkspaceFails, Fault, Types, FileTypes, Files,
         Stages, Whole, Places, Owning, Steps, Preparing, PlanTypes, files, workspace,
         attempt, other
<1>4. Keeps'
  BY DEF UploadInv, BoundsAssumption, CreateWorkspaceFails, Fault, Keeps, SavedKept,
         OthersIn, Replaceable, Body, Preparing, Meta, files, workspace, attempt, other
<1>5. Reports'
  BY DEF UploadInv, BoundsAssumption, CreateWorkspaceFails, Fault, Reports, Places, Types,
         PlanTypes, Outcomes, Preparing, Steps, files, workspace, attempt, other
<1> QED BY <1>1, <1>2, <1>3, <1>4, <1>5 DEF UploadInv

\* The record names the source, and from here on the attempt owns the workspace.
LEMMA WriteOwnerKeeps ==
  ASSUME BoundsAssumption, UploadInv, WriteOwner
  PROVE  UploadInv'
<1>1. Types'
  BY DEF UploadInv, BoundsAssumption, Types, WriteOwner, Files, Versions, Outcomes,
         FileTypes, FlagTypes, PlanTypes, Steps, VersionTypes, OthersIn, files, attempt,
         other
<1>2. Places'
  BY DEF UploadInv, Places, WriteOwner, BackupIdentified, Owning, Steps, Preparing, files,
         attempt, other
<1>3. Stages'
  BY DEF UploadInv, BoundsAssumption, Stages, Types, Places, WriteOwner, Files, Versions,
         Outcomes, Whole, FileTypes, FlagTypes, PlanTypes, Steps, VersionTypes, OthersIn,
         BackupIdentified, Owning, Preparing, files, attempt, other
<1>4. Keeps'
  BY DEF UploadInv, Keeps, WriteOwner, SavedKept, OthersIn, Replaceable, Body, Preparing,
         Meta, files, attempt, other
<1>5. Reports'
  BY DEF UploadInv, Reports, WriteOwner, files, attempt, other
<1> QED BY <1>1, <1>2, <1>3, <1>4, <1>5 DEF UploadInv

\* The workspace is new, so no backup loses its record.
LEMMA WriteOwnerFailsKeeps ==
  ASSUME BoundsAssumption, UploadInv, WriteOwnerFails
  PROVE  UploadInv'
<1>1. Types'
  <2>1. FileTypes'
    BY DEF UploadInv, BoundsAssumption, WriteOwnerFails, Fault, Types, FileTypes, Files,
           Versions, Stages, files, workspace, attempt, other
  <2>2. FlagTypes'
    BY DEF UploadInv, BoundsAssumption, WriteOwnerFails, Fault, Types, FlagTypes, files,
           workspace, attempt, other
  <2>3. PlanTypes'
    BY DEF UploadInv, BoundsAssumption, WriteOwnerFails, Fault, Types, PlanTypes, Steps,
           Outcomes, files, workspace, attempt, other
  <2>4. VersionTypes'
    BY DEF UploadInv, BoundsAssumption, WriteOwnerFails, Fault, Types, VersionTypes,
           OthersIn, FileTypes, Files, Stages, Whole, files, workspace, attempt, other
  <2> QED BY <2>1, <2>2, <2>3, <2>4 DEF Types
<1>2. Places'
  BY DEF UploadInv, BoundsAssumption, WriteOwnerFails, Fault, Types, Places,
         BackupIdentified, Owning, Steps, Preparing, PlanTypes, OthersIn, files, workspace,
         attempt, other
<1>3. Stages'
  BY DEF UploadInv, BoundsAssumption, WriteOwnerFails, Fault, Types, FileTypes, Files,
         Stages, Whole, Places, Owning, Steps, Preparing, PlanTypes, files, workspace,
         attempt, other
<1>4. Keeps'
  BY DEF UploadInv, BoundsAssumption, WriteOwnerFails, Fault, Keeps, SavedKept, OthersIn,
         Replaceable, Body, Preparing, Meta, files, workspace, attempt, other
<1>5. Reports'
  BY DEF UploadInv, BoundsAssumption, WriteOwnerFails, Fault, Reports, Places, Types,
         PlanTypes, Outcomes, Preparing, Steps, files, workspace, attempt, other
<1> QED BY <1>1, <1>2, <1>3, <1>4, <1>5 DEF UploadInv

\* An empty stage is a part of every version of the source.
LEMMA CreateStageKeeps ==
  ASSUME BoundsAssumption, UploadInv, CreateStage
  PROVE  UploadInv'
<1>1. Types'
  BY DEF UploadInv, BoundsAssumption, Types, CreateStage, Files, Versions, Outcomes,
         FileTypes, FlagTypes, PlanTypes, Steps, VersionTypes, OthersIn, Empty, StageFile,
         workspace, attempt, other
<1>2. Places'
  BY DEF UploadInv, Places, CreateStage, BackupIdentified, Owning, Steps, Preparing, Empty,
         StageFile, workspace, attempt, other
<1>3. Stages'
  BY DEF UploadInv, BoundsAssumption, Stages, Types, Places, CreateStage, Files, Versions,
         Outcomes, Whole, FileTypes, FlagTypes, PlanTypes, Steps, VersionTypes, OthersIn,
         BackupIdentified, Owning, Preparing, Empty, StageFile, workspace, attempt, other
<1>4. Keeps'
  BY DEF UploadInv, Keeps, CreateStage, SavedKept, OthersIn, Replaceable, Body, Preparing,
         Meta, Empty, StageFile, workspace, attempt, other
<1>5. Reports'
  BY DEF UploadInv, Reports, CreateStage, Empty, StageFile, workspace, attempt, other
<1> QED BY <1>1, <1>2, <1>3, <1>4, <1>5 DEF UploadInv

\* The workspace that is given up holds no backup, and at most an empty stage.
LEMMA CreateStageFailsKeeps ==
  ASSUME BoundsAssumption, UploadInv, CreateStageFails
  PROVE  UploadInv'
<1>1. Types'
  <2>1. FileTypes'
    BY DEF UploadInv, BoundsAssumption, CreateStageFails, Fault, Empty, StageFile, Types,
           FileTypes, Files, Versions, Stages, files, workspace, attempt, other
  <2>2. FlagTypes'
    BY DEF UploadInv, BoundsAssumption, CreateStageFails, Fault, Empty, StageFile, Types,
           FlagTypes, files, workspace, attempt, other
  <2>3. PlanTypes'
    BY DEF UploadInv, BoundsAssumption, CreateStageFails, Fault, Empty, StageFile, Types,
           PlanTypes, Steps, Outcomes, files, workspace, attempt, other
  <2>4. VersionTypes'
    BY DEF UploadInv, BoundsAssumption, CreateStageFails, Fault, Empty, StageFile, Types,
           VersionTypes, OthersIn, FileTypes, Files, Stages, Whole, files, workspace,
           attempt, other
  <2> QED BY <2>1, <2>2, <2>3, <2>4 DEF Types
<1>2. Places'
  <2>1. backup = None /\ staged = None
    BY DEF UploadInv, Places, CreateStageFails, Preparing
  <2>2. step' = "idle" /\ UNCHANGED <<target, backup, handle, kind>>
    BY DEF CreateStageFails, attempt, other
  <2>3. ~dir' => staged' = None
    <3>1. dir
      BY DEF UploadInv, Places, CreateStageFails, Owning, Steps
    <3>2. (dir' = FALSE /\ UNCHANGED staged) \/ UNCHANGED dir
      BY DEF CreateStageFails
    <3> QED BY <2>1, <3>1, <3>2
  <2> QED
    BY <2>1, <2>2, <2>3 DEF UploadInv, Places, BackupIdentified, Owning, Preparing
<1>3. Stages'
  <2>1. staged = None /\ owner = source /\ source \in 0 .. local
    BY DEF UploadInv, Places, Owning, Steps, Types, PlanTypes, CreateStageFails
  <2>2. staged' \in {None, Empty} /\ owner' \in {None, owner} /\ step' = "idle"
    BY <2>1 DEF CreateStageFails
  <2>3. UNCHANGED <<target, backup, local>>
    BY DEF CreateStageFails
  <2>4. Empty.by = "upload" /\ Empty.body = {} /\ Empty.size = 0
    BY DEF Empty, StageFile
  <2>5. CASE staged' = None
    BY <2>2, <2>3, <2>5 DEF UploadInv, Stages, Whole
  <2>6. CASE staged' = Empty
    BY <2>1, <2>2, <2>3, <2>4, <2>6 DEF UploadInv, Stages, Whole
  <2> QED BY <2>2, <2>5, <2>6
<1>4. Keeps'
  BY DEF UploadInv, BoundsAssumption, CreateStageFails, Fault, Empty, StageFile, Keeps,
         SavedKept, OthersIn, Replaceable, Body, Preparing, Meta, files, workspace, attempt,
         other
<1>5. Reports'
  BY DEF UploadInv, BoundsAssumption, CreateStageFails, Fault, Empty, StageFile, Reports,
         Places, Types, PlanTypes, Outcomes, Preparing, Steps, files, workspace, attempt,
         other
<1> QED BY <1>1, <1>2, <1>3, <1>4, <1>5 DEF UploadInv

\* A stage is continued only under the record of its own source and never beside a backup.
LEMMA DiscoverKeeps ==
  ASSUME BoundsAssumption, UploadInv, Discover
  PROVE  UploadInv'
<1>1. Types'
  BY DEF UploadInv, Types, Discover, FileTypes, Files, Versions, FlagTypes, PlanTypes,
         Steps, Outcomes, VersionTypes, OthersIn, Resumable, OwnedHere, End, LeftTo, files,
         workspace, attempt, other
<1>2. Places'
  BY DEF UploadInv, Places, Discover, BackupIdentified, Owning, Steps, Preparing, Resumable,
         OwnedHere, End, LeftTo, files, workspace, attempt, other
<1>3. Stages'
  BY DEF UploadInv, BoundsAssumption, Stages, Types, Places, Discover, Files, Versions,
         Outcomes, Whole, FileTypes, FlagTypes, PlanTypes, Steps, VersionTypes, OthersIn,
         BackupIdentified, Owning, Preparing, Resumable, OwnedHere, End, LeftTo, files,
         workspace, attempt, other
<1>4. Keeps'
  BY DEF UploadInv, Keeps, Discover, SavedKept, OthersIn, Replaceable, Body, Preparing,
         Meta, Resumable, OwnedHere, End, LeftTo, files, workspace, attempt, other
<1>5. Reports'
  BY DEF UploadInv, Reports, Discover, Resumable, OwnedHere, End, LeftTo, files, workspace,
         attempt, other
<1> QED BY <1>1, <1>2, <1>3, <1>4, <1>5 DEF UploadInv

\* The same, with the caller's checkpoint.
LEMMA ResumeKeeps ==
  ASSUME BoundsAssumption, UploadInv, Resume
  PROVE  UploadInv'
<1>1. Types'
  BY DEF UploadInv, Types, Resume, FileTypes, Files, Versions, FlagTypes, PlanTypes, Steps,
         Outcomes, VersionTypes, OthersIn, Resumable, OwnedHere, End, LeftTo, files,
         workspace, attempt, other
<1>2. Places'
  BY DEF UploadInv, Places, Resume, BackupIdentified, Owning, Steps, Preparing, Resumable,
         OwnedHere, End, LeftTo, files, workspace, attempt, other
<1>3. Stages'
  BY DEF UploadInv, BoundsAssumption, Stages, Types, Places, Resume, Files, Versions,
         Outcomes, Whole, FileTypes, FlagTypes, PlanTypes, Steps, VersionTypes, OthersIn,
         BackupIdentified, Owning, Preparing, Resumable, OwnedHere, End, LeftTo, files,
         workspace, attempt, other
<1>4. Keeps'
  BY DEF UploadInv, Keeps, Resume, SavedKept, OthersIn, Replaceable, Body, Preparing, Meta,
         Resumable, OwnedHere, End, LeftTo, files, workspace, attempt, other
<1>5. Reports'
  BY DEF UploadInv, Reports, Resume, Resumable, OwnedHere, End, LeftTo, files, workspace,
         attempt, other
<1> QED BY <1>1, <1>2, <1>3, <1>4, <1>5 DEF UploadInv

-----------------------------------------------------------------------------
(* Staging.                                                                *)

\* A chunk belongs to a version between the start of the attempt and now.
LEMMA WriteKeeps ==
  ASSUME BoundsAssumption, UploadInv, Write
  PROVE  UploadInv'
<1>1. Types'
  <2>1. FileTypes'
    BY DEF UploadInv, BoundsAssumption, Write, Written, WriteLimit, StageFile, Types,
           FileTypes, FlagTypes, PlanTypes, VersionTypes, Places, Stages, Whole, Keeps,
           SavedKept, Replaceable, Reports, BackupIdentified, Owning, Preparing, Steps,
           Outcomes, Files, Versions, OthersIn, Meta, Body, files, workspace, attempt, other
  <2>2. FlagTypes'
    BY DEF UploadInv, BoundsAssumption, Write, Written, WriteLimit, StageFile, Types,
           FlagTypes, files, workspace, attempt, other
  <2>3. PlanTypes'
    BY DEF UploadInv, BoundsAssumption, Write, Written, WriteLimit, StageFile, Types,
           FileTypes, FlagTypes, PlanTypes, VersionTypes, Places, Stages, Whole, Keeps,
           SavedKept, Replaceable, Reports, BackupIdentified, Owning, Preparing, Steps,
           Outcomes, Files, Versions, OthersIn, Meta, Body, files, workspace, attempt, other
  <2>4. VersionTypes'
    BY DEF UploadInv, BoundsAssumption, Write, Written, WriteLimit, StageFile, Types,
           VersionTypes, OthersIn, FileTypes, Files, Stages, Whole, files, workspace,
           attempt, other
  <2> QED BY <2>1, <2>2, <2>3, <2>4 DEF Types
<1>2. Places'
  BY DEF UploadInv, BoundsAssumption, Write, Written, WriteLimit, StageFile, Types, Places,
         BackupIdentified, Owning, Steps, Preparing, PlanTypes, OthersIn, files, workspace,
         attempt, other
<1>3. Stages'
  BY DEF UploadInv, BoundsAssumption, Write, Written, WriteLimit, StageFile, Types,
         FileTypes, Files, Stages, Whole, Places, Owning, Steps, Preparing, PlanTypes,
         files, workspace, attempt, other
<1>4. Keeps'
  BY DEF UploadInv, BoundsAssumption, Write, Written, WriteLimit, StageFile, Keeps,
         SavedKept, OthersIn, Replaceable, Body, Preparing, Meta, files, workspace, attempt,
         other
<1>5. Reports'
  BY DEF UploadInv, BoundsAssumption, Write, Written, WriteLimit, StageFile, Reports,
         Places, Types, PlanTypes, Outcomes, Preparing, Steps, files, workspace, attempt,
         other
<1> QED BY <1>1, <1>2, <1>3, <1>4, <1>5 DEF UploadInv

\* The stage may have grown by a chunk of the version that the source has now.
LEMMA WriteFailsKeeps ==
  ASSUME BoundsAssumption, UploadInv, WriteFails
  PROVE  UploadInv'
<1>1. Types'
  <2>1. FileTypes'
    BY DEF UploadInv, BoundsAssumption, WriteFails, Written, StageFile, Fault, End, LeftTo,
           Types, FileTypes, FlagTypes, PlanTypes, VersionTypes, Places, Stages, Whole,
           Keeps, SavedKept, Replaceable, Reports, BackupIdentified, Owning, Preparing,
           Steps, Outcomes, Files, Versions, OthersIn, Meta, Body, files, workspace,
           attempt, other
  <2>2. FlagTypes'
    BY DEF UploadInv, BoundsAssumption, WriteFails, Written, StageFile, Fault, End, LeftTo,
           Types, FlagTypes, files, workspace, attempt, other
  <2>3. PlanTypes'
    BY DEF UploadInv, BoundsAssumption, WriteFails, Written, StageFile, Fault, End, LeftTo,
           Types, PlanTypes, Steps, Outcomes, files, workspace, attempt, other
  <2>4. VersionTypes'
    BY DEF UploadInv, BoundsAssumption, WriteFails, Written, StageFile, Fault, End, LeftTo,
           Types, VersionTypes, OthersIn, FileTypes, Files, Stages, Whole, files, workspace,
           attempt, other
  <2> QED BY <2>1, <2>2, <2>3, <2>4 DEF Types
<1>2. Places'
  BY DEF UploadInv, BoundsAssumption, WriteFails, Written, StageFile, Fault, End, LeftTo,
         Types, Places, BackupIdentified, Owning, Steps, Preparing, PlanTypes, OthersIn,
         files, workspace, attempt, other
<1>3. Stages'
  BY DEF UploadInv, BoundsAssumption, WriteFails, Written, StageFile, Fault, End, LeftTo,
         Types, FileTypes, Files, Stages, Whole, Places, Owning, Steps, Preparing,
         PlanTypes, files, workspace, attempt, other
<1>4. Keeps'
  BY DEF UploadInv, BoundsAssumption, WriteFails, Written, StageFile, Fault, End, LeftTo,
         Keeps, SavedKept, OthersIn, Replaceable, Body, Preparing, Meta, files, workspace,
         attempt, other
<1>5. Reports'
  BY DEF UploadInv, BoundsAssumption, WriteFails, Written, StageFile, Fault, End, LeftTo,
         Reports, Places, Types, PlanTypes, Outcomes, Preparing, Steps, files, workspace,
         attempt, other
<1> QED BY <1>1, <1>2, <1>3, <1>4, <1>5 DEF UploadInv

\* Record, chunks and source lie between the source at the start and the source now: if
\* these two are one version, so is the stage.
LEMMA StagedKeeps ==
  ASSUME BoundsAssumption, UploadInv, Staged
  PROVE  UploadInv'
<1>1. Types'
  BY DEF UploadInv, Types, Staged, FileTypes, Files, Versions, FlagTypes, PlanTypes, Steps,
         Outcomes, VersionTypes, OthersIn, SourceUnchanged, End, LeftTo, files, workspace,
         attempt, other
<1>2. Places'
  BY DEF UploadInv, Places, Staged, BackupIdentified, Owning, Steps, Preparing,
         SourceUnchanged, End, LeftTo, files, workspace, attempt, other
<1>3. Stages'
  BY DEF UploadInv, BoundsAssumption, Stages, Types, Places, Staged, Files, Versions,
         Outcomes, Whole, FileTypes, FlagTypes, PlanTypes, Steps, VersionTypes, OthersIn,
         BackupIdentified, Owning, Preparing, SourceUnchanged, End, LeftTo, files,
         workspace, attempt, other
<1>4. Keeps'
  BY DEF UploadInv, Keeps, Staged, SavedKept, OthersIn, Replaceable, Body, Preparing, Meta,
         SourceUnchanged, End, LeftTo, files, workspace, attempt, other
<1>5. Reports'
  BY DEF UploadInv, Reports, Staged, SourceUnchanged, End, LeftTo, files, workspace,
         attempt, other
<1> QED BY <1>1, <1>2, <1>3, <1>4, <1>5 DEF UploadInv

\* The comparison decides only whether the attempt goes on.
LEMMA CompareKeeps ==
  ASSUME BoundsAssumption, UploadInv, Compare
  PROVE  UploadInv'
<1>1. Types'
  BY DEF UploadInv, Types, Compare, FileTypes, Files, Versions, FlagTypes, PlanTypes, Steps,
         Outcomes, VersionTypes, OthersIn, Meta, Body, End, LeftTo, files, workspace,
         attempt, other
<1>2. Places'
  BY DEF UploadInv, Places, Compare, BackupIdentified, Owning, Steps, Preparing, Meta, Body,
         End, LeftTo, files, workspace, attempt, other
<1>3. Stages'
  BY DEF UploadInv, Stages, Compare, Whole, Meta, Body, End, LeftTo, files, workspace,
         attempt, other
<1>4. Keeps'
  BY DEF UploadInv, Keeps, Compare, SavedKept, OthersIn, Replaceable, Body, Preparing, Meta,
         End, LeftTo, files, workspace, attempt, other
<1>5. Reports'
  BY DEF UploadInv, BoundsAssumption, Reports, Types, Places, Compare, Files, Versions,
         Outcomes, FileTypes, FlagTypes, PlanTypes, Steps, VersionTypes, OthersIn,
         BackupIdentified, Owning, Preparing, Meta, Body, End, LeftTo, files, workspace,
         attempt, other
<1> QED BY <1>1, <1>2, <1>3, <1>4, <1>5 DEF UploadInv

-----------------------------------------------------------------------------
(* Publication and recovery.                                               *)

\* The validation decides only whether the attempt goes on.
LEMMA ValidateKeeps ==
  ASSUME BoundsAssumption, UploadInv, Validate
  PROVE  UploadInv'
<1>1. Types'
  BY DEF UploadInv, Types, Validate, FileTypes, Files, Versions, FlagTypes, PlanTypes,
         Steps, Outcomes, VersionTypes, OthersIn, End, LeftTo, files, workspace, attempt,
         other
<1>2. Places'
  BY DEF UploadInv, Places, Validate, BackupIdentified, Owning, Steps, Preparing, End,
         LeftTo, files, workspace, attempt, other
<1>3. Stages'
  BY DEF UploadInv, Stages, Validate, Whole, End, LeftTo, files, workspace, attempt, other
<1>4. Keeps'
  BY DEF UploadInv, Keeps, Validate, SavedKept, OthersIn, Replaceable, Body, Preparing,
         Meta, End, LeftTo, files, workspace, attempt, other
<1>5. Reports'
  BY DEF UploadInv, Reports, Validate, End, LeftTo, files, workspace, attempt, other
<1> QED BY <1>1, <1>2, <1>3, <1>4, <1>5 DEF UploadInv

\* After the check a version with other metadata is no longer replaced.
LEMMA CheckKeeps ==
  ASSUME BoundsAssumption, UploadInv, Check
  PROVE  UploadInv'
<1>1. Types'
  BY DEF UploadInv, Types, Check, FileTypes, Files, Versions, FlagTypes, PlanTypes, Steps,
         Outcomes, VersionTypes, OthersIn, Meta, End, LeftTo, files, workspace, attempt,
         other
<1>2. Places'
  BY DEF UploadInv, Places, Check, BackupIdentified, Owning, Steps, Preparing, Meta, End,
         LeftTo, files, workspace, attempt, other
<1>3. Stages'
  BY DEF UploadInv, Stages, Check, Whole, Meta, End, LeftTo, files, workspace, attempt,
         other
<1>4. Keeps'
  BY DEF UploadInv, BoundsAssumption, Keeps, Types, Places, Check, Files, Versions,
         Outcomes, SavedKept, OthersIn, Replaceable, Body, Preparing, Meta, FileTypes,
         FlagTypes, PlanTypes, Steps, VersionTypes, BackupIdentified, Owning, End, LeftTo,
         files, workspace, attempt, other
<1>5. Reports'
  BY DEF UploadInv, BoundsAssumption, Reports, Types, Places, Check, Files, Versions,
         Outcomes, FileTypes, FlagTypes, PlanTypes, Steps, VersionTypes, OthersIn,
         BackupIdentified, Owning, Preparing, Meta, End, LeftTo, files, workspace, attempt,
         other
<1> QED BY <1>1, <1>2, <1>3, <1>4, <1>5 DEF UploadInv

\* The target moves to the backup with the handle that is open on it.
LEMMA AcquireKeeps ==
  ASSUME BoundsAssumption, UploadInv, Acquire
  PROVE  UploadInv'
<1>1. Types'
  <2>1. FileTypes'
    BY DEF UploadInv, BoundsAssumption, Acquire, MayMoveAway, MoveAway, Moved, End, LeftTo,
           Types, FileTypes, Files, Versions, Stages, files, workspace, attempt, other
  <2>2. FlagTypes'
    BY DEF UploadInv, BoundsAssumption, Acquire, MayMoveAway, MoveAway, Moved, End, LeftTo,
           Types, FlagTypes, files, workspace, attempt, other
  <2>3. PlanTypes'
    BY DEF UploadInv, BoundsAssumption, Acquire, MayMoveAway, MoveAway, Moved, End, LeftTo,
           Types, PlanTypes, Steps, Outcomes, files, workspace, attempt, other
  <2>4. VersionTypes'
    BY DEF UploadInv, BoundsAssumption, Acquire, MayMoveAway, MoveAway, Moved, End, LeftTo,
           Types, VersionTypes, OthersIn, FileTypes, Files, Stages, Whole, files, workspace,
           attempt, other
  <2> QED BY <2>1, <2>2, <2>3, <2>4 DEF Types
<1>2. Places'
  BY DEF UploadInv, BoundsAssumption, Acquire, MayMoveAway, MoveAway, Moved, End, LeftTo,
         Types, Places, BackupIdentified, Owning, Steps, Preparing, PlanTypes, OthersIn,
         files, workspace, attempt, other
<1>3. Stages'
  BY DEF UploadInv, BoundsAssumption, Acquire, MayMoveAway, MoveAway, Moved, End, LeftTo,
         Types, FileTypes, Files, Stages, Whole, Places, Owning, Steps, Preparing,
         PlanTypes, files, workspace, attempt, other
<1>4. Keeps'
  BY DEF UploadInv, BoundsAssumption, Acquire, MayMoveAway, MoveAway, Moved, End, LeftTo,
         Keeps, SavedKept, OthersIn, Replaceable, Body, Preparing, Meta, files, workspace,
         attempt, other
<1>5. Reports'
  BY DEF UploadInv, BoundsAssumption, Acquire, MayMoveAway, MoveAway, Moved, End, LeftTo,
         Reports, Places, Types, PlanTypes, Outcomes, Preparing, Steps, files, workspace,
         attempt, other
<1> QED BY <1>1, <1>2, <1>3, <1>4, <1>5 DEF UploadInv

\* A target that moved although the call failed is kept in the backup.
LEMMA AcquireFailsKeeps ==
  ASSUME BoundsAssumption, UploadInv, AcquireFails
  PROVE  UploadInv'
<1>1. Types'
  <2>1. FileTypes'
    BY DEF UploadInv, BoundsAssumption, AcquireFails, MayMoveAway, MoveAway, Moved, End,
           LeftTo, Fault, Types, FileTypes, Files, Versions, Stages, files, workspace,
           attempt, other
  <2>2. FlagTypes'
    BY DEF UploadInv, BoundsAssumption, AcquireFails, MayMoveAway, MoveAway, Moved, End,
           LeftTo, Fault, Types, FlagTypes, files, workspace, attempt, other
  <2>3. PlanTypes'
    BY DEF UploadInv, BoundsAssumption, AcquireFails, MayMoveAway, MoveAway, Moved, End,
           LeftTo, Fault, Types, PlanTypes, Steps, Outcomes, files, workspace, attempt,
           other
  <2>4. VersionTypes'
    BY DEF UploadInv, BoundsAssumption, AcquireFails, MayMoveAway, MoveAway, Moved, End,
           LeftTo, Fault, Types, VersionTypes, OthersIn, FileTypes, Files, Stages, Whole,
           files, workspace, attempt, other
  <2> QED BY <2>1, <2>2, <2>3, <2>4 DEF Types
<1>2. Places'
  BY DEF UploadInv, BoundsAssumption, AcquireFails, MayMoveAway, MoveAway, Moved, End,
         LeftTo, Fault, Types, Places, BackupIdentified, Owning, Steps, Preparing,
         PlanTypes, OthersIn, files, workspace, attempt, other
<1>3. Stages'
  BY DEF UploadInv, BoundsAssumption, AcquireFails, MayMoveAway, MoveAway, Moved, End,
         LeftTo, Fault, Types, FileTypes, Files, Stages, Whole, Places, Owning, Steps,
         Preparing, PlanTypes, files, workspace, attempt, other
<1>4. Keeps'
  BY DEF UploadInv, BoundsAssumption, AcquireFails, MayMoveAway, MoveAway, Moved, End,
         LeftTo, Fault, Keeps, SavedKept, OthersIn, Replaceable, Body, Preparing, Meta,
         files, workspace, attempt, other
<1>5. Reports'
  BY DEF UploadInv, BoundsAssumption, AcquireFails, MayMoveAway, MoveAway, Moved, End,
         LeftTo, Fault, Reports, Places, Types, PlanTypes, Outcomes, Preparing, Steps,
         files, workspace, attempt, other
<1> QED BY <1>1, <1>2, <1>3, <1>4, <1>5 DEF UploadInv

\* An acquired file that matches has the body the editor saw; another one goes back.
LEMMA VerifyKeeps ==
  ASSUME BoundsAssumption, UploadInv, Verify
  PROVE  UploadInv'
<1>1. Types'
  BY DEF UploadInv, Types, Verify, FileTypes, Files, Versions, FlagTypes, PlanTypes, Steps,
         Outcomes, VersionTypes, OthersIn, Matches, Meta, Body, files, workspace, attempt,
         other
<1>2. Places'
  BY DEF UploadInv, Places, Verify, BackupIdentified, Owning, Steps, Preparing, Matches,
         Meta, Body, files, workspace, attempt, other
<1>3. Stages'
  BY DEF UploadInv, Stages, Verify, Whole, Matches, Meta, Body, files, workspace, attempt,
         other
<1>4. Keeps'
  BY DEF UploadInv, BoundsAssumption, Keeps, Types, Places, Verify, Files, Versions,
         Outcomes, SavedKept, OthersIn, Replaceable, Body, Preparing, Meta, FileTypes,
         FlagTypes, PlanTypes, Steps, VersionTypes, BackupIdentified, Owning, Matches,
         files, workspace, attempt, other
<1>5. Reports'
  BY DEF UploadInv, Reports, Verify, Matches, Meta, Body, files, workspace, attempt, other
<1> QED BY <1>1, <1>2, <1>3, <1>4, <1>5 DEF UploadInv

\* The acquired file is unknown and goes back.
LEMMA VerifyFailsKeeps ==
  ASSUME BoundsAssumption, UploadInv, VerifyFails
  PROVE  UploadInv'
<1>1. Types'
  BY DEF UploadInv, BoundsAssumption, Types, VerifyFails, Files, Versions, Outcomes,
         FileTypes, FlagTypes, PlanTypes, Steps, VersionTypes, OthersIn, Fault, files,
         workspace, attempt, other
<1>2. Places'
  BY DEF UploadInv, Places, VerifyFails, BackupIdentified, Owning, Steps, Preparing, Fault,
         files, workspace, attempt, other
<1>3. Stages'
  BY DEF UploadInv, Stages, VerifyFails, Whole, Fault, files, workspace, attempt, other
<1>4. Keeps'
  BY DEF UploadInv, Keeps, VerifyFails, SavedKept, OthersIn, Replaceable, Body, Preparing,
         Meta, Fault, files, workspace, attempt, other
<1>5. Reports'
  BY DEF UploadInv, Reports, VerifyFails, Fault, files, workspace, attempt, other
<1> QED BY <1>1, <1>2, <1>3, <1>4, <1>5 DEF UploadInv

\* The acquired file moves back only to a free place; otherwise both stay.
LEMMA RestoreKeeps ==
  ASSUME BoundsAssumption, UploadInv, Restore
  PROVE  UploadInv'
<1>1. Types'
  <2>1. FileTypes'
    BY DEF UploadInv, BoundsAssumption, Restore, MayRestore, MoveBack, Moved, End, LeftTo,
           RecoveryError, Types, FileTypes, Files, Versions, Stages, files, workspace,
           attempt, other
  <2>2. FlagTypes'
    BY DEF UploadInv, BoundsAssumption, Restore, MayRestore, MoveBack, Moved, End, LeftTo,
           RecoveryError, Types, FlagTypes, files, workspace, attempt, other
  <2>3. PlanTypes'
    BY DEF UploadInv, BoundsAssumption, Restore, MayRestore, MoveBack, Moved, End, LeftTo,
           RecoveryError, Types, PlanTypes, Steps, Outcomes, files, workspace, attempt,
           other
  <2>4. VersionTypes'
    BY DEF UploadInv, BoundsAssumption, Restore, MayRestore, MoveBack, Moved, End, LeftTo,
           RecoveryError, Types, VersionTypes, OthersIn, FileTypes, Files, Stages, Whole,
           files, workspace, attempt, other
  <2> QED BY <2>1, <2>2, <2>3, <2>4 DEF Types
<1>2. Places'
  BY DEF UploadInv, BoundsAssumption, Restore, MayRestore, MoveBack, Moved, End, LeftTo,
         RecoveryError, Types, Places, BackupIdentified, Owning, Steps, Preparing,
         PlanTypes, OthersIn, files, workspace, attempt, other
<1>3. Stages'
  BY DEF UploadInv, BoundsAssumption, Restore, MayRestore, MoveBack, Moved, End, LeftTo,
         RecoveryError, Types, FileTypes, Files, Stages, Whole, Places, Owning, Steps,
         Preparing, PlanTypes, files, workspace, attempt, other
<1>4. Keeps'
  BY DEF UploadInv, BoundsAssumption, Restore, MayRestore, MoveBack, Moved, End, LeftTo,
         RecoveryError, Keeps, SavedKept, OthersIn, Replaceable, Body, Preparing, Meta,
         files, workspace, attempt, other
<1>5. Reports'
  BY DEF UploadInv, BoundsAssumption, Restore, MayRestore, MoveBack, Moved, End, LeftTo,
         RecoveryError, Reports, Places, Types, PlanTypes, Outcomes, Preparing, Steps,
         files, workspace, attempt, other
<1> QED BY <1>1, <1>2, <1>3, <1>4, <1>5 DEF UploadInv

\* What is published is the whole stage; the versions that the attempt saw are replaced.
LEMMA PublishKeeps ==
  ASSUME BoundsAssumption, UploadInv, Publish
  PROVE  UploadInv'
<1>1. Types'
  <2>1. FileTypes'
    BY DEF UploadInv, BoundsAssumption, Publish, MayMoveIn, MoveIn, Types, FileTypes, Files,
           Versions, Stages, files, workspace, attempt, other
  <2>2. FlagTypes'
    BY DEF UploadInv, BoundsAssumption, Publish, MayMoveIn, MoveIn, Types, FlagTypes, files,
           workspace, attempt, other
  <2>3. PlanTypes'
    BY DEF UploadInv, BoundsAssumption, Publish, MayMoveIn, MoveIn, Types, PlanTypes, Steps,
           Outcomes, files, workspace, attempt, other
  <2>4. VersionTypes'
    BY DEF UploadInv, BoundsAssumption, Publish, MayMoveIn, MoveIn, Types, VersionTypes,
           OthersIn, FileTypes, Files, Stages, Whole, files, workspace, attempt, other
  <2> QED BY <2>1, <2>2, <2>3, <2>4 DEF Types
<1>2. Places'
  BY DEF UploadInv, BoundsAssumption, Publish, MayMoveIn, MoveIn, Types, Places,
         BackupIdentified, Owning, Steps, Preparing, PlanTypes, OthersIn, files, workspace,
         attempt, other
<1>3. Stages'
  BY DEF UploadInv, BoundsAssumption, Publish, MayMoveIn, MoveIn, Types, FileTypes, Files,
         Stages, Whole, Places, Owning, Steps, Preparing, PlanTypes, files, workspace,
         attempt, other
<1>4. Keeps'
  BY DEF UploadInv, BoundsAssumption, Keeps, Types, Publish, MayMoveIn, MoveIn, Files, Versions,
         Outcomes, SavedKept, OthersIn, Replaceable, Body, Preparing, Meta, FileTypes, FlagTypes,
         PlanTypes, Steps, VersionTypes, workspace, attempt
<1>5. Reports'
  BY DEF UploadInv, BoundsAssumption, Publish, MayMoveIn, MoveIn, Reports, Places, Types,
         PlanTypes, Outcomes, Preparing, Steps, files, workspace, attempt, other
<1> QED BY <1>1, <1>2, <1>3, <1>4, <1>5 DEF UploadInv

\* A publication that took effect although the call failed is remembered as unheard.
LEMMA PublishFailsKeeps ==
  ASSUME BoundsAssumption, UploadInv, PublishFails
  PROVE  UploadInv'
<1>1. Types'
  <2>1. FileTypes'
    BY DEF UploadInv, BoundsAssumption, PublishFails, MayMoveIn, MoveIn, Fault, Types,
           FileTypes, Files, Versions, Stages, files, workspace, attempt, other
  <2>2. FlagTypes'
    BY DEF UploadInv, BoundsAssumption, PublishFails, MayMoveIn, MoveIn, Fault, Types,
           FlagTypes, files, workspace, attempt, other
  <2>3. PlanTypes'
    BY DEF UploadInv, BoundsAssumption, PublishFails, MayMoveIn, MoveIn, Fault, Types,
           PlanTypes, Steps, Outcomes, files, workspace, attempt, other
  <2>4. VersionTypes'
    BY DEF UploadInv, BoundsAssumption, PublishFails, MayMoveIn, MoveIn, Fault, Types,
           VersionTypes, OthersIn, FileTypes, Files, Stages, Whole, files, workspace,
           attempt, other
  <2> QED BY <2>1, <2>2, <2>3, <2>4 DEF Types
<1>2. Places'
  BY DEF UploadInv, BoundsAssumption, PublishFails, MayMoveIn, MoveIn, Fault, Types, Places,
         BackupIdentified, Owning, Steps, Preparing, PlanTypes, OthersIn, files, workspace,
         attempt, other
<1>3. Stages'
  BY DEF UploadInv, BoundsAssumption, PublishFails, MayMoveIn, MoveIn, Fault, Types,
         FileTypes, Files, Stages, Whole, Places, Owning, Steps, Preparing, PlanTypes,
         files, workspace, attempt, other
<1>4. Keeps'
  BY DEF UploadInv, BoundsAssumption, PublishFails, MayMoveIn, MoveIn, Fault, Keeps,
         SavedKept, OthersIn, Replaceable, Body, Preparing, Meta, files, workspace, attempt,
         other
<1>5. Reports'
  BY DEF UploadInv, BoundsAssumption, PublishFails, MayMoveIn, MoveIn, Fault, Reports,
         Places, Types, PlanTypes, Outcomes, Preparing, Steps, files, workspace, attempt,
         other
<1> QED BY <1>1, <1>2, <1>3, <1>4, <1>5 DEF UploadInv

\* The old file moves back only to a free place; otherwise it stays, and the outcome says
\* so.
LEMMA RecoverKeeps ==
  ASSUME BoundsAssumption, UploadInv, Recover
  PROVE  UploadInv'
<1>1. Types'
  <2>1. FileTypes'
    BY DEF UploadInv, BoundsAssumption, Recover, CanRestore, MoveBack, Moved, End, LeftTo,
           RecoveryError, Types, FileTypes, Files, Versions, Stages, files, workspace,
           attempt, other
  <2>2. FlagTypes'
    BY DEF UploadInv, BoundsAssumption, Recover, CanRestore, MoveBack, Moved, End, LeftTo,
           RecoveryError, Types, FlagTypes, files, workspace, attempt, other
  <2>3. PlanTypes'
    BY DEF UploadInv, BoundsAssumption, Recover, CanRestore, MoveBack, Moved, End, LeftTo,
           RecoveryError, Types, PlanTypes, Steps, Outcomes, files, workspace, attempt,
           other
  <2>4. VersionTypes'
    BY DEF UploadInv, BoundsAssumption, Recover, CanRestore, MoveBack, Moved, End, LeftTo,
           RecoveryError, Types, VersionTypes, OthersIn, FileTypes, Files, Stages, Whole,
           files, workspace, attempt, other
  <2> QED BY <2>1, <2>2, <2>3, <2>4 DEF Types
<1>2. Places'
  BY DEF UploadInv, BoundsAssumption, Recover, CanRestore, MoveBack, Moved, End, LeftTo,
         RecoveryError, Types, Places, BackupIdentified, Owning, Steps, Preparing,
         PlanTypes, OthersIn, files, workspace, attempt, other
<1>3. Stages'
  BY DEF UploadInv, BoundsAssumption, Recover, CanRestore, MoveBack, Moved, End, LeftTo,
         RecoveryError, Types, FileTypes, Files, Stages, Whole, Places, Owning, Steps,
         Preparing, PlanTypes, files, workspace, attempt, other
<1>4. Keeps'
  BY DEF UploadInv, BoundsAssumption, Recover, CanRestore, MoveBack, Moved, End, LeftTo,
         RecoveryError, Keeps, SavedKept, OthersIn, Replaceable, Body, Preparing, Meta,
         files, workspace, attempt, other
<1>5. Reports'
  BY DEF UploadInv, BoundsAssumption, Recover, CanRestore, MoveBack, Moved, End, LeftTo,
         RecoveryError, Reports, Places, Types, PlanTypes, Outcomes, Preparing, Steps,
         files, workspace, attempt, other
<1> QED BY <1>1, <1>2, <1>3, <1>4, <1>5 DEF UploadInv

\* The backup stays with its workspace, or is back at a free place.
LEMMA RecoveryFailsKeeps ==
  ASSUME BoundsAssumption, UploadInv, RecoveryFails
  PROVE  UploadInv'
<1>1. Types'
  <2>1. FileTypes'
    BY DEF UploadInv, BoundsAssumption, RecoveryFails, MayRestore, CanRestore, MoveBack,
           Moved, RecoveryError, Fault, End, LeftTo, Types, FileTypes, Files, Versions,
           Stages, files, workspace, attempt, other
  <2>2. FlagTypes'
    BY DEF UploadInv, BoundsAssumption, RecoveryFails, MayRestore, CanRestore, MoveBack,
           Moved, RecoveryError, Fault, End, LeftTo, Types, FlagTypes, files, workspace,
           attempt, other
  <2>3. PlanTypes'
    BY DEF UploadInv, BoundsAssumption, RecoveryFails, MayRestore, CanRestore, MoveBack,
           Moved, RecoveryError, Fault, End, LeftTo, Types, PlanTypes, Steps, Outcomes,
           files, workspace, attempt, other
  <2>4. VersionTypes'
    BY DEF UploadInv, BoundsAssumption, RecoveryFails, MayRestore, CanRestore, MoveBack,
           Moved, RecoveryError, Fault, End, LeftTo, Types, VersionTypes, OthersIn,
           FileTypes, Files, Stages, Whole, files, workspace, attempt, other
  <2> QED BY <2>1, <2>2, <2>3, <2>4 DEF Types
<1>2. Places'
  BY DEF UploadInv, BoundsAssumption, RecoveryFails, MayRestore, CanRestore, MoveBack,
         Moved, RecoveryError, Fault, End, LeftTo, Types, Places, BackupIdentified, Owning,
         Steps, Preparing, PlanTypes, OthersIn, files, workspace, attempt, other
<1>3. Stages'
  BY DEF UploadInv, BoundsAssumption, RecoveryFails, MayRestore, CanRestore, MoveBack,
         Moved, RecoveryError, Fault, End, LeftTo, Types, FileTypes, Files, Stages, Whole,
         Places, Owning, Steps, Preparing, PlanTypes, files, workspace, attempt, other
<1>4. Keeps'
  BY DEF UploadInv, BoundsAssumption, RecoveryFails, MayRestore, CanRestore, MoveBack,
         Moved, RecoveryError, Fault, End, LeftTo, Keeps, SavedKept, OthersIn, Replaceable,
         Body, Preparing, Meta, files, workspace, attempt, other
<1>5. Reports'
  BY DEF UploadInv, BoundsAssumption, RecoveryFails, MayRestore, CanRestore, MoveBack,
         Moved, RecoveryError, Fault, End, LeftTo, Reports, Places, Types, PlanTypes,
         Outcomes, Preparing, Steps, files, workspace, attempt, other
<1> QED BY <1>1, <1>2, <1>3, <1>4, <1>5 DEF UploadInv

-----------------------------------------------------------------------------
(* After the publication.                                                  *)

\* A backup that matches holds only what has been replaced.
LEMMA ReverifyKeeps ==
  ASSUME BoundsAssumption, UploadInv, Reverify
  PROVE  UploadInv'
<1>1. Types'
  BY DEF UploadInv, Types, Reverify, FileTypes, Files, Versions, FlagTypes, PlanTypes,
         Steps, Outcomes, VersionTypes, OthersIn, Matches, Meta, Body, End, LeftTo, files,
         workspace, attempt, other
<1>2. Places'
  BY DEF UploadInv, Places, Reverify, BackupIdentified, Owning, Steps, Preparing, Matches,
         Meta, Body, End, LeftTo, files, workspace, attempt, other
<1>3. Stages'
  BY DEF UploadInv, Stages, Reverify, Whole, Matches, Meta, Body, End, LeftTo, files,
         workspace, attempt, other
<1>4. Keeps'
  BY DEF UploadInv, BoundsAssumption, Keeps, Types, Places, Reverify, Files, Versions,
         Outcomes, SavedKept, OthersIn, Replaceable, Body, Preparing, Meta, FileTypes,
         FlagTypes, PlanTypes, Steps, VersionTypes, BackupIdentified, Owning, Matches, End,
         LeftTo, files, workspace, attempt, other
<1>5. Reports'
  BY DEF UploadInv, Reports, Reverify, Matches, Meta, Body, End, LeftTo, files, workspace,
         attempt, other
<1> QED BY <1>1, <1>2, <1>3, <1>4, <1>5 DEF UploadInv

\* The backup stays, and the publication stands.
LEMMA ReverifyFailsKeeps ==
  ASSUME BoundsAssumption, UploadInv, ReverifyFails
  PROVE  UploadInv'
<1>1. Types'
  BY DEF UploadInv, BoundsAssumption, Types, ReverifyFails, Files, Versions, Outcomes,
         FileTypes, FlagTypes, PlanTypes, Steps, VersionTypes, OthersIn, Fault, End, LeftTo,
         files, workspace, attempt, other
<1>2. Places'
  BY DEF UploadInv, Places, ReverifyFails, BackupIdentified, Owning, Steps, Preparing,
         Fault, End, LeftTo, files, workspace, attempt, other
<1>3. Stages'
  BY DEF UploadInv, Stages, ReverifyFails, Whole, Fault, End, LeftTo, files, workspace,
         attempt, other
<1>4. Keeps'
  BY DEF UploadInv, Keeps, ReverifyFails, SavedKept, OthersIn, Replaceable, Body, Preparing,
         Meta, Fault, End, LeftTo, files, workspace, attempt, other
<1>5. Reports'
  BY DEF UploadInv, Reports, ReverifyFails, Fault, End, LeftTo, files, workspace, attempt,
         other
<1> QED BY <1>1, <1>2, <1>3, <1>4, <1>5 DEF UploadInv

\* What is dropped with the backup has been replaced.
LEMMA DropKeeps ==
  ASSUME BoundsAssumption, UploadInv, Drop
  PROVE  UploadInv'
<1>1. Types'
  <2>1. FileTypes'
    BY DEF UploadInv, BoundsAssumption, Drop, DropBackup, Moved, Types, FileTypes, Files,
           Versions, Stages, files, workspace, attempt, other
  <2>2. FlagTypes'
    BY DEF UploadInv, BoundsAssumption, Drop, DropBackup, Moved, Types, FlagTypes, files,
           workspace, attempt, other
  <2>3. PlanTypes'
    BY DEF UploadInv, BoundsAssumption, Drop, DropBackup, Moved, Types, PlanTypes, Steps,
           Outcomes, files, workspace, attempt, other
  <2>4. VersionTypes'
    BY DEF UploadInv, BoundsAssumption, Drop, DropBackup, Moved, Types, VersionTypes,
           OthersIn, FileTypes, Files, Stages, Whole, files, workspace, attempt, other
  <2> QED BY <2>1, <2>2, <2>3, <2>4 DEF Types
<1>2. Places'
  BY DEF UploadInv, BoundsAssumption, Drop, DropBackup, Moved, Types, Places,
         BackupIdentified, Owning, Steps, Preparing, PlanTypes, OthersIn, files, workspace,
         attempt, other
<1>3. Stages'
  BY DEF UploadInv, BoundsAssumption, Drop, DropBackup, Moved, Types, FileTypes, Files,
         Stages, Whole, Places, Owning, Steps, Preparing, PlanTypes, files, workspace,
         attempt, other
<1>4. Keeps'
  BY DEF UploadInv, BoundsAssumption, Drop, DropBackup, Moved, Keeps, SavedKept, OthersIn,
         Replaceable, Body, Preparing, Meta, files, workspace, attempt, other
<1>5. Reports'
  BY DEF UploadInv, BoundsAssumption, Drop, DropBackup, Moved, Reports, Places, Types,
         PlanTypes, Outcomes, Preparing, Steps, files, workspace, attempt, other
<1> QED BY <1>1, <1>2, <1>3, <1>4, <1>5 DEF UploadInv

\* The workspace goes only without a stage and a backup.
LEMMA CleanupKeeps ==
  ASSUME BoundsAssumption, UploadInv, Cleanup
  PROVE  UploadInv'
<1>1. Types'
  <2>1. FileTypes'
    BY DEF UploadInv, BoundsAssumption, Cleanup, MayCleanup, End, LeftTo, Types, FileTypes,
           Files, Versions, Stages, files, workspace, attempt, other
  <2>2. FlagTypes'
    BY DEF UploadInv, BoundsAssumption, Cleanup, MayCleanup, End, LeftTo, Types, FlagTypes,
           files, workspace, attempt, other
  <2>3. PlanTypes'
    BY DEF UploadInv, BoundsAssumption, Cleanup, MayCleanup, End, LeftTo, Types, PlanTypes,
           Steps, Outcomes, files, workspace, attempt, other
  <2>4. VersionTypes'
    BY DEF UploadInv, BoundsAssumption, Cleanup, MayCleanup, End, LeftTo, Types,
           VersionTypes, OthersIn, FileTypes, Files, Stages, Whole, files, workspace,
           attempt, other
  <2> QED BY <2>1, <2>2, <2>3, <2>4 DEF Types
<1>2. Places'
  BY DEF UploadInv, BoundsAssumption, Cleanup, MayCleanup, End, LeftTo, Types, Places,
         BackupIdentified, Owning, Steps, Preparing, PlanTypes, OthersIn, files, workspace,
         attempt, other
<1>3. Stages'
  BY DEF UploadInv, BoundsAssumption, Cleanup, MayCleanup, End, LeftTo, Types, FileTypes,
         Files, Stages, Whole, Places, Owning, Steps, Preparing, PlanTypes, files,
         workspace, attempt, other
<1>4. Keeps'
  BY DEF UploadInv, BoundsAssumption, Cleanup, MayCleanup, End, LeftTo, Keeps, SavedKept,
         OthersIn, Replaceable, Body, Preparing, Meta, files, workspace, attempt, other
<1>5. Reports'
  BY DEF UploadInv, BoundsAssumption, Cleanup, MayCleanup, End, LeftTo, Reports, Places,
         Types, PlanTypes, Outcomes, Preparing, Steps, files, workspace, attempt, other
<1> QED BY <1>1, <1>2, <1>3, <1>4, <1>5 DEF UploadInv

-----------------------------------------------------------------------------
(* Failures and the end of an attempt.                                     *)

\* The publication stands, and a backup that is gone has been replaced.
LEMMA DropFailsKeeps ==
  ASSUME BoundsAssumption, UploadInv, DropFails
  PROVE  UploadInv'
<1>1. Types'
  <2>1. FileTypes'
    BY DEF UploadInv, BoundsAssumption, DropFails, DropBackup, Moved, Fault, End, LeftTo,
           Types, FileTypes, Files, Versions, Stages, files, workspace, attempt, other
  <2>2. FlagTypes'
    BY DEF UploadInv, BoundsAssumption, DropFails, DropBackup, Moved, Fault, End, LeftTo,
           Types, FlagTypes, files, workspace, attempt, other
  <2>3. PlanTypes'
    BY DEF UploadInv, BoundsAssumption, DropFails, DropBackup, Moved, Fault, End, LeftTo,
           Types, PlanTypes, Steps, Outcomes, files, workspace, attempt, other
  <2>4. VersionTypes'
    BY DEF UploadInv, BoundsAssumption, DropFails, DropBackup, Moved, Fault, End, LeftTo,
           Types, VersionTypes, OthersIn, FileTypes, Files, Stages, Whole, files, workspace,
           attempt, other
  <2> QED BY <2>1, <2>2, <2>3, <2>4 DEF Types
<1>2. Places'
  BY DEF UploadInv, BoundsAssumption, DropFails, DropBackup, Moved, Fault, End, LeftTo,
         Types, Places, BackupIdentified, Owning, Steps, Preparing, PlanTypes, OthersIn,
         files, workspace, attempt, other
<1>3. Stages'
  BY DEF UploadInv, BoundsAssumption, DropFails, DropBackup, Moved, Fault, End, LeftTo,
         Types, FileTypes, Files, Stages, Whole, Places, Owning, Steps, Preparing,
         PlanTypes, files, workspace, attempt, other
<1>4. Keeps'
  BY DEF UploadInv, BoundsAssumption, DropFails, DropBackup, Moved, Fault, End, LeftTo,
         Keeps, SavedKept, OthersIn, Replaceable, Body, Preparing, Meta, files, workspace,
         attempt, other
<1>5. Reports'
  BY DEF UploadInv, BoundsAssumption, DropFails, DropBackup, Moved, Fault, End, LeftTo,
         Reports, Places, Types, PlanTypes, Outcomes, Preparing, Steps, files, workspace,
         attempt, other
<1> QED BY <1>1, <1>2, <1>3, <1>4, <1>5 DEF UploadInv

\* Only an emptied workspace is left: the publication stands.
LEMMA CleanupFailsKeeps ==
  ASSUME BoundsAssumption, UploadInv, CleanupFails
  PROVE  UploadInv'
<1>1. Types'
  <2>1. FileTypes'
    BY DEF UploadInv, BoundsAssumption, CleanupFails, MayCleanup, Fault, End, LeftTo, Types,
           FileTypes, Files, Versions, Stages, files, workspace, attempt, other
  <2>2. FlagTypes'
    BY DEF UploadInv, BoundsAssumption, CleanupFails, MayCleanup, Fault, End, LeftTo, Types,
           FlagTypes, files, workspace, attempt, other
  <2>3. PlanTypes'
    BY DEF UploadInv, BoundsAssumption, CleanupFails, MayCleanup, Fault, End, LeftTo, Types,
           PlanTypes, Steps, Outcomes, files, workspace, attempt, other
  <2>4. VersionTypes'
    BY DEF UploadInv, BoundsAssumption, CleanupFails, MayCleanup, Fault, End, LeftTo, Types,
           VersionTypes, OthersIn, FileTypes, Files, Stages, Whole, files, workspace,
           attempt, other
  <2> QED BY <2>1, <2>2, <2>3, <2>4 DEF Types
<1>2. Places'
  <2>1. staged = None /\ backup = None
    BY DEF UploadInv, Reports, CleanupFails
  <2>2. step' \in {"idle", "discard"} /\ (step' = "discard" => kind = "editor" /\ faults' # 0)
    BY DEF UploadInv, Types, PlanTypes, CleanupFails, End, LeftTo, Fault
  <2>3. UNCHANGED <<files, handle, kind>>
    BY DEF CleanupFails, attempt, other
  <2> QED
    BY <2>1, <2>2, <2>3 DEF UploadInv, Types, PlanTypes, Places, BackupIdentified, Owning,
           Preparing, files
<1>3. Stages'
  BY DEF UploadInv, BoundsAssumption, CleanupFails, MayCleanup, Fault, End, LeftTo, Types,
         FileTypes, Files, Stages, Whole, Places, Owning, Steps, Preparing, PlanTypes,
         files, workspace, attempt, other
<1>4. Keeps'
  BY DEF UploadInv, BoundsAssumption, CleanupFails, MayCleanup, Fault, End, LeftTo, Keeps,
         SavedKept, OthersIn, Replaceable, Body, Preparing, Meta, files, workspace, attempt,
         other
<1>5. Reports'
  BY DEF UploadInv, BoundsAssumption, CleanupFails, MayCleanup, Fault, End, LeftTo, Reports,
         Places, Types, PlanTypes, Outcomes, Preparing, Steps, files, workspace, attempt,
         other
<1> QED BY <1>1, <1>2, <1>3, <1>4, <1>5 DEF UploadInv

\* Nothing is published yet, and the workspace stays as it is.
LEMMA CheckFailsKeeps ==
  ASSUME BoundsAssumption, UploadInv, CheckFails
  PROVE  UploadInv'
<1>1. Types'
  <2>1. FileTypes'
    BY DEF UploadInv, BoundsAssumption, CheckFails, Fault, End, LeftTo, Types, FileTypes,
           Files, Versions, Stages, files, workspace, attempt, other
  <2>2. FlagTypes'
    BY DEF UploadInv, BoundsAssumption, CheckFails, Fault, End, LeftTo, Types, FlagTypes,
           files, workspace, attempt, other
  <2>3. PlanTypes'
    BY DEF UploadInv, BoundsAssumption, CheckFails, Fault, End, LeftTo, Types, PlanTypes,
           Steps, Outcomes, files, workspace, attempt, other
  <2>4. VersionTypes'
    BY DEF UploadInv, BoundsAssumption, CheckFails, Fault, End, LeftTo, Types, VersionTypes,
           OthersIn, FileTypes, Files, Stages, Whole, files, workspace, attempt, other
  <2> QED BY <2>1, <2>2, <2>3, <2>4 DEF Types
<1>2. Places'
  BY DEF UploadInv, BoundsAssumption, CheckFails, Fault, End, LeftTo, Types, Places,
         BackupIdentified, Owning, Steps, Preparing, PlanTypes, OthersIn, files, workspace,
         attempt, other
<1>3. Stages'
  BY DEF UploadInv, BoundsAssumption, CheckFails, Fault, End, LeftTo, Types, FileTypes,
         Files, Stages, Whole, Places, Owning, Steps, Preparing, PlanTypes, files,
         workspace, attempt, other
<1>4. Keeps'
  BY DEF UploadInv, BoundsAssumption, CheckFails, Fault, End, LeftTo, Keeps, SavedKept,
         OthersIn, Replaceable, Body, Preparing, Meta, files, workspace, attempt, other
<1>5. Reports'
  BY DEF UploadInv, BoundsAssumption, CheckFails, Fault, End, LeftTo, Reports, Places,
         Types, PlanTypes, Outcomes, Preparing, Steps, files, workspace, attempt, other
<1> QED BY <1>1, <1>2, <1>3, <1>4, <1>5 DEF UploadInv

\* The workspace is discarded only without a backup.
LEMMA DiscardKeeps ==
  ASSUME BoundsAssumption, UploadInv, Discard
  PROVE  UploadInv'
<1>1. Types'
  <2>1. FileTypes'
    BY DEF UploadInv, BoundsAssumption, Discard, MayDiscard, OwnedHere, Types, FileTypes,
           Files, Versions, Stages, files, workspace, attempt, other
  <2>2. FlagTypes'
    BY DEF UploadInv, BoundsAssumption, Discard, MayDiscard, OwnedHere, Types, FlagTypes,
           files, workspace, attempt, other
  <2>3. PlanTypes'
    BY DEF UploadInv, BoundsAssumption, Discard, MayDiscard, OwnedHere, Types, PlanTypes,
           Steps, Outcomes, files, workspace, attempt, other
  <2>4. VersionTypes'
    BY DEF UploadInv, BoundsAssumption, Discard, MayDiscard, OwnedHere, Types, VersionTypes,
           OthersIn, FileTypes, Files, Stages, Whole, files, workspace, attempt, other
  <2> QED BY <2>1, <2>2, <2>3, <2>4 DEF Types
<1>2. Places'
  BY DEF UploadInv, BoundsAssumption, Discard, MayDiscard, OwnedHere, Types, Places,
         BackupIdentified, Owning, Steps, Preparing, PlanTypes, OthersIn, files, workspace,
         attempt, other
<1>3. Stages'
  BY DEF UploadInv, BoundsAssumption, Discard, MayDiscard, OwnedHere, Types, FileTypes,
         Files, Stages, Whole, Places, Owning, Steps, Preparing, PlanTypes, files,
         workspace, attempt, other
<1>4. Keeps'
  BY DEF UploadInv, BoundsAssumption, Discard, MayDiscard, OwnedHere, Keeps, SavedKept,
         OthersIn, Replaceable, Body, Preparing, Meta, files, workspace, attempt, other
<1>5. Reports'
  BY DEF UploadInv, BoundsAssumption, Discard, MayDiscard, OwnedHere, Reports, Places,
         Types, PlanTypes, Outcomes, Preparing, Steps, files, workspace, attempt, other
<1> QED BY <1>1, <1>2, <1>3, <1>4, <1>5 DEF UploadInv

\* What is left of the workspace holds no backup; the attempt had a fault.
LEMMA DiscardFailsKeeps ==
  ASSUME BoundsAssumption, UploadInv, DiscardFails
  PROVE  UploadInv'
<1>1. Types'
  <2>1. FileTypes'
    BY DEF UploadInv, BoundsAssumption, DiscardFails, MayDiscard, OwnedHere, Fault, Types,
           FileTypes, Files, Versions, Stages, files, workspace, attempt, other
  <2>2. FlagTypes'
    BY DEF UploadInv, BoundsAssumption, DiscardFails, MayDiscard, OwnedHere, Fault, Types,
           FlagTypes, files, workspace, attempt, other
  <2>3. PlanTypes'
    BY DEF UploadInv, BoundsAssumption, DiscardFails, MayDiscard, OwnedHere, Fault, Types,
           PlanTypes, Steps, Outcomes, files, workspace, attempt, other
  <2>4. VersionTypes'
    BY DEF UploadInv, BoundsAssumption, DiscardFails, MayDiscard, OwnedHere, Fault, Types,
           VersionTypes, OthersIn, FileTypes, Files, Stages, Whole, files, workspace,
           attempt, other
  <2> QED BY <2>1, <2>2, <2>3, <2>4 DEF Types
<1>2. Places'
  BY DEF UploadInv, BoundsAssumption, DiscardFails, MayDiscard, OwnedHere, Fault, Types,
         Places, BackupIdentified, Owning, Steps, Preparing, PlanTypes, OthersIn, files,
         workspace, attempt, other
<1>3. Stages'
  BY DEF UploadInv, BoundsAssumption, DiscardFails, MayDiscard, OwnedHere, Fault, Types,
         FileTypes, Files, Stages, Whole, Places, Owning, Steps, Preparing, PlanTypes,
         files, workspace, attempt, other
<1>4. Keeps'
  BY DEF UploadInv, BoundsAssumption, DiscardFails, MayDiscard, OwnedHere, Fault, Keeps,
         SavedKept, OthersIn, Replaceable, Body, Preparing, Meta, files, workspace, attempt,
         other
<1>5. Reports'
  BY DEF UploadInv, BoundsAssumption, DiscardFails, MayDiscard, OwnedHere, Fault, Reports,
         Places, Types, PlanTypes, Outcomes, Preparing, Steps, files, workspace, attempt,
         other
<1> QED BY <1>1, <1>2, <1>3, <1>4, <1>5 DEF UploadInv

\* Whatever an attempt leaves at any of its steps is told by its record.
LEMMA AbandonKeeps ==
  ASSUME BoundsAssumption, UploadInv, Abandon
  PROVE  UploadInv'
<1>1. Types'
  BY DEF UploadInv, BoundsAssumption, Types, Abandon, Files, Versions, Outcomes, FileTypes,
         FlagTypes, PlanTypes, Steps, VersionTypes, OthersIn, Fault, files, workspace,
         attempt, other
<1>2. Places'
  BY DEF UploadInv, Places, Abandon, BackupIdentified, Owning, Steps, Preparing, Fault,
         files, workspace, attempt, other
<1>3. Stages'
  BY DEF UploadInv, Stages, Abandon, Whole, Fault, files, workspace, attempt, other
<1>4. Keeps'
  BY DEF UploadInv, Keeps, Abandon, SavedKept, OthersIn, Replaceable, Body, Preparing, Meta,
         Fault, files, workspace, attempt, other
<1>5. Reports'
  BY DEF UploadInv, BoundsAssumption, Reports, Types, Abandon, Files, Versions, Outcomes,
         FileTypes, FlagTypes, PlanTypes, Steps, VersionTypes, OthersIn, Fault, files,
         workspace, attempt, other
<1> QED BY <1>1, <1>2, <1>3, <1>4, <1>5 DEF UploadInv

-----------------------------------------------------------------------------
(* The surroundings.                                                       *)

\* A new version of the source is later than every version staged.
LEMMA SourceEditedKeeps ==
  ASSUME BoundsAssumption, UploadInv, SourceEdited
  PROVE  UploadInv'
<1>1. Types'
  BY DEF UploadInv, BoundsAssumption, Types, SourceEdited, Files, Versions, Outcomes,
         FileTypes, FlagTypes, PlanTypes, Steps, VersionTypes, OthersIn, files, workspace,
         attempt, other
<1>2. Places'
  BY DEF UploadInv, Places, SourceEdited, BackupIdentified, Owning, Steps, Preparing, files,
         workspace, attempt, other
<1>3. Stages'
  BY DEF UploadInv, BoundsAssumption, Stages, Types, SourceEdited, Files, Versions,
         Outcomes, Whole, FileTypes, FlagTypes, PlanTypes, Steps, VersionTypes, OthersIn,
         files, workspace, attempt, other
<1>4. Keeps'
  BY DEF UploadInv, Keeps, SourceEdited, SavedKept, OthersIn, Replaceable, Body, Preparing,
         Meta, files, workspace, attempt, other
<1>5. Reports'
  BY DEF UploadInv, Reports, SourceEdited, files, workspace, attempt, other
<1> QED BY <1>1, <1>2, <1>3, <1>4, <1>5 DEF UploadInv

\* A new version is the only one that the other client's step adds to those which have to
\* be found, and it is in the file that the step writes.
LEMMA OtherReplacesSaved ==
  ASSUME BoundsAssumption, UploadInv, NEW m \in Metas, OtherReplaces(m)
  PROVE  VersionTypes' /\ SavedKept'
<1>1. version \in Nat /\ version' = version + 1 /\ version' <= MaxVersions
  BY DEF UploadInv, Types, VersionTypes, OtherReplaces, BoundsAssumption
<1>2. UserFile(version', m) \in Files
  BY <1>1 DEF UserFile, Files, Versions
<1>3. UserFile(version', m) # None
  BY <1>2 DEF BoundsAssumption
<1>4. ASSUME NEW f, f = UserFile(version', m)
      PROVE  OthersIn(f) = {version'}
  BY <1>3, <1>4 DEF OthersIn, UserFile
<1>5. saved' \subseteq saved \cup {version'}
  BY DEF OtherReplaces
<1>6. saved \subseteq 0 .. version
      /\ OthersIn(target) \cup OthersIn(backup) \cup OthersIn(initial) \subseteq 0 .. version
  BY DEF UploadInv, Types, VersionTypes
<1>7. initial' = initial
  BY DEF OtherReplaces, attempt
<1>8. CASE /\ target' = UserFile(version', m) /\ backup' = backup
           /\ saved' \subseteq (saved \ OthersIn(target)) \cup {version'}
  <2>1. OthersIn(target)' = {version'} /\ OthersIn(backup)' = OthersIn(backup)
    BY <1>4, <1>8 DEF OthersIn
  <2>2. OthersIn(initial)' = OthersIn(initial)
    BY <1>7 DEF OthersIn
  <2>3. VersionTypes'
    BY <1>1, <1>5, <1>6, <2>1, <2>2 DEF VersionTypes, BoundsAssumption
  <2> QED BY <1>8, <2>1, <2>3 DEF UploadInv, Keeps, SavedKept
<1>9. CASE /\ target' = target /\ backup' = UserFile(version', m)
           /\ saved' \subseteq (saved \ OthersIn(backup)) \cup {version'}
  <2>1. OthersIn(backup)' = {version'} /\ OthersIn(target)' = OthersIn(target)
    BY <1>4, <1>9 DEF OthersIn
  <2>2. OthersIn(initial)' = OthersIn(initial)
    BY <1>7 DEF OthersIn
  <2>3. VersionTypes'
    BY <1>1, <1>5, <1>6, <2>1, <2>2 DEF VersionTypes, BoundsAssumption
  <2> QED BY <1>9, <2>1, <2>3 DEF UploadInv, Keeps, SavedKept
<1> QED BY <1>8, <1>9 DEF OtherReplaces

\* The new version is not in a file that an attempt saw; the one it replaces is given up.
LEMMA OtherReplacesKeeps ==
  ASSUME BoundsAssumption, UploadInv, NEW m \in Metas, OtherReplaces(m)
  PROVE  UploadInv'
<1>1. Types'
  <2>1. FileTypes'
    BY DEF UploadInv, BoundsAssumption, FileTypes, Types, OtherReplaces, Files, Versions,
           Outcomes, FlagTypes, PlanTypes, Steps, VersionTypes, OthersIn, UserFile,
           NoticedAtTarget, Meta, workspace, attempt
  <2>2. FlagTypes'
    BY DEF UploadInv, BoundsAssumption, FlagTypes, Types, OtherReplaces, Files, Versions,
           Outcomes, FileTypes, PlanTypes, Steps, VersionTypes, OthersIn, UserFile,
           NoticedAtTarget, Meta, workspace, attempt
  <2>3. PlanTypes'
    BY DEF UploadInv, BoundsAssumption, PlanTypes, Types, OtherReplaces, Files, Versions,
           Outcomes, Steps, FileTypes, FlagTypes, VersionTypes, OthersIn, UserFile,
           NoticedAtTarget, Meta, workspace, attempt
  <2>4. VersionTypes'
    BY OtherReplacesSaved
  <2> QED BY <2>1, <2>2, <2>3, <2>4 DEF Types
<1>2. Places'
  BY DEF UploadInv, BoundsAssumption, Places, OtherReplaces, Files, Versions, Outcomes,
         BackupIdentified, Owning, Steps, Preparing, UserFile, OthersIn, NoticedAtTarget,
         Meta, workspace, attempt
<1>3. Stages'
  BY DEF UploadInv, Stages, OtherReplaces, Whole, UserFile, OthersIn, NoticedAtTarget, Meta,
         workspace, attempt
<1>4. Keeps'
  <2>1. SavedKept'
    BY OtherReplacesSaved
  <2>2. Replaceable'
    BY DEF UploadInv, BoundsAssumption, Replaceable, Types, Places, Keeps, OtherReplaces,
           Files, Versions, Outcomes, Body, Preparing, Meta, OthersIn, FileTypes, FlagTypes,
           PlanTypes, Steps, VersionTypes, BackupIdentified, Owning, SavedKept, UserFile,
           NoticedAtTarget, workspace, attempt
  <2> QED BY <2>1, <2>2 DEF Keeps
<1>5. Reports'
  BY DEF UploadInv, Reports, OtherReplaces, UserFile, OthersIn, NoticedAtTarget, Meta,
         workspace, attempt
<1> QED BY <1>1, <1>2, <1>3, <1>4, <1>5 DEF UploadInv

\* A new version is the only one that the other client's step adds to those which have to
\* be found, and it is in the file that the step writes.
LEMMA OtherWritesSaved ==
  ASSUME BoundsAssumption, UploadInv, NEW m \in Metas, OtherWrites(m)
  PROVE  VersionTypes' /\ SavedKept'
<1>1. version \in Nat /\ version' = version + 1 /\ version' <= MaxVersions
  BY DEF UploadInv, Types, VersionTypes, OtherWrites, BoundsAssumption
<1>2. UserFile(version', m) \in Files
  BY <1>1 DEF UserFile, Files, Versions
<1>3. UserFile(version', m) # None
  BY <1>2 DEF BoundsAssumption
<1>4. ASSUME NEW f, f = UserFile(version', m)
      PROVE  OthersIn(f) = {version'}
  BY <1>3, <1>4 DEF OthersIn, UserFile
<1>5. saved' \subseteq saved \cup {version'}
  BY DEF OtherWrites
<1>6. saved \subseteq 0 .. version
      /\ OthersIn(target) \cup OthersIn(backup) \cup OthersIn(initial) \subseteq 0 .. version
  BY DEF UploadInv, Types, VersionTypes
<1>7. initial' = initial
  BY DEF OtherWrites, attempt
<1>8. CASE /\ target' = UserFile(version', m) /\ backup' = backup
           /\ saved' \subseteq (saved \ OthersIn(target)) \cup {version'}
  <2>1. OthersIn(target)' = {version'} /\ OthersIn(backup)' = OthersIn(backup)
    BY <1>4, <1>8 DEF OthersIn
  <2>2. OthersIn(initial)' = OthersIn(initial)
    BY <1>7 DEF OthersIn
  <2>3. VersionTypes'
    BY <1>1, <1>5, <1>6, <2>1, <2>2 DEF VersionTypes, BoundsAssumption
  <2> QED BY <1>8, <2>1, <2>3 DEF UploadInv, Keeps, SavedKept
<1>9. CASE /\ target' = target /\ backup' = UserFile(version', m)
           /\ saved' \subseteq (saved \ OthersIn(backup)) \cup {version'}
  <2>1. OthersIn(backup)' = {version'} /\ OthersIn(target)' = OthersIn(target)
    BY <1>4, <1>9 DEF OthersIn
  <2>2. OthersIn(initial)' = OthersIn(initial)
    BY <1>7 DEF OthersIn
  <2>3. VersionTypes'
    BY <1>1, <1>5, <1>6, <2>1, <2>2 DEF VersionTypes, BoundsAssumption
  <2> QED BY <1>9, <2>1, <2>3 DEF UploadInv, Keeps, SavedKept
<1> QED BY <1>8, <1>9 DEF OtherWrites

\* The same through an open handle, which follows its file into the backup.
LEMMA OtherWritesKeeps ==
  ASSUME BoundsAssumption, UploadInv, NEW m \in Metas, OtherWrites(m)
  PROVE  UploadInv'
<1>1. Types'
  <2>1. FileTypes'
    BY DEF UploadInv, BoundsAssumption, FileTypes, Types, OtherWrites, Files, Versions,
           Outcomes, FlagTypes, PlanTypes, Steps, VersionTypes, OthersIn, UserFile,
           NoticedAtTarget, Meta, NoticedAtBackup, workspace, attempt
  <2>2. FlagTypes'
    BY DEF UploadInv, BoundsAssumption, FlagTypes, Types, OtherWrites, Files, Versions,
           Outcomes, FileTypes, PlanTypes, Steps, VersionTypes, OthersIn, UserFile,
           NoticedAtTarget, Meta, NoticedAtBackup, workspace, attempt
  <2>3. PlanTypes'
    BY DEF UploadInv, BoundsAssumption, PlanTypes, Types, OtherWrites, Files, Versions,
           Outcomes, Steps, FileTypes, FlagTypes, VersionTypes, OthersIn, UserFile,
           NoticedAtTarget, Meta, NoticedAtBackup, workspace, attempt
  <2>4. VersionTypes'
    BY OtherWritesSaved
  <2> QED BY <2>1, <2>2, <2>3, <2>4 DEF Types
<1>2. Places'
  BY DEF UploadInv, BoundsAssumption, Places, Types, OtherWrites, Files, Versions, Outcomes,
         BackupIdentified, Owning, Steps, Preparing, FileTypes, FlagTypes, PlanTypes,
         VersionTypes, OthersIn, UserFile, NoticedAtTarget, Meta, NoticedAtBackup,
         workspace, attempt
<1>3. Stages'
  BY DEF UploadInv, Stages, OtherWrites, Whole, UserFile, OthersIn, NoticedAtTarget, Meta,
         NoticedAtBackup, workspace, attempt
<1>4. Keeps'
  <2>1. SavedKept'
    BY OtherWritesSaved
  <2>2. Replaceable'
    <3>1. (/\ kind = "editor" /\ step \notin {"idle", "discard"} => expected = Body(initial))'
      BY DEF UploadInv, BoundsAssumption, Replaceable, Types, Places, Keeps, Reports,
             OtherWrites, Files, Versions, Outcomes, Body, Preparing, Meta, OthersIn,
             FileTypes, FlagTypes, PlanTypes, Steps, VersionTypes, BackupIdentified, Owning,
             SavedKept, UserFile, NoticedAtTarget, NoticedAtBackup, workspace, attempt
    <3>2. (kind = "stream" /\ step \in Preparing \cup {"workspace", "discover", "resume"} =>
             \/ step # "acquire" /\ Meta(target) # Meta(initial)
             \/ saved \cap OthersIn(target) \subseteq OthersIn(initial))'
      BY DEF UploadInv, BoundsAssumption, Replaceable, Types, Places, Keeps, Reports,
             OtherWrites, Files, Versions, Outcomes, Body, Preparing, Meta, OthersIn,
             FileTypes, FlagTypes, PlanTypes, Steps, VersionTypes, BackupIdentified, Owning,
             SavedKept, UserFile, NoticedAtTarget, NoticedAtBackup, workspace, attempt
    <3>3. (kind = "stream" /\ step = "publish" => saved \cap OthersIn(backup) \subseteq OthersIn(initial))'
      BY DEF UploadInv, BoundsAssumption, Replaceable, Types, Places, Keeps, Reports,
             OtherWrites, Files, Versions, Outcomes, Body, Preparing, Meta, OthersIn,
             FileTypes, FlagTypes, PlanTypes, Steps, VersionTypes, BackupIdentified, Owning,
             SavedKept, UserFile, NoticedAtTarget, NoticedAtBackup, workspace, attempt
    <3>4. (step = "reverify" => saved \cap OthersIn(initial) = {})'
      BY DEF UploadInv, BoundsAssumption, Replaceable, Types, Places, Keeps, Reports,
             OtherWrites, Files, Versions, Outcomes, Body, Preparing, Meta, OthersIn,
             FileTypes, FlagTypes, PlanTypes, Steps, VersionTypes, BackupIdentified, Owning,
             SavedKept, UserFile, NoticedAtTarget, NoticedAtBackup, workspace, attempt
    <3>5. (step = "drop" => saved \cap OthersIn(backup) = {})'
      BY DEF UploadInv, BoundsAssumption, Replaceable, Types, Places, Keeps, Reports,
             OtherWrites, Files, Versions, Outcomes, Body, Preparing, Meta, OthersIn,
             FileTypes, FlagTypes, PlanTypes, Steps, VersionTypes, BackupIdentified, Owning,
             SavedKept, UserFile, NoticedAtTarget, NoticedAtBackup, workspace, attempt
    <3> QED BY <3>1, <3>2, <3>3, <3>4, <3>5 DEF Replaceable
  <2> QED BY <2>1, <2>2 DEF Keeps
<1>5. Reports'
  BY DEF UploadInv, BoundsAssumption, Reports, Types, Places, OtherWrites, Files, Versions,
         Outcomes, FileTypes, FlagTypes, PlanTypes, Steps, VersionTypes, OthersIn,
         BackupIdentified, Owning, Preparing, UserFile, NoticedAtTarget, Meta,
         NoticedAtBackup, workspace, attempt
<1> QED BY <1>1, <1>2, <1>3, <1>4, <1>5 DEF UploadInv

\* The other client gives up what it removes.
LEMMA OtherRemovesKeeps ==
  ASSUME BoundsAssumption, UploadInv, OtherRemoves
  PROVE  UploadInv'
<1>1. Types'
  <2>1. FileTypes'
    BY DEF UploadInv, BoundsAssumption, FileTypes, Types, OtherRemoves, Files, Versions,
           Outcomes, FlagTypes, PlanTypes, Steps, VersionTypes, OthersIn, workspace, attempt
  <2>2. FlagTypes'
    BY DEF UploadInv, BoundsAssumption, FlagTypes, Types, OtherRemoves, Files, Versions,
           Outcomes, FileTypes, PlanTypes, Steps, VersionTypes, OthersIn, workspace, attempt
  <2>3. PlanTypes'
    BY DEF UploadInv, BoundsAssumption, PlanTypes, Types, OtherRemoves, Files, Versions,
           Outcomes, Steps, FileTypes, FlagTypes, VersionTypes, OthersIn, workspace, attempt
  <2>4. VersionTypes'
    BY DEF UploadInv, BoundsAssumption, VersionTypes, Types, OtherRemoves, Files, Versions,
           Outcomes, OthersIn, FileTypes, FlagTypes, PlanTypes, Steps, workspace, attempt
  <2> QED BY <2>1, <2>2, <2>3, <2>4 DEF Types
<1>2. Places'
  BY DEF UploadInv, BoundsAssumption, Places, OtherRemoves, Files, Versions, Outcomes,
         BackupIdentified, Owning, Steps, Preparing, workspace, attempt
<1>3. Stages'
  BY DEF UploadInv, Stages, OtherRemoves, Whole, workspace, attempt
<1>4. Keeps'
  BY DEF UploadInv, Keeps, OtherRemoves, SavedKept, OthersIn, Replaceable, Body, Preparing,
         Meta, workspace, attempt
<1>5. Reports'
  BY DEF UploadInv, Reports, OtherRemoves, workspace, attempt
<1> QED BY <1>1, <1>2, <1>3, <1>4, <1>5 DEF UploadInv

\* A handle is opened on a target that is there.
LEMMA OtherOpensKeeps ==
  ASSUME BoundsAssumption, UploadInv, OtherOpens
  PROVE  UploadInv'
<1>1. Types'
  BY DEF UploadInv, Types, OtherOpens, FileTypes, Files, Versions, FlagTypes, PlanTypes,
         Steps, Outcomes, VersionTypes, OthersIn, files, workspace, attempt
<1>2. Places'
  BY DEF UploadInv, Places, OtherOpens, BackupIdentified, Owning, Steps, Preparing, files,
         workspace, attempt
<1>3. Stages'
  BY DEF UploadInv, Stages, OtherOpens, Whole, files, workspace, attempt
<1>4. Keeps'
  BY DEF UploadInv, Keeps, OtherOpens, SavedKept, OthersIn, Replaceable, Body, Preparing,
         Meta, files, workspace, attempt
<1>5. Reports'
  BY DEF UploadInv, Reports, OtherOpens, files, workspace, attempt
<1> QED BY <1>1, <1>2, <1>3, <1>4, <1>5 DEF UploadInv

-----------------------------------------------------------------------------
(* The theorems.                                                           *)

\* The invariant holds in every reachable state.
LEMMA UploadInvHolds == ASSUME BoundsAssumption PROVE Spec => []UploadInv
<1>1. Init => UploadInv
  BY UploadInit
<1>2. UploadInv /\ [Next]_vars => UploadInv'
  <2> SUFFICES ASSUME UploadInv, [Next]_vars PROVE UploadInv'
    OBVIOUS
  <2>1. CASE EditorReads  BY <2>1, EditorReadsKeeps
  <2>2. CASE BeginEditor  BY <2>2, BeginEditorKeeps
  <2>3. CASE BeginStream  BY <2>3, BeginStreamKeeps
  <2>4. CASE CreateWorkspace  BY <2>4, CreateWorkspaceKeeps
  <2>5. CASE CreateWorkspaceFails  BY <2>5, CreateWorkspaceFailsKeeps
  <2>6. CASE WriteOwner  BY <2>6, WriteOwnerKeeps
  <2>7. CASE WriteOwnerFails  BY <2>7, WriteOwnerFailsKeeps
  <2>8. CASE CreateStage  BY <2>8, CreateStageKeeps
  <2>9. CASE CreateStageFails  BY <2>9, CreateStageFailsKeeps
  <2>10. CASE Discover  BY <2>10, DiscoverKeeps
  <2>11. CASE Resume  BY <2>11, ResumeKeeps
  <2>12. CASE Write  BY <2>12, WriteKeeps
  <2>13. CASE WriteFails  BY <2>13, WriteFailsKeeps
  <2>14. CASE Staged  BY <2>14, StagedKeeps
  <2>15. CASE Compare  BY <2>15, CompareKeeps
  <2>16. CASE Validate  BY <2>16, ValidateKeeps
  <2>17. CASE Check  BY <2>17, CheckKeeps
  <2>18. CASE Acquire  BY <2>18, AcquireKeeps
  <2>19. CASE AcquireFails  BY <2>19, AcquireFailsKeeps
  <2>20. CASE Verify  BY <2>20, VerifyKeeps
  <2>21. CASE VerifyFails  BY <2>21, VerifyFailsKeeps
  <2>22. CASE Restore  BY <2>22, RestoreKeeps
  <2>23. CASE Publish  BY <2>23, PublishKeeps
  <2>24. CASE PublishFails  BY <2>24, PublishFailsKeeps
  <2>25. CASE Recover  BY <2>25, RecoverKeeps
  <2>26. CASE RecoveryFails  BY <2>26, RecoveryFailsKeeps
  <2>27. CASE Reverify  BY <2>27, ReverifyKeeps
  <2>28. CASE ReverifyFails  BY <2>28, ReverifyFailsKeeps
  <2>29. CASE Drop  BY <2>29, DropKeeps
  <2>30. CASE Cleanup  BY <2>30, CleanupKeeps
  <2>31. CASE DropFails  BY <2>31, DropFailsKeeps
  <2>32. CASE CleanupFails  BY <2>32, CleanupFailsKeeps
  <2>33. CASE CheckFails  BY <2>33, CheckFailsKeeps
  <2>34. CASE Discard  BY <2>34, DiscardKeeps
  <2>35. CASE DiscardFails  BY <2>35, DiscardFailsKeeps
  <2>36. CASE Abandon  BY <2>36, AbandonKeeps
  <2>37. CASE SourceEdited  BY <2>37, SourceEditedKeeps
  <2>38. CASE OtherRemoves  BY <2>38, OtherRemovesKeeps
  <2>39. CASE OtherOpens  BY <2>39, OtherOpensKeeps
  <2>40. CASE \E m \in Metas : OtherReplaces(m) \/ OtherWrites(m)
    BY <2>40, OtherReplacesKeeps, OtherWritesKeeps
  <2>41. CASE UNCHANGED vars  BY <2>41, UploadStutter
  <2> QED BY <2>1, <2>2, <2>3, <2>4, <2>5, <2>6, <2>7, <2>8, <2>9, <2>10, <2>11, <2>12,
             <2>13, <2>14, <2>15, <2>16, <2>17, <2>18, <2>19, <2>20, <2>21, <2>22, <2>23,
             <2>24, <2>25, <2>26, <2>27, <2>28, <2>29, <2>30, <2>31, <2>32, <2>33, <2>34,
             <2>35, <2>36, <2>37, <2>38, <2>39, <2>40, <2>41 DEF Next
<1> QED BY <1>1, <1>2, PTL DEF Spec

\* Every version of the other client that an attempt could notice is at the target or in
\* the backup until an attempt that saw it as the old file has replaced it: whatever step
\* of the replacement fails or is abandoned, and however the two interleave.
THEOREM NoNoticedVersionIsLost == ASSUME BoundsAssumption PROVE Spec => []SavedKept
<1>1. UploadInv => SavedKept
  BY DEF UploadInv, Keeps
<1> QED BY <1>1, UploadInvHolds, PTL

\* What the target shows of an upload is the whole of one version of the source, also
\* when the source is edited during the upload and a stage is resumed.
THEOREM UploadsArePublishedWhole == ASSUME BoundsAssumption PROVE Spec => []PublishedWhole
<1>1. UploadInv => PublishedWhole
  BY DEF UploadInv, Stages, Whole, PublishedWhole
<1> QED BY <1>1, UploadInvHolds, PTL

\* The outcome that an attempt reports is true of the target and the backup, a backup is
\* never left without the record that tells whose it is, and the editor leaves a workspace
\* behind only for a backup, unless a call failed.
THEOREM UploadsAreTruthful == ASSUME BoundsAssumption PROVE Spec => []UploadTruthful
<1>1. UploadInv => UploadTruthful
  <2> SUFFICES ASSUME UploadInv PROVE UploadTruthful
    OBVIOUS
  <2>1. TypeOK
    BY DEF UploadInv, Types, FileTypes, FlagTypes, PlanTypes, VersionTypes, TypeOK,
           BoundsAssumption
  <2>2. OutcomeTruthful
    BY DEF UploadInv, Reports, OutcomeTruthful
  <2>3. BackupIdentified
    BY DEF UploadInv, Places
  <2>4. EditorLeavesNothing
    BY DEF UploadInv, Reports, EditorLeavesNothing
  <2> QED BY <2>1, <2>2, <2>3, <2>4 DEF UploadTruthful
<1> QED BY <1>1, UploadInvHolds, PTL
=============================================================================
