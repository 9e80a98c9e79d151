----------------------------- MODULE SecretStore -----------------------------
(***************************************************************************)
(* The encrypted file store of managed SSH keys                            *)
(* (crates/netcatty-secret-store/src/file_store.rs) and the commands that  *)
(* use it under the saved-host locks (src-tauri/src/lib.rs): first         *)
(* initialization, publication of a secret, garbage collection, rotation   *)
(* of the master key and its resumption.                                   *)
(*                                                                         *)
(* The file system is a set of entries: `seen` is what the program reads,  *)
(* `disk` is what the directory syncs so far have made durable.  A command *)
(* is the sequence of steps it still has to take, `todo`; the locks keep   *)
(* other commands away, so the checks it makes while holding them are made *)
(* when the sequence is computed.  A killed process leaves `seen` as it    *)
(* is; a power loss leaves any set between what is in both and what is in  *)
(* one of the two.                                                         *)
(*                                                                         *)
(* An object is one custody revision of one key: it is written once, in    *)
(* two slots.  A master-key epoch has its own storage root; epoch 1 is the *)
(* flat layout of the store's own root.                                    *)
(***************************************************************************)
EXTENDS Naturals, Sequences, FiniteSets, FiniteSetsExt, SequencesExt

CONSTANTS
    Objects,     \* custody revisions
    MaxEpoch,    \* bound: the last epoch a rotation may reach
    Faults,      \* what may go wrong: "kill", "power", "sync", "link", "torn"
    MaxFaults    \* bound on the number of faults in a behaviour

\* What a model must choose.
BoundsAssumption ==
    /\ IsFiniteSet(Objects)
    /\ MaxEpoch \in Nat \ {0}
    /\ MaxFaults \in Nat
    /\ Faults \subseteq {"kill", "power", "sync", "link", "torn"}

VARIABLES
    seen,      \* directory entries the program reads
    disk,      \* directory entries that are durable
    keyring,   \* epochs whose master key is in the OS keyring
    stage,     \* of the command: "idle", "checking" or "recovering" on entry,
               \* then "ready" or "recovered", and "busy" while it works
    todo,      \* the steps it still takes
    proof,     \* the retired-source confirmation this process has cached
    faults     \* faults so far

vars == <<seen, disk, keyring, stage, todo, proof, faults>>

Epochs == 1..MaxEpoch
Slots == {"A", "B"}
Generations == 1..(2 * MaxEpoch)

-----------------------------------------------------------------------------
(* Directory entries, the directory that holds each one, and what it lies in *)

Owner == [kind |-> "owner"]
\* The directories of the keyset slots and of the flat layout.
Directories == [kind |-> "directories"]
Keyset(g, e) == [kind |-> "keyset", gen |-> g, epoch |-> e]
Root(e) == [kind |-> "root", epoch |-> e]
Manifest(e, g, objs, tree) ==
    [kind |-> "manifest", epoch |-> e, source |-> g, objs |-> objs, tree |-> tree]
Marker(e) == [kind |-> "marker", epoch |-> e]
Home(e, o) == [kind |-> "home", epoch |-> e, obj |-> o]
Blob(e, o, s) == [kind |-> "blob", epoch |-> e, obj |-> o, slot |-> s]
\* A reference to an object from a Vault graph.
Ref(o) == [kind |-> "ref", obj |-> o]
\* A temporary file whose writer died before it was complete.
Torn(d) == [kind |-> "torn", dir |-> d]

Dir(a) ==
    CASE a.kind \in {"owner", "directories"} -> <<"top">>
      [] a.kind = "keyset" -> <<"keys", a.gen % 2>>
      [] a.kind = "root" -> <<"epochs">>
      [] a.kind \in {"manifest", "marker"} -> <<"root", a.epoch>>
      [] a.kind = "home" -> <<"prefix", a.epoch, a.obj>>
      [] a.kind = "blob" -> <<"blobs", a.epoch, a.obj, a.slot>>
      [] a.kind = "ref" -> <<"vault">>
      [] a.kind = "torn" -> a.dir

\* The directories an entry is lost with.
Containers(a) ==
    LET root(e) == IF e = 1 THEN {Directories} ELSE {Root(e)}
    IN CASE a.kind = "keyset" -> {Directories}
         [] a.kind \in {"manifest", "marker"} -> root(a.epoch)
         [] a.kind = "home" -> root(a.epoch)
         [] a.kind = "blob" -> root(a.epoch) \cup {Home(a.epoch, a.obj)}
         [] OTHER -> {}

OfKind(k) == {a \in seen : a.kind = k}

-----------------------------------------------------------------------------
(* The keyset: two slots, by the parity of the generation *)

Newest(p) ==
    LET files == {a \in OfKind("keyset") : a.gen % 2 = p}
    IN {a \in files : \A b \in files : b.gen <= a.gen}
Pair == Newest(0) \cup Newest(1)
MaxGeneration == Max({0} \cup {a.gen : a \in Pair})

\* load_keyset: two copies must be of consecutive generations, and a
\* temporary file must prove that it belongs to the store.
KeysetLoads ==
    /\ \A a, b \in Pair : a.gen <= b.gen + 1
    /\ \A p \in {0, 1} : Torn(<<"keys", p>>) \notin seen

\* LoadedKeyset::selected and is_stable.
Selected == CHOOSE a \in Pair : a.gen = MaxGeneration
Active == Selected.epoch
Stable == /\ Cardinality(Pair) = 2
          /\ \A a, b \in Pair : a.epoch = b.epoch

BlobsOf(e) == {a \in OfKind("blob") : a.epoch = e}
BlobDirs(e) == {<<"blobs", e, o, s>> : o \in Objects, s \in Slots}
TornIn(D) == \E d \in D : Torn(d) \in seen

\* The Vault's retention set covers every graph a power loss may restore
\* (VaultStore, RetentionCoversRecovery).
Retained == {o \in Objects : Ref(o) \in seen \cup disk}

\* Both copies of the object are in the epoch's root.
Whole(e, o) == \A s \in Slots : Blob(e, o, s) \in seen

-----------------------------------------------------------------------------
(* Discovery of a rotation *)

\* validate_layout_for_open: nothing beside a missing owner, no torn
\* temporary file, and a complete root for the active epoch.
LayoutValid ==
    /\ Owner \in seen \/ \A a \in seen : a.kind = "ref"
    /\ ~TornIn({<<"top">>} \cup {<<"root", e>> : e \in Epochs})
    /\ KeysetLoads
    /\ Pair # {} /\ Active > 1 =>
           Root(Active) \in seen /\ \E m \in OfKind("manifest") : m.epoch = Active

\* rotation_keyset_phase, for a source of generation g and target epoch t.
Phase(g, t) ==
    IF Stable /\ Active = t - 1 /\ MaxGeneration = g THEN "source"
    ELSE IF Pair = {Keyset(g, t - 1), Keyset(g + 1, t)} THEN "mixed"
    ELSE IF Stable /\ Active = t /\ MaxGeneration > g + 1 THEN "target"
    ELSE "error"

\* What inspect_master_key_rotation makes of one epoch's root.
InspectRoot(e) ==
    LET manifests == {m \in OfKind("manifest") : m.epoch = e}
    IN IF e < Active THEN "none"
       ELSE IF manifests = {}
            THEN IF e = Active + 1 /\ Stable THEN "pending" ELSE "error"
            ELSE LET phase == Phase((CHOOSE m \in manifests : TRUE).source, e)
                 IN CASE phase = "error" -> "error"
                      [] Marker(e) \in seen ->
                             IF phase = "target" THEN "retired" ELSE "error"
                      [] phase = "target" -> "completed"
                      [] OTHER -> "pending"

Inspected == {e \in Epochs : Root(e) \in seen}
Found(what) == {e \in Inspected : InspectRoot(e) = what}

\* recover_managed_master_key_rotation, as far as the discovery.
Inspection ==
    IF ~LayoutValid THEN "error"
    ELSE IF Pair = {} THEN IF Retained = {} THEN "none" ELSE "error"
    ELSE LET of == [e \in Inspected |-> InspectRoot(e)]
             found(what) == {e \in Inspected : of[e] = what}
         IN IF found("error") # {} \/ Cardinality(found("pending")) > 1 THEN "error"
            ELSE IF found("pending") # {} THEN "pending"
            ELSE IF found("completed") # {} THEN "completed"
            ELSE IF found("retired") # {} THEN "retired"
            ELSE "none"

-----------------------------------------------------------------------------
(* The steps of a command *)

Link(a) == <<[do |-> "link", art |-> a]>>
Unlink(a) == <<[do |-> "unlink", art |-> a]>>
Sync(D) == <<[do |-> "sync", dirs |-> D]>>
CreateKey(e) == <<[do |-> "create", epoch |-> e]>>
RetireKey(e) == <<[do |-> "retire", epoch |-> e]>>
Proven == <<[do |-> "proof"]>>

\* Mutant: the directory is not synced after a publication.
PutUnsynced(a) == IF a \in seen THEN <<>> ELSE Link(a)

\* publish_named_no_overwrite for an entry that is not there yet, and
\* ensure_owned_directory: what is there already is not synced again.
Put(a) == IF a \in seen THEN <<>> ELSE Link(a) \o Sync({Dir(a)})

ForEach(S, Steps(_)) == FoldSet(LAMBDA x, steps : steps \o Steps(x), <<>>, S)

\* ensure_object_directories and publish_prepared_object_at_storage_root.
\* Directories that exist are not synced again.
PublishObject(e, o) ==
    Put(Home(e, o)) \o Put(Blob(e, o, "A")) \o Put(Blob(e, o, "B"))
        \o Sync({<<"blobs", e, o, s>> : s \in Slots})

ConfirmKeyset == Sync({<<"keys", 0>>, <<"keys", 1>>, <<"top">>})

\* activate_epoch_internal: generations are added until both slots hold the
\* epoch, one at a time.
ActivateEpoch(t) ==
    LET first == MaxGeneration + 1
        missing == IF Pair # {} /\ Stable /\ Active = t THEN 0
                   ELSE IF Pair # {} /\ ~Stable THEN 1 ELSE 2
    IN FlattenSeq([i \in 1..missing |-> Put(Keyset(first + i - 1, t))]) \o ConfirmKeyset

\* initialize: the owner, the directories, the first keyset.
Initialize == Put(Owner) \o Put(Directories) \o ActivateEpoch(1)

\* confirm_master_key_rotation_graphs and confirm_completed_target_only: the
\* directories that are synced.
ConfirmGraph(t, objs) ==
    Sync({<<"root", t>>, <<"epochs">>, <<"top">>}
             \cup {<<"blobs", t, o, s>> : o \in objs, s \in Slots})

\* Mutant: the marker is published before the key is deleted.
RetireMarkerFirst(t) ==
    Put(Marker(t)) \o RetireKey(t - 1)
        \o Sync({<<"root", t>>, <<"epochs">>, <<"top">>}) \o Proven

\* completed_rotation_outcome: the source key goes first, then the marker
\* that says so.
Retire(t) ==
    RetireKey(t - 1) \o Put(Marker(t))
        \o Sync({<<"root", t>>, <<"epochs">>, <<"top">>}) \o Proven

\* Mutant: the new epoch is activated before its objects are written.
RotateEpochActivateFirst(t, g) ==
    (IF Root(t) \in seen THEN <<>> ELSE Link(Root(t)))
        \o Sync({<<"epochs">>, <<"root", t>>})
        \o (IF \E m \in OfKind("manifest") : m.epoch = t THEN <<>>
            ELSE Link(Manifest(t, g, Retained, BlobsOf(t - 1))))
        \o Sync({<<"root", t>>})
        \o ActivateEpoch(t)
        \o ForEach(Retained, LAMBDA o : PublishObject(t, o))
        \o ConfirmGraph(t, Retained)
        \o Retire(t)

\* Mutant: a target root found in place is taken to have its manifest.
RotateEpochNoManifest(t, g) ==
    (IF Root(t) \in seen THEN <<>>
     ELSE Link(Root(t)) \o Link(Manifest(t, g, Retained, BlobsOf(t - 1))))
        \o Sync({<<"epochs">>, <<"root", t>>})
        \o ForEach(Retained, LAMBDA o : PublishObject(t, o))
        \o ConfirmGraph(t, Retained)
        \o ActivateEpoch(t)
        \o ConfirmGraph(t, Retained)
        \o Retire(t)

\* rotate_master_key_epoch from source generation g.
RotateEpoch(t, g) ==
    (IF Root(t) \in seen THEN <<>> ELSE Link(Root(t)))
        \o Sync({<<"epochs">>, <<"root", t>>})
        \o (IF \E m \in OfKind("manifest") : m.epoch = t THEN <<>>
            ELSE Link(Manifest(t, g, Retained, BlobsOf(t - 1))))
        \o Sync({<<"root", t>>})
        \o ForEach(Retained, LAMBDA o : PublishObject(t, o))
        \o ConfirmGraph(t, Retained)
        \o ActivateEpoch(t)
        \o ConfirmGraph(t, Retained)
        \o Retire(t)

\* preflight_master_key_rotation_source: both copies of every retained object.
SourceAccepted(t) ==
    /\ ~TornIn(BlobDirs(t - 1))
    /\ \A o \in Retained : Whole(t - 1, o)

\* preflight_master_key_rotation_target: nothing but retained objects, and a
\* manifest that describes this very source.
TargetAccepted(t, g) ==
    /\ ~TornIn(BlobDirs(t))
    /\ \A a \in OfKind("home") \cup OfKind("blob") : a.epoch = t => a.obj \in Retained
    /\ \A m \in OfKind("manifest") :
           m.epoch = t => m = Manifest(t, g, Retained, BlobsOf(t - 1))

\* Mutant: a target that has a manifest is taken for a foreign one.
RotationAcceptedFresh(t, g) ==
    /\ {t - 1, t} \subseteq keyring
    /\ \A o \in Retained : Whole(t - 1, o)
    /\ \A m \in OfKind("manifest") : m.epoch # t

\* Both keys are in the keyring, the source and the target are accepted.
RotationAccepted(t, g) ==
    /\ {t - 1, t} \subseteq keyring
    /\ SourceAccepted(t)
    /\ TargetAccepted(t, g)

\* confirm_completed_master_key_rotation.
CompletionAccepted(t) ==
    /\ t \in keyring
    /\ ~TornIn(BlobDirs(t))
    /\ \A o \in Retained : Whole(t, o)

\* preflight_garbage_collection and execute_garbage_collection: the blobs of all
\* unreferenced objects go first, then their directories are synced, then each
\* empty object goes.
Unreferenced == {h \in OfKind("home") : h.epoch = Active /\ h.obj \notin Retained}
CollectBlobs(gone) ==
    IF gone = {} THEN <<>> ELSE ForEach(gone, Unlink) \o Sync({Dir(b) : b \in gone})
Collect ==
    CollectBlobs({b \in BlobsOf(Active) : Home(Active, b.obj) \in Unreferenced})
        \o ForEach(Unreferenced, LAMBDA h : Unlink(h) \o Sync({Dir(h)}))
CollectAccepted ==
    /\ Pair # {} /\ Active \in keyring
    /\ ~TornIn(BlobDirs(Active))
    /\ \A o \in Retained : Whole(Active, o)

-----------------------------------------------------------------------------
(* Commands *)

Init ==
    /\ seen = {} /\ disk = {} /\ keyring = {}
    /\ stage = "idle" /\ todo = <<>>
    /\ proof = FALSE
    /\ faults = 0

Begin(s, steps) ==
    /\ stage' = s
    /\ todo' = steps
    /\ UNCHANGED <<seen, disk, keyring, faults>>

\* The newest generation of the source keyset.
SourceGeneration(t) == IF Active = t THEN MaxGeneration - 1 ELSE MaxGeneration

\* recover_managed_master_key_rotation, the first thing any saved-host
\* command does.  A refused recovery ends the command.
Recover ==
    /\ stage = "idle"
    /\ LET found == Inspection IN
       \/ /\ found = "none"
          /\ proof' = FALSE
          /\ Begin("ready", <<>>)
       \/ /\ found = "retired" /\ proof
          /\ Begin("ready", <<>>)
          /\ UNCHANGED proof
       \/ /\ found = "retired" /\ ~proof
          /\ Begin("checking", Sync({<<"root", Active>>, <<"epochs">>, <<"top">>}) \o Proven)
          /\ UNCHANGED proof
       \/ /\ found = "completed"
          /\ CompletionAccepted(Active)
          /\ proof' = FALSE
          /\ Begin("recovering",
                   ConfirmGraph(Active, Retained) \o ConfirmKeyset \o Retire(Active))
       \/ /\ found = "pending"
          /\ \E t \in Found("pending") :
                /\ RotationAccepted(t, SourceGeneration(t))
                /\ Begin("recovering", RotateEpoch(t, SourceGeneration(t)))
          /\ proof' = FALSE

\* confirm_loaded_secret_store: a keyset with one copy gets its second one.
LoadStore == IF Stable THEN ConfirmKeyset ELSE ActivateEpoch(Active)

Expand(what) == <<[do |-> what]>>

Unused(o) == \A a \in seen \cup disk : a.kind \in {"home", "blob", "ref"} => a.obj # o

\* The conditions under which create_managed_ssh_key_inner gets to publish: the
\* garbage collection before it must succeed, and a store is initialized
\* only when no graph refers to a secret.
CreateAccepted == IF Owner \in seen THEN CollectAccepted ELSE Retained = {}

\* create_managed_ssh_key: collect, publish the object, then commit the
\* graph that refers to it, and collect again.
Create(o) ==
    /\ stage \in {"ready", "recovered"}
    /\ Unused(o)
    /\ CreateAccepted
    /\ Begin("busy",
             (IF Owner \in seen
              THEN LoadStore \o Collect \o PublishObject(Active, o)
              ELSE CreateKey(1) \o Initialize \o PublishObject(1, o))
                 \o Put(Ref(o)) \o Expand("collect"))
    /\ UNCHANGED proof

\* delete_managed_ssh_key: the graph first, then the blobs it no longer needs.
Delete(o) ==
    /\ stage \in {"ready", "recovered"}
    /\ Ref(o) \in seen
    /\ Begin("busy", Unlink(Ref(o)) \o Sync({<<"vault">>}) \o Expand("collect"))
    /\ UNCHANGED proof

\* rotate_managed_ssh_master_key, unless this command already resumed one.
Rotate ==
    /\ stage = "ready"
    /\ Owner \in seen
    /\ \/ /\ Pair # {} /\ Active \in keyring /\ Active < MaxEpoch
          /\ Begin("busy", LoadStore \o CreateKey(Active + 1) \o Expand("rotate"))
       \/ /\ Pair = {} /\ Retained = {} /\ 1 \in keyring /\ MaxEpoch > 1
          /\ Begin("busy", Initialize \o CreateKey(2) \o Expand("rotate"))
    /\ UNCHANGED proof

\* A command that only reads the catalog.
Read ==
    /\ stage \in {"ready", "recovered"}
    /\ Begin("idle", <<>>)
    /\ UNCHANGED proof

-----------------------------------------------------------------------------
(* The steps *)

Doing(what) == todo # <<>> /\ Head(todo).do = what

Go(rest) ==
    /\ todo' = rest
    /\ stage' = IF rest # <<>> THEN stage
                ELSE [checking |-> "ready", recovering |-> "recovered", busy |-> "idle"][stage]

Fail == todo' = <<>> /\ stage' = "idle"

DoLink ==
    /\ Doing("link")
    /\ seen' = seen \cup {Head(todo).art}
    /\ Go(Tail(todo))
    /\ UNCHANGED <<disk, keyring, proof, faults>>

DoUnlink ==
    /\ Doing("unlink")
    /\ seen' = seen \ {Head(todo).art}
    /\ Go(Tail(todo))
    /\ UNCHANGED <<disk, keyring, proof, faults>>

\* What a sync of the directories D makes durable.
Synced(D) == {a \in disk : Dir(a) \notin D} \cup {a \in seen : Dir(a) \in D}

DoSync ==
    /\ Doing("sync")
    /\ disk' = Synced(Head(todo).dirs)
    /\ Go(Tail(todo))
    /\ UNCHANGED <<seen, keyring, proof, faults>>

DoCreateKey ==
    /\ Doing("create")
    /\ keyring' = keyring \cup {Head(todo).epoch}
    /\ Go(Tail(todo))
    /\ UNCHANGED <<seen, disk, proof, faults>>

\* The source key is deleted and read back; when it is still there the marker
\* is left for a later command.
DoRetire ==
    /\ Doing("retire")
    /\ \/ /\ keyring' = keyring \ {Head(todo).epoch}
          /\ Go(Tail(todo))
       \/ /\ Head(todo).epoch \in keyring
          /\ Go(<<>>)
          /\ UNCHANGED keyring
    /\ UNCHANGED <<seen, disk, proof, faults>>

DoProof ==
    /\ Doing("proof")
    /\ proof' = TRUE
    /\ Go(Tail(todo))
    /\ UNCHANGED <<seen, disk, keyring, faults>>

DoCollect ==
    /\ Doing("collect")
    /\ IF CollectAccepted THEN Go(LoadStore \o Collect) ELSE Fail
    /\ UNCHANGED <<seen, disk, keyring, proof, faults>>

DoRotate ==
    /\ Doing("rotate")
    /\ IF RotationAccepted(Active + 1, MaxGeneration)
       THEN Go(RotateEpoch(Active + 1, MaxGeneration)) ELSE Fail
    /\ UNCHANGED <<seen, disk, keyring, proof, faults>>

-----------------------------------------------------------------------------
(* Faults *)

Fault(kind) == kind \in Faults /\ faults < MaxFaults /\ faults' = faults + 1

\* A directory sync fails for good; some of the directories were synced before
\* it. A sync that fails once and is confirmed by a second one, as the commands
\* do after a publication (confirm_secret_store_initialization), leaves what
\* one sync leaves: it is DoSync.
SyncFails ==
    /\ Doing("sync") /\ Fault("sync")
    /\ \E D \in SUBSET Head(todo).dirs : disk' = Synced(D)
    /\ Fail
    /\ UNCHANGED <<seen, keyring, proof>>

\* The master key of a store whose owner file was not published is deleted
\* again (secret_store_initialization_failure_disposition).
Disowned == IF Owner \in seen THEN {} ELSE {1}

\* A hard link fails before it takes effect.
LinkFails ==
    /\ Doing("link") /\ Fault("link")
    /\ keyring' = keyring \ Disowned
    /\ Fail
    /\ UNCHANGED <<seen, disk, proof>>

\* The temporary files that may be left half written by a process that dies
\* in the middle of a publication.
TornNow ==
    IF "torn" \in Faults /\ Doing("link") /\ Head(todo).art.kind \notin {"root", "home", "ref"}
    THEN {{}, {Torn(Dir(Head(todo).art))}} ELSE {{}}

Restart == Fail /\ proof' = FALSE /\ UNCHANGED keyring

Kill ==
    /\ Fault("kill")
    /\ \E t \in TornNow : seen' = seen \cup t /\ disk' = disk \cup t
    /\ Restart

PowerLoss ==
    /\ Fault("power")
    /\ \E t \in TornNow, kept \in SUBSET ((seen \ disk) \cup (disk \ seen)) :
          LET left == (seen \cap disk) \cup kept
              whole == {a \in left : Containers(a) \subseteq left}
          IN seen' = whole \cup t /\ disk' = whole \cup t
    /\ Restart

-----------------------------------------------------------------------------
Steps ==
    \/ DoLink \/ DoUnlink \/ DoSync
    \/ DoCreateKey \/ DoRetire \/ DoProof
    \/ DoCollect \/ DoRotate

Next ==
    \/ Recover \/ Rotate \/ Read \/ Steps
    \/ \E o \in Objects : Create(o) \/ Delete(o)
    \/ SyncFails \/ LinkFails \/ Kill \/ PowerLoss

Spec == Init /\ [][Next]_vars

-----------------------------------------------------------------------------
(* Properties *)

\* The variables have their types, and the bound on generations is never the
\* reason that a rotation stops.
TypeOK ==
    /\ \A a \in seen \cup disk : a.kind = "keyset" => a.gen \in Generations /\ a.epoch \in Epochs
    /\ keyring \subseteq Epochs
    /\ stage \in {"idle", "checking", "recovering", "ready", "recovered", "busy"}
    /\ stage \in {"checking", "recovering", "busy"} <=> todo # <<>>
    /\ proof \in BOOLEAN
    /\ faults \in 0..MaxFaults

\* A copy of the object that its epoch's key in the keyring can decrypt.
Decryptable(o) ==
    \E e \in keyring, s \in Slots :
        LET b == Blob(e, o, s) IN b \in seen /\ Containers(b) \subseteq seen

\* Every secret a graph refers to still has a copy that can be decrypted,
\* whatever a rotation, a collection or a crash left behind.
NoSecretLost == \A o \in Objects : Ref(o) \in seen => Decryptable(o)

\* More: the store can read it at any moment, through the keyset it selects
\* (resolve_object), also in the middle of a rotation.
SecretsReadable ==
    \A o \in Objects : Ref(o) \in seen =>
        /\ KeysetLoads /\ Pair # {} /\ Active \in keyring
        /\ \E s \in Slots : Blob(Active, o, s) \in seen

\* The marker that ends a rotation is truthful: the source key is gone.
MarkerTruthful == \A e \in Epochs : Marker(e) \in seen => e - 1 \notin keyring

\* A store with an owner has the key of its active epoch, the first one while
\* there is no keyset: no later command may create a replacement.
OwnerHasKey ==
    Owner \in seen => (IF Pair = {} THEN 1 ELSE Active) \in keyring

\* rotate_master_key_epoch is restart-safe: whatever a crash leaves, the
\* recovery at the start of the next command accepts it.  That takes a source
\* that stays as the manifest describes it while the rotation is pending.
RestartSafe ==
    stage = "idle" =>
        LET found == Inspection IN
        /\ found # "error"
        /\ found = "pending" =>
               \E t \in Found("pending") : RotationAccepted(t, SourceGeneration(t))
        /\ found = "completed" => CompletionAccepted(Active)
=============================================================================
