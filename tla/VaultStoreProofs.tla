-------------------------- MODULE VaultStoreProofs --------------------------
(***************************************************************************)
(* Theorems about VaultStore, for every number of processes, edits and     *)
(* generations and every fault budget.  In this order:                     *)
(*                                                                         *)
(*   acknowledged edits survive crashes and power losses, a token that an  *)
(*   update accepts is the current one, and a failed edit is never seen;   *)
(*   the retention scan covers every graph that a power loss may bring     *)
(*   back, and one unreadable snapshot costs one generation (both speak of *)
(*   damaged stores, which the invariant of VaultStoreInvariant does not,  *)
(*   so each has an invariant of its own);                                 *)
(*   every step of the store is a step of DurableVault on what a load      *)
(*   selects and what it would select after a power loss, or a stutter.    *)
(***************************************************************************)
EXTENDS VaultStoreInvariant, VaultStoreRefinement, TLAPS, WellFoundedInduction

----------------------------------------------------------------------------
(* The operators that read the slots.                                      *)

\* A nonempty set of naturals below a bound has a maximum: what Newest picks.
LEMMA NewestExists ==
    ASSUME NEW S, S # {}, \A f \in S : f.gen \in 1..MaxGen
    PROVE  Newest(S) # {}
<1> DEFINE Gap == {MaxGen - f.gen : f \in S}
           R == OpToRel(<, Nat)
<1>1. Gap \subseteq Nat /\ Gap # {}
  BY MaxGenAssumption
<1>2. IsWellFoundedOn(R, Nat)
  BY NatLessThanWellFounded
<1> HIDE DEF R
<1>3. PICK x \in Gap : \A y \in Gap : ~(<<y, x>> \in R)
  BY <1>1, <1>2, WFMin
<1>4. \A y \in Gap : ~(y < x)
  BY <1>1, <1>3 DEF R, OpToRel
<1>5. PICK f \in S : x = MaxGen - f.gen
  OBVIOUS
<1>6. ASSUME NEW h \in S
      PROVE  h.gen <= f.gen
  <2>1. MaxGen - h.gen \in Gap
    OBVIOUS
  <2>2. ~(MaxGen - h.gen < MaxGen - f.gen)
    BY <1>4, <1>5, <2>1
  <2>3. h.gen \in Nat /\ f.gen \in Nat
    OBVIOUS
  <2> HIDE DEF Gap
  <2> QED
    BY <2>2, <2>3, MaxGenAssumption
<1> QED
  BY <1>6 DEF Newest

LoadResult == [ok : BOOLEAN, gen : 0..MaxGen, max : 0..MaxGen, edits : SUBSET Edits]

\* The snapshots of a directory are files with a generation in range.
LEMMA SnapshotsType ==
    ASSUME NEW d \in Directory
    PROVE  /\ AllSnapshots(d) \subseteq File
           /\ \A f \in AllSnapshots(d) : f.gen \in 1..MaxGen /\ f.edits \in SUBSET Edits
           /\ \A s \in Slots : Snapshots(d[s]) \subseteq AllSnapshots(d)
BY DEF Directory, File, AllSnapshots, Snapshots, Slots

\* MaxSeen is a generation, and that of a newest snapshot if there is one.
LEMMA MaxSeenIsNewest ==
    ASSUME NEW d \in Directory
    PROVE  /\ MaxSeen(d) \in 0..MaxGen
           /\ AllSnapshots(d) = {} => MaxSeen(d) = 0
           /\ \A f \in AllSnapshots(d) : f.gen <= MaxSeen(d)
           /\ AllSnapshots(d) # {} => \E f \in AllSnapshots(d) : f.gen = MaxSeen(d)
<1>1. CASE AllSnapshots(d) = {}
  BY <1>1, MaxGenAssumption DEF MaxSeen
<1>2. CASE AllSnapshots(d) # {}
  <2> DEFINE top == CHOOSE f \in Newest(AllSnapshots(d)) : TRUE
  <2>1. Newest(AllSnapshots(d)) # {}
    BY <1>2, SnapshotsType, NewestExists
  <2>2. top \in Newest(AllSnapshots(d))
    BY <2>1
  <2>3. MaxSeen(d) = top.gen
    BY <1>2 DEF MaxSeen
  <2> HIDE DEF top
  <2>4. top \in AllSnapshots(d) /\ \A h \in AllSnapshots(d) : h.gen <= top.gen
    BY <2>2 DEF Newest
  <2> QED
    BY <1>2, <2>3, <2>4, SnapshotsType, MaxGenAssumption
<1> QED
  BY <1>1, <1>2

\* load_locked returns a result of its type whatever the slots hold.
LEMMA LoadType ==
    ASSUME NEW d \in Directory
    PROVE  LoadLocked(d) \in LoadResult
<1> DEFINE candidates == ProbeSlot(d["A"]) \cup ProbeSlot(d["B"])
           selected == {f \in Newest(candidates) : Newest(candidates) = {f}}
           chosen == CHOOSE f \in selected : TRUE
<1>1. selected \subseteq AllSnapshots(d)
  BY DEF Newest, ProbeSlot, AllSnapshots
<1>2. selected # {} => chosen \in AllSnapshots(d)
  BY <1>1
<1>3. LoadLocked(d) =
        IF AllSnapshots(d) = {} THEN [ok |-> TRUE, gen |-> 0, max |-> 0, edits |-> {}]
        ELSE IF selected = {} THEN [ok |-> FALSE, gen |-> 0, max |-> MaxSeen(d), edits |-> {}]
        ELSE [ok |-> TRUE, gen |-> chosen.gen, max |-> MaxSeen(d), edits |-> chosen.edits]
  BY DEF LoadLocked
<1> HIDE DEF selected, chosen
<1>4. selected # {} => chosen.gen \in 0..MaxGen /\ chosen.edits \in SUBSET Edits
  BY <1>2, SnapshotsType, MaxGenAssumption
<1> QED
  BY <1>3, <1>4, MaxSeenIsNewest, MaxGenAssumption DEF LoadResult

----------------------------------------------------------------------------
(* Type correctness.                                                       *)

\* What every step that only changes directories needs: sets of files.
LEMMA EntriesType ==
    ASSUME TypeOK, work.gen >= 1
    PROVE  TempEntry(TRUE) \in File /\ TempEntry(FALSE) \in File /\ FinalEntry \in File
BY MaxGenAssumption DEF TypeOK, File, TempEntry, FinalEntry

LEMMA TypeInit == Init => TypeOK /\ WorkStarted
BY MaxGenAssumption
   DEF Init, TypeOK, WorkStarted, Directory, Slots, Token, NoToken, NoFaults

\* A sync of slot s, successful or not, leaves a directory.
LEMMA SyncType ==
    ASSUME dur \in Directory, vis' \in Directory, NEW s \in Slots, SyncBestEffort(s)
    PROVE  dur' \in Directory
BY SyncAssumption DEF SyncBestEffort, SyncOk, Directory

LEMMA TypeNext == TypeOK /\ WorkStarted /\ [Next]_vars => TypeOK' /\ WorkStarted'
<1> SUFFICES ASSUME TypeOK, WorkStarted, [Next]_vars
             PROVE  TypeOK' /\ WorkStarted'
  OBVIOUS
<1>l. Loaded \in LoadResult
  BY LoadType DEF TypeOK, Loaded
<1>s. WorkSlot \in Slots /\ Other(WorkSlot) \in Slots
  BY DEF WorkSlot, ForGeneration, Other, Slots
<1>d. /\ vis[WorkSlot] \in SUBSET File
      /\ \A x \in SUBSET File : [vis EXCEPT ![WorkSlot] = x] \in Directory
  BY <1>s DEF TypeOK, Directory
<1>1. CASE UNCHANGED vars
  BY <1>1 DEF TypeOK, WorkStarted, vars
<1>2. ASSUME NEW p \in Procs, Read(p)
      PROVE  TypeOK' /\ WorkStarted'
  BY <1>2, <1>l DEF TypeOK, WorkStarted, Read, InventoryRevision, LoadResult, Token, fs, ghosts
<1>3. ASSUME NEW p \in Procs, NEW e \in Edits, NEW base \in SUBSET Edits, StartCommit(p, e, base)
      PROVE  TypeOK' /\ WorkStarted'
  BY <1>3, <1>l, MaxGenAssumption
     DEF TypeOK, WorkStarted, StartCommit, LoadResult, fs, clients
<1>4. ASSUME NEW p \in Procs, NEW e \in Edits, CommitReplacement(p, e)
      PROVE  TypeOK' /\ WorkStarted'
  BY <1>3, <1>4 DEF TypeOK, CommitReplacement, Token
<1>5. ASSUME NEW p \in Procs, RejectStale(p)
      PROVE  TypeOK' /\ WorkStarted'
  BY <1>5, MaxGenAssumption DEF TypeOK, WorkStarted, RejectStale, Token, NoToken, fs, ghosts
<1>6. ASSUME NEW p \in Procs, NEW e \in Edits, CommitDirect(p, e)
      PROVE  TypeOK' /\ WorkStarted'
  BY <1>3, <1>6, <1>l DEF CommitDirect, LoadResult
<1>7. ASSUME NEW p \in Procs, ConfirmBegin(p)
      PROVE  TypeOK' /\ WorkStarted'
  BY <1>7, <1>l DEF TypeOK, WorkStarted, ConfirmBegin, LoadResult, fs, clients, ghosts
<1>8. CASE Operation
  <2>e. work.gen >= 1 => TempEntry(TRUE) \in File /\ TempEntry(FALSE) \in File /\ FinalEntry \in File
    BY EntriesType
  <2>1. ASSUME ReturnError, vis' \in Directory
        PROVE  TypeOK' /\ WorkStarted'
    BY <2>1 DEF TypeOK, WorkStarted, ReturnError, clients
  <2>2. CASE CreateTemp
    <3>1. vis' \in Directory
      <4>1. vis[WorkSlot] \cup {TempEntry(FALSE)} \in SUBSET File
        BY <2>2, <2>e, <1>d DEF CreateTemp, WorkStarted
      <4> QED
        BY <2>2, <4>1, <1>d DEF CreateTemp, TypeOK
    <3>2. CASE ReturnError
      BY <2>1, <3>1, <3>2
    <3>3. CASE pc' = "write" /\ UNCHANGED <<dur, clients, holder, work, ghosts, faults>>
      BY <2>2, <3>1, <3>3 DEF TypeOK, WorkStarted, CreateTemp, clients, ghosts
    <3> QED
      BY <2>2, <3>2, <3>3 DEF CreateTemp
  <2>3. CASE SyncTemp
    <3>1. vis' \in Directory
      <4>1. (vis[WorkSlot] \ {TempEntry(FALSE)}) \cup {TempEntry(TRUE)} \in SUBSET File
        BY <2>3, <2>e, <1>d DEF SyncTemp, WorkStarted
      <4> QED
        BY <2>3, <4>1, <1>d DEF SyncTemp
    <3> QED
      BY <2>3, <3>1 DEF TypeOK, WorkStarted, SyncTemp, clients, ghosts
  <2>4. CASE PrePublicationFailure
    <3>1. vis' \in Directory
      <4>1. vis[WorkSlot] \ {TempEntry(FALSE), TempEntry(TRUE)} \in SUBSET File
        BY <1>d
      <4> QED
        BY <2>4, <4>1, <1>d DEF PrePublicationFailure, TypeOK
    <3> QED
      BY <2>1, <2>4, <3>1 DEF PrePublicationFailure
  <2>5. CASE Publish
    <3>1. vis' \in Directory
      <4>1. vis[WorkSlot] \cup {FinalEntry} \in SUBSET File
        BY <2>5, <2>e, <1>d DEF Publish, WorkStarted
      <4> QED
        BY <2>5, <4>1, <1>d DEF Publish
    <3> QED
      BY <2>5, <3>1 DEF TypeOK, WorkStarted, Publish, clients, ghosts
  <2>6. CASE SyncPublication
    <3>1. SyncBestEffort(WorkSlot)
      BY <2>6 DEF SyncPublication, SyncBestEffort
    <3>2. dur' \in Directory
      BY <2>6, <3>1, <1>s, SyncType DEF SyncPublication, TypeOK
    <3> QED
      BY <2>6, <3>2 DEF TypeOK, WorkStarted, SyncPublication, clients, ghosts
  <2>7. CASE RemoveTemp
    <3>1. vis' \in Directory
      <4>1. vis[WorkSlot] \ {TempEntry(TRUE)} \in SUBSET File
        BY <1>d
      <4> QED
        BY <2>7, <4>1, <1>d DEF RemoveTemp, TypeOK
    <3>2. dur' \in Directory
      BY <2>7, <3>1, <1>s, SyncType DEF RemoveTemp, TypeOK
    <3> QED
      BY <2>7, <3>1, <3>2 DEF TypeOK, WorkStarted, RemoveTemp, clients, ghosts
  <2>8. ASSUME ReturnRevision, vis' \in Directory, dur' \in Directory, acked' \subseteq Edits
        PROVE  TypeOK' /\ WorkStarted'
    BY <2>8 DEF TypeOK, WorkStarted, ReturnRevision, InventoryRevision, Committed, Token
  <2>9. CASE ReturnDurable
    <3>1. vis' \in Directory
      BY <2>9, <1>s, <1>d DEF ReturnDurable
    <3>2. dur' \in Directory
      BY <2>9, <3>1, <1>s, SyncType DEF ReturnDurable, TypeOK
    <3> QED
      BY <2>8, <2>9, <3>1, <3>2 DEF TypeOK, ReturnDurable
  <2>10. CASE ReturnUncertain
    BY <2>8, <2>10 DEF TypeOK, ReturnUncertain, fs
  <2>11. CASE ConfirmSync
    <3>1. dur' \in Directory
      BY <2>11, <1>s, SyncType DEF ConfirmSync, SyncBestEffort, TypeOK
    <3> QED
      BY <2>11, <3>1 DEF TypeOK, WorkStarted, ConfirmSync, clients, ghosts
  <2>12. CASE ConfirmFail
    BY <2>12 DEF TypeOK, WorkStarted, ConfirmFail, fs, clients, ghosts
  <2>13. CASE ConfirmReturn
    BY <2>8, <2>13 DEF TypeOK, ConfirmReturn, fs
  <2> QED
    BY <1>8, <2>2, <2>3, <2>4, <2>5, <2>6, <2>7, <2>9, <2>10, <2>11, <2>12, <2>13 DEF Operation
<1>9. ASSUME NEW p \in Procs, ProcessCrash(p)
      PROVE  TypeOK' /\ WorkStarted'
  BY <1>9 DEF TypeOK, WorkStarted, ProcessCrash, fs, ghosts
<1>10. CASE PowerLoss
  <2>1. vis' \in Directory /\ dur' \in Directory
    BY <1>10 DEF PowerLoss, Outcomes, TypeOK, Directory, Slots
  <2> QED
    BY <1>10, <2>1 DEF TypeOK, WorkStarted, PowerLoss, ghosts
<1>11. ASSUME NEW s \in Slots, Damage(s)
       PROVE  TypeOK' /\ WorkStarted'
  <2>1. PICK f \in Snapshots(vis[s]) :
           LET broken == [f EXCEPT !.ok = FALSE]
               Break(files) == IF f \in files THEN (files \ {f}) \cup {broken} ELSE files
           IN  /\ vis' = [vis EXCEPT ![s] = Break(@)]
               /\ dur' = [dur EXCEPT ![s] = Break(@)]
    BY <1>11 DEF Damage
  <2>2. f \in File /\ [f EXCEPT !.ok = FALSE] \in File
    <3>1. f \in File
      BY DEF Snapshots, TypeOK, Directory
    <3> QED
      BY <3>1 DEF File
  <2>3. vis' \in Directory
    BY <2>1, <2>2 DEF TypeOK, Directory
  <2>4. dur' \in Directory
    BY <2>1, <2>2 DEF TypeOK, Directory
  <2> QED
    BY <1>11, <2>3, <2>4 DEF TypeOK, WorkStarted, Damage, clients, ghosts
<1> QED
  BY <1>1, <1>2, <1>4, <1>5, <1>6, <1>7, <1>8, <1>9, <1>10, <1>11 DEF Next

\* Every reachable state of the store is type correct; in particular
\* commit_locked never publishes a generation beyond the largest one.
THEOREM TypeCorrect == Spec => []TypeOK
<1>1. Spec => [](TypeOK /\ WorkStarted)
  BY TypeInit, TypeNext, PTL DEF Spec
<1> QED
  BY <1>1, PTL

----------------------------------------------------------------------------
(* What the file system part of the invariant says about a reader.         *)

\* In an undamaged store a generation names one snapshot.
LEMMA OneSnapshotPerGeneration ==
    ASSUME NEW v \in Directory, NEW d \in Directory, InOrder(v, d), Chain(v, d),
           NEW f \in Recorded(v, d), NEW h \in Recorded(v, d), f.gen = h.gen
    PROVE  f = h
<1>1. f \in File /\ h \in File
  BY SnapshotsType DEF Recorded
<1>2. f.edits = h.edits
  <2>1. f.gen <= h.gen /\ h.gen <= f.gen
    BY <1>1, MaxGenAssumption DEF File
  <2>2. f.edits \subseteq h.edits /\ h.edits \subseteq f.edits
    BY <2>1 DEF Chain
  <2> QED
    BY <2>2
<1>3. f.ok = TRUE /\ h.ok = TRUE
  BY DEF InOrder, Recorded, AllSnapshots, Slots
<1>4. f.kind = "snapshot" /\ h.kind = "snapshot"
  BY DEF Recorded, AllSnapshots, Snapshots
<1> QED
  BY <1>1, <1>2, <1>3, <1>4 DEF File

\* load_locked on an undamaged store: the newest snapshot, whole.
LEMMA LoadedIsNewest ==
    ASSUME NEW v \in Directory, NEW d \in Directory, InOrder(v, d), Chain(v, d)
    PROVE  /\ LoadLocked(v).ok = TRUE
           /\ LoadLocked(v).gen = LoadLocked(v).max
           /\ AllSnapshots(v) = {} => LoadLocked(v).gen = 0 /\ LoadLocked(v).edits = {}
           /\ AllSnapshots(v) # {} => \E f \in AllSnapshots(v) :
                 /\ LoadLocked(v).gen = f.gen
                 /\ LoadLocked(v).edits = f.edits
                 /\ \A h \in AllSnapshots(v) : h.gen <= f.gen
<1>1. CASE AllSnapshots(v) = {}
  BY <1>1 DEF LoadLocked
<1>2. CASE AllSnapshots(v) # {}
  <2> DEFINE candidates == ProbeSlot(v["A"]) \cup ProbeSlot(v["B"])
             selected == {f \in Newest(candidates) : Newest(candidates) = {f}}
             chosen == CHOOSE f \in selected : TRUE
  <2>1. PICK top \in AllSnapshots(v) : top.gen = MaxSeen(v)
    BY <1>2, MaxSeenIsNewest
  <2>2. \A h \in AllSnapshots(v) : h.gen <= top.gen
    BY <2>1, MaxSeenIsNewest
  <2>3. \A h \in AllSnapshots(v) : top.gen <= h.gen => h = top
    <3> TAKE h \in AllSnapshots(v)
    <3> HAVE top.gen <= h.gen
    <3>1. h.gen = top.gen
      BY <2>2, SnapshotsType, MaxGenAssumption
    <3> QED
      BY <3>1, OneSnapshotPerGeneration DEF Recorded
  <2>4. top.ok = TRUE
    BY DEF InOrder, AllSnapshots, Slots
  <2>5. PICK s \in Slots : top \in Snapshots(v[s])
    BY DEF AllSnapshots, Slots
  <2>6. Newest(Snapshots(v[s])) = {top}
    BY <2>2, <2>3, <2>5, SnapshotsType DEF Newest
  <2>7. top \in candidates /\ candidates \subseteq AllSnapshots(v)
    BY <2>4, <2>5, <2>6 DEF ProbeSlot, Slots, AllSnapshots, Newest
  <2>8. Newest(candidates) = {top}
    BY <2>2, <2>3, <2>7 DEF Newest
  <2>9. selected = {top} /\ chosen = top
    BY <2>8
  <2>10. LoadLocked(v) = [ok |-> TRUE, gen |-> top.gen, max |-> MaxSeen(v), edits |-> top.edits]
    BY <1>2, <2>9 DEF LoadLocked
  <2> QED
    BY <1>2, <2>1, <2>2, <2>10
<1> QED
  BY <1>1, <1>2

\* Every recorded snapshot is at most as new as what a reader loads, and
\* contained in it.
LEMMA LoadedCoversRecorded ==
    ASSUME NEW v \in Directory, NEW d \in Directory,
           InOrder(v, d), Chain(v, d), VisibleIsNewest(v, d), NEW g \in Recorded(v, d)
    PROVE  g.gen <= LoadLocked(v).gen /\ g.edits \subseteq LoadLocked(v).edits
<1>1. AllSnapshots(v) # {}
  BY DEF Recorded, VisibleIsNewest
<1>2. PICK f \in AllSnapshots(v) : /\ LoadLocked(v).gen = f.gen
                                   /\ LoadLocked(v).edits = f.edits
                                   /\ \A h \in AllSnapshots(v) : h.gen <= f.gen
  BY <1>1, LoadedIsNewest
<1>3. PICK h \in AllSnapshots(v) : g.gen <= h.gen
  <2>1. CASE g \in AllSnapshots(v)
    BY <2>1, SnapshotsType
  <2>2. CASE g \in AllSnapshots(d)
    BY <2>2 DEF VisibleIsNewest
  <2> QED
    BY <2>1, <2>2 DEF Recorded
<1>4. g.gen \in Nat /\ f.gen \in Nat /\ h.gen \in Nat
  BY SnapshotsType DEF Recorded
<1>5. g.gen <= f.gen
  BY <1>2, <1>3, <1>4
<1> QED
  BY <1>2, <1>5 DEF Chain, Recorded

----------------------------------------------------------------------------
(* How steps change the two views.                                         *)

\* A step that leaves the visible snapshots alone, and leaves each durable
\* slot as it is or syncs it, preserves the file system part.
LEMMA QuietStep ==
    ASSUME NEW v \in Directory, NEW d \in Directory, NEW v2, NEW d2, NEW a,
           Filesystem(v, d, a),
           \A s \in Slots : Snapshots(v2[s]) = Snapshots(v[s]),
           \A s \in Slots : d2[s] = d[s] \/ d2[s] = v2[s]
    PROVE  /\ Filesystem(v2, d2, a)
           /\ AllSnapshots(v2) = AllSnapshots(v)
           /\ Recorded(v2, d2) \subseteq Recorded(v, d)
<1>1. AllSnapshots(v2) = AllSnapshots(v)
  BY DEF AllSnapshots, Slots
<1>2. \A s \in Slots : Snapshots(d2[s]) = Snapshots(d[s]) \/ Snapshots(d2[s]) = Snapshots(v[s])
  OBVIOUS
<1>3. Recorded(v2, d2) \subseteq Recorded(v, d)
  BY <1>2 DEF Recorded, AllSnapshots, Slots
<1>4. InOrder(v2, d2)
  BY <1>2 DEF Filesystem, InOrder
<1>5. Chain(v2, d2)
  BY <1>3 DEF Filesystem, Chain
<1>6. VisibleIsNewest(v2, d2)
  <2>1. ASSUME NEW f \in AllSnapshots(d2)
        PROVE  f \in AllSnapshots(d) \/ f \in AllSnapshots(v)
    BY <1>2 DEF AllSnapshots, Slots
  <2>2. ASSUME NEW f \in AllSnapshots(d2)
        PROVE  \E h \in AllSnapshots(v) : f.gen <= h.gen
    BY <2>1, SnapshotsType DEF Filesystem, VisibleIsNewest
  <2> QED
    BY <1>1, <2>2 DEF VisibleIsNewest
<1>7. Anchored(v2, d2, a)
  <2>1. CASE a = {}
    BY <2>1 DEF Anchored
  <2>2. CASE a # {}
    <3>s. PICK s \in Slots : \E f \in Snapshots(v[s]) : f \in d[s] /\ a \subseteq f.edits
      BY <2>2 DEF Filesystem, Anchored
    <3>1. PICK f \in Snapshots(v[s]) : f \in d[s] /\ a \subseteq f.edits
      BY <3>s
    <3>2. f \in Snapshots(v2[s]) /\ f \in d2[s]
      BY <3>1 DEF Snapshots
    <3> QED
      BY <3>1, <3>2 DEF Anchored
  <2> QED
    BY <2>1, <2>2
<1> QED
  BY <1>1, <1>3, <1>4, <1>5, <1>6, <1>7 DEF Filesystem

Readable == [kind : {"snapshot"}, gen : 1..MaxGen, edits : SUBSET Edits, ok : {TRUE}]

\* The hard link of a commit that is newer than, and contains, everything.
LEMMA PublishStep ==
    ASSUME NEW v \in Directory, NEW d \in Directory, NEW v2, NEW a, NEW f \in Readable,
           Filesystem(v, d, a),
           \A h \in Recorded(v, d) : h.gen < f.gen /\ h.edits \subseteq f.edits,
           v2[ForGeneration(f.gen)] = v[ForGeneration(f.gen)] \cup {f},
           \A s \in Slots \ {ForGeneration(f.gen)} : v2[s] = v[s]
    PROVE  /\ Filesystem(v2, d, a)
           /\ AllSnapshots(v2) = AllSnapshots(v) \cup {f}
           /\ Recorded(v2, d) = Recorded(v, d) \cup {f}
<1> DEFINE w == ForGeneration(f.gen)
<1>f. f \in File /\ f.kind = "snapshot" /\ f.ok = TRUE
  BY DEF Readable, File
<1>1. w \in Slots
  BY DEF ForGeneration, Slots
<1>2. /\ Snapshots(v2[w]) = Snapshots(v[w]) \cup {f}
      /\ \A s \in Slots : s # w => Snapshots(v2[s]) = Snapshots(v[s])
  BY <1>1, <1>f DEF Snapshots, Directory
<1> HIDE DEF w
<1>3. AllSnapshots(v2) = AllSnapshots(v) \cup {f}
  BY <1>1, <1>2 DEF AllSnapshots, Slots
<1>4. Recorded(v2, d) = Recorded(v, d) \cup {f}
  BY <1>3 DEF Recorded
<1>5. InOrder(v2, d)
  <2> SUFFICES ASSUME NEW s \in Slots, NEW h \in Snapshots(v2[s]) \cup Snapshots(d[s])
               PROVE  h.ok = TRUE /\ ForGeneration(h.gen) = s
    BY DEF InOrder
  <2>1. CASE h = f /\ s = w
    BY <2>1, <1>f DEF w
  <2>2. CASE h \in Snapshots(v[s]) \cup Snapshots(d[s])
    BY <2>2 DEF Filesystem, InOrder
  <2> QED
    BY <1>2, <2>1, <2>2
<1>6. \A h \in Recorded(v, d) : h.gen \in Nat
  BY SnapshotsType DEF Recorded
<1>7. f.gen \in Nat
  BY <1>f DEF File
<1>8. Chain(v2, d)
  BY <1>4, <1>6, <1>7 DEF Filesystem, Chain
<1>9. VisibleIsNewest(v2, d)
  BY <1>3 DEF Filesystem, VisibleIsNewest
<1>10. Anchored(v2, d, a)
  <2>1. \A s \in Slots : Snapshots(v[s]) \subseteq Snapshots(v2[s])
    BY <1>2
  <2> QED
    BY <2>1 DEF Filesystem, Anchored
<1> QED
  BY <1>3, <1>4, <1>5, <1>8, <1>9, <1>10 DEF Filesystem

\* The compaction of the slot of a published, durable, newest snapshot f may
\* acknowledge its edits, whether or not the removals are synced.
LEMMA CompactStep ==
    ASSUME NEW v \in Directory, NEW d \in Directory, NEW v2, NEW d2, NEW a, NEW f,
           NEW w \in Slots, NEW gone, Filesystem(v, d, a),
           f \in Snapshots(v[w]), f \in d[w], f \notin gone,
           \A h \in Recorded(v, d) : h.gen <= f.gen,
           v2[w] = v[w] \ gone,
           \A s \in Slots \ {w} : v2[s] = v[s],
           \A s \in Slots : d2[s] = d[s] \/ d2[s] = v2[s]
    PROVE  /\ Filesystem(v2, d2, a \cup f.edits)
           /\ AllSnapshots(v2) \subseteq AllSnapshots(v)
           /\ f \in AllSnapshots(v2)
<1>1. \A s \in Slots : Snapshots(v2[s]) \subseteq Snapshots(v[s])
  BY DEF Snapshots, Directory
<1>2. \A s \in Slots : Snapshots(d2[s]) \subseteq Snapshots(d[s]) \cup Snapshots(v[s])
  BY DEF Snapshots, Directory
<1>3. f \in Snapshots(v2[w]) /\ f \in d2[w]
  BY DEF Snapshots, Directory
<1>4. AllSnapshots(v2) \subseteq AllSnapshots(v) /\ f \in AllSnapshots(v2)
  BY <1>1, <1>3 DEF AllSnapshots, Slots
<1>5. Recorded(v2, d2) \subseteq Recorded(v, d)
  BY <1>1, <1>2 DEF Recorded, AllSnapshots, Slots
<1>6. InOrder(v2, d2)
  BY <1>1, <1>2 DEF Filesystem, InOrder
<1>7. Chain(v2, d2)
  BY <1>5 DEF Filesystem, Chain
<1>8. VisibleIsNewest(v2, d2)
  BY <1>4, <1>5 DEF VisibleIsNewest, Recorded
<1>9. a \subseteq f.edits
  <2>1. CASE a = {}
    BY <2>1
  <2>2. CASE a # {}
    <3>1. PICK h \in Recorded(v, d) : a \subseteq h.edits
      BY <2>2 DEF Filesystem, Anchored, Recorded, AllSnapshots, Slots
    <3>2. f \in Recorded(v, d)
      BY DEF Recorded, AllSnapshots, Slots
    <3> QED
      BY <3>1, <3>2 DEF Filesystem, Chain
  <2> QED
    BY <2>1, <2>2
<1>10. Anchored(v2, d2, a \cup f.edits)
  BY <1>3, <1>9 DEF Anchored
<1> QED
  BY <1>4, <1>6, <1>7, <1>8, <1>10 DEF Filesystem

\* A power loss keeps what both views share and invents nothing.
LEMMA PowerLossStep ==
    ASSUME NEW v \in Directory, NEW d \in Directory, NEW v2, NEW a, Filesystem(v, d, a),
           \A s \in Slots : v2[s] \subseteq v[s] \cup d[s] /\ v[s] \cap d[s] \subseteq v2[s]
    PROVE  Filesystem(v2, v2, a)
<1>1. \A s \in Slots : Snapshots(v2[s]) \subseteq Snapshots(v[s]) \cup Snapshots(d[s])
  BY DEF Snapshots
<1>2. Recorded(v2, v2) \subseteq Recorded(v, d)
  BY <1>1 DEF Recorded, AllSnapshots, Slots
<1>3. InOrder(v2, v2)
  BY <1>1 DEF Filesystem, InOrder
<1>4. Chain(v2, v2)
  BY <1>2 DEF Filesystem, Chain
<1>5. VisibleIsNewest(v2, v2)
  BY <1>2, SnapshotsType DEF VisibleIsNewest, Recorded
<1>6. Anchored(v2, v2, a)
  BY DEF Filesystem, Anchored, Snapshots
<1> QED
  BY <1>3, <1>4, <1>5, <1>6 DEF Filesystem

\* A token issued for a visible snapshot, or for the empty Vault, is sound.
LEMMA TokenOfSnapshot ==
    ASSUME NEW v \in Directory, NEW d \in Directory, InOrder(v, d), Chain(v, d),
           NEW t, NEW f \in AllSnapshots(v), t.gen = f.gen, t.edits = f.edits
    PROVE  TokenSound(t, v)
<1>1. f.gen \in Nat /\ f.gen >= 1
  BY SnapshotsType, MaxGenAssumption
<1>2. \A h \in AllSnapshots(v) : h.gen = t.gen => h.edits = t.edits
  BY OneSnapshotPerGeneration DEF Recorded
<1> QED
  BY <1>1, <1>2 DEF TokenSound

LEMMA TokenOfLoad ==
    ASSUME NEW v \in Directory, NEW d \in Directory, InOrder(v, d), Chain(v, d),
           NEW t, t.gen = LoadLocked(v).gen, t.edits = LoadLocked(v).edits
    PROVE  TokenSound(t, v)
<1>1. CASE AllSnapshots(v) = {}
  <2>1. t.gen = 0 /\ t.edits = {}
    BY <1>1, LoadedIsNewest
  <2> QED
    BY <1>1, <2>1 DEF TokenSound
<1>2. CASE AllSnapshots(v) # {}
  <2>1. PICK f \in AllSnapshots(v) : LoadLocked(v).gen = f.gen /\ LoadLocked(v).edits = f.edits
    BY <1>2, LoadedIsNewest
  <2>2. t.gen = f.gen /\ t.edits = f.edits
    BY <2>1
  <2> QED
    BY <2>2, TokenOfSnapshot
<1> QED
  BY <1>1, <1>2

\* verify_inventory_revision: a sound token of the loaded generation was
\* issued for the loaded graph.
LEMMA SoundTokenIsCurrent ==
    ASSUME NEW v \in Directory, NEW d \in Directory, InOrder(v, d), Chain(v, d),
           NEW t, TokenSound(t, v), t.gen = LoadLocked(v).gen
    PROVE  t.edits = LoadLocked(v).edits
<1>1. CASE AllSnapshots(v) = {}
  BY <1>1, LoadedIsNewest DEF TokenSound
<1>2. CASE AllSnapshots(v) # {}
  BY <1>2, LoadedIsNewest DEF TokenSound
<1> QED
  BY <1>1, <1>2

----------------------------------------------------------------------------
(* The inductive invariant.                                                *)

LEMMA InvInit == Init => Inv
<1> SUFFICES ASSUME Init PROVE Sound
  BY DEF Inv
<1>1. AllSnapshots(vis) = {} /\ AllSnapshots(dur) = {}
  BY DEF Init, AllSnapshots, Snapshots, Slots
<1>2. Filesystem(vis, dur, acked)
  BY <1>1 DEF Init, Filesystem, InOrder, Chain, VisibleIsNewest, Anchored, Recorded, Snapshots, Slots
<1>3. Tokens
  BY <1>1 DEF Init, Tokens, TokenSound, NoToken
<1> QED
  BY <1>2, <1>3 DEF Init, Sound, BeforePublication, AfterPublication, Confirming

\* Steps that leave the visible snapshots, the tokens and the keys alone.
LEMMA QuietTokens ==
    ASSUME Tokens, UNCHANGED clients, AllSnapshots(vis') = AllSnapshots(vis)
    PROVE  Tokens'
BY DEF Tokens, TokenSound, clients

\* What the hypotheses of the inductive step say about the current load.
LEMMA LoadedFacts ==
    ASSUME TypeOK, Sound
    PROVE  /\ Loaded.ok = TRUE
           /\ Loaded.gen = Loaded.max
           /\ \A g \in Recorded(vis, dur) :
                 g.gen <= Loaded.gen /\ g.edits \subseteq Loaded.edits
<1>1. vis \in Directory /\ dur \in Directory
  BY DEF TypeOK
<1>2. InOrder(vis, dur) /\ Chain(vis, dur) /\ VisibleIsNewest(vis, dur)
  BY DEF Sound, Filesystem
<1> QED
  BY <1>1, <1>2, LoadedIsNewest, LoadedCoversRecorded DEF Loaded

\* A read hands out a sound token.
LEMMA InvRead ==
    ASSUME TypeOK, Sound, NEW p \in Procs, Read(p)
    PROVE  Sound'
<1>1. vis' = vis /\ dur' = dur /\ key' = key /\ pc' = pc /\ work' = work /\ acked' = acked
  BY DEF Read, fs, ghosts
<1>2. TokenSound(InventoryRevision(p, Loaded), vis)
  BY TokenOfLoad DEF TypeOK, Sound, Filesystem, InventoryRevision, Loaded
<1>3. Tokens'
  <2> SUFFICES ASSUME NEW q \in Procs
               PROVE  /\ token'[q].seal <= key[q]
                      /\ token'[q].seal = key[q] => TokenSound(token'[q], vis)
    BY <1>1 DEF Tokens
  <2>1. CASE q = p
    <3>1. token'[q] = InventoryRevision(p, Loaded)
      BY <2>1 DEF Read, TypeOK
    <3>2. token'[q].seal = key[q] /\ key[q] \in Nat
      BY <2>1, <3>1 DEF InventoryRevision, TypeOK
    <3> QED
      BY <1>2, <3>1, <3>2
  <2>2. CASE q # p
    BY <2>2 DEF Read, TypeOK, Sound, Tokens
  <2> QED
    BY <2>1, <2>2
<1> QED
  BY <1>1, <1>3 DEF Sound, BeforePublication, AfterPublication, Confirming, FinalEntry, WorkSlot

\* A commit that starts from the loaded graph contains everything recorded.
LEMMA InvStart ==
    ASSUME TypeOK, Sound, NEW p \in Procs, NEW e \in Edits, StartCommit(p, e, Loaded.edits)
    PROVE  Sound'
<1>1. vis' = vis /\ dur' = dur /\ token' = token /\ key' = key /\ acked' = acked /\ pc' = "create"
  BY DEF StartCommit, fs, clients
<1>2. work'.gen = Loaded.gen + 1 /\ work'.edits = Loaded.edits \cup {e}
  BY LoadedFacts DEF StartCommit
<1>3. Loaded.gen \in Nat
  BY LoadType DEF TypeOK, Loaded, LoadResult
<1>4. \A g \in Recorded(vis, dur) : g.gen \in Nat
  BY SnapshotsType DEF TypeOK, Recorded
<1>5. BeforePublication'
  BY <1>1, <1>2, <1>3, <1>4, LoadedFacts DEF BeforePublication
<1>6. Tokens'
  BY <1>1 DEF Sound, Tokens
<1> QED
  BY <1>1, <1>5, <1>6 DEF Sound, AfterPublication, Confirming

\* The compare-and-swap: an accepted token carries the loaded graph.
LEMMA AcceptedToken ==
    ASSUME TypeOK, Sound, NEW p \in Procs, Verified(p, token[p], Loaded)
    PROVE  token[p].edits = Loaded.edits
<1>1. TokenSound(token[p], vis) /\ token[p].gen = Loaded.gen
  BY DEF Verified, Sound, Tokens
<1> QED
  BY <1>1, SoundTokenIsCurrent DEF TypeOK, Sound, Filesystem, Loaded

\* Steps on temporary files leave the snapshots of both slots alone.
LEMMA TemporaryNames ==
  ASSUME TypeOK, CreateTemp \/ SyncTemp \/ PrePublicationFailure \/ RemoveTemp
  PROVE  \A s \in Slots : Snapshots(vis'[s]) = Snapshots(vis[s])
<1> DEFINE t == TempEntry(TRUE)
           f == TempEntry(FALSE)
           old == vis[WorkSlot]
<1>1. \/ vis' = vis
      \/ vis' = [vis EXCEPT ![WorkSlot] = old \cup {f}]
      \/ vis' = [vis EXCEPT ![WorkSlot] = (old \ {f}) \cup {t}]
      \/ vis' = [vis EXCEPT ![WorkSlot] = old \ {f, t}]
      \/ vis' = [vis EXCEPT ![WorkSlot] = old \ {t}]
  <2>1. CASE CreateTemp
    BY <2>1 DEF CreateTemp
  <2>2. CASE SyncTemp
    BY <2>2 DEF SyncTemp
  <2>3. CASE PrePublicationFailure
    BY <2>3 DEF PrePublicationFailure
  <2>4. CASE RemoveTemp
    BY <2>4 DEF RemoveTemp
  <2> QED
    BY <2>1, <2>2, <2>3, <2>4
<1>2. t.kind = "temp" /\ f.kind = "temp"
  BY DEF TempEntry
<1>3. DOMAIN vis = Slots
  BY DEF TypeOK, Directory
<1> HIDE DEF t, f
<1>4. /\ Snapshots(old \cup {f}) = Snapshots(old)
      /\ Snapshots((old \ {f}) \cup {t}) = Snapshots(old)
      /\ Snapshots(old \ {f, t}) = Snapshots(old)
      /\ Snapshots(old \ {t}) = Snapshots(old)
  BY <1>2 DEF Snapshots
<1>5. \/ vis' = vis
      \/ \E S : vis' = [vis EXCEPT ![WorkSlot] = S] /\ Snapshots(S) = Snapshots(old)
  BY <1>1, <1>4
<1> QED
  BY <1>3, <1>5

\* The steps before the hard link touch temporary names only.
LEMMA InvTemporary ==
    ASSUME TypeOK, WorkStarted, Sound, CreateTemp \/ SyncTemp \/ PrePublicationFailure
    PROVE  Sound'
<1>1. WorkSlot \in Slots
  BY DEF WorkSlot, ForGeneration, Slots
<1>2. dur' = dur /\ UNCHANGED clients /\ work' = work /\ acked' = acked
  BY DEF CreateTemp, SyncTemp, PrePublicationFailure, ReturnError, ghosts
<1>3. \A s \in Slots : Snapshots(vis'[s]) = Snapshots(vis[s])
  BY TemporaryNames
<1>4. Filesystem(vis', dur', acked') /\ AllSnapshots(vis') = AllSnapshots(vis)
         /\ Recorded(vis', dur') \subseteq Recorded(vis, dur)
  BY <1>2, <1>3, QuietStep DEF TypeOK, Sound
<1>5. Tokens'
  BY <1>2, <1>4, QuietTokens DEF Sound
<1>6. pc \in {"create", "write", "link"} /\ pc' \in {"write", "link", "idle"}
  BY DEF CreateTemp, SyncTemp, PrePublicationFailure, ReturnError
<1>7. BeforePublication'
  BY <1>2, <1>4, <1>6 DEF Sound, BeforePublication
<1> QED
  BY <1>4, <1>5, <1>6, <1>7 DEF Sound, AfterPublication, Confirming

LEMMA InvPublish ==
    ASSUME TypeOK, WorkStarted, Sound, Publish
    PROVE  Sound'
<1>1. /\ dur' = dur /\ UNCHANGED clients /\ work' = work /\ acked' = acked /\ pc' = "sync"
      /\ vis'[ForGeneration(FinalEntry.gen)] = vis[ForGeneration(FinalEntry.gen)] \cup {FinalEntry}
      /\ \A s \in Slots \ {ForGeneration(FinalEntry.gen)} : vis'[s] = vis[s]
  <2>1. ForGeneration(FinalEntry.gen) = WorkSlot /\ WorkSlot \in Slots
    BY DEF WorkSlot, ForGeneration, Slots, FinalEntry
  <2> QED
    BY <2>1 DEF Publish, ghosts, TypeOK, Directory
<1>2. FinalEntry \in Readable
  BY MaxGenAssumption DEF Publish, WorkStarted, FinalEntry, Readable, TypeOK
<1>3. \A h \in Recorded(vis, dur) : h.gen < FinalEntry.gen /\ h.edits \subseteq FinalEntry.edits
  BY DEF Publish, Sound, BeforePublication, FinalEntry
<1>4. /\ Filesystem(vis', dur, acked)
      /\ AllSnapshots(vis') = AllSnapshots(vis) \cup {FinalEntry}
      /\ Recorded(vis', dur) = Recorded(vis, dur) \cup {FinalEntry}
  <2>1. vis \in Directory /\ dur \in Directory /\ Filesystem(vis, dur, acked)
    BY DEF TypeOK, Sound
  <2> HIDE DEF FinalEntry
  <2> QED
    BY <1>1, <1>2, <1>3, <2>1, PublishStep
<1>5. AfterPublication'
  <2>1. FinalEntry' = FinalEntry /\ WorkSlot' = WorkSlot /\ WorkSlot \in Slots
    BY <1>1 DEF FinalEntry, WorkSlot, ForGeneration, Slots
  <2>2. FinalEntry \in vis'[WorkSlot]
    BY <2>1 DEF Publish, TypeOK, Directory
  <2>3. \A f \in Recorded(vis', dur) : f.gen <= work.gen
    <3>1. \A f \in Recorded(vis, dur) : f.gen \in Nat
      BY SnapshotsType DEF TypeOK, Recorded
    <3>2. FinalEntry.gen = work.gen /\ work.gen \in Nat
      BY DEF FinalEntry, TypeOK
    <3> QED
      BY <1>3, <1>4, <3>1, <3>2
  <2> QED
    BY <1>1, <2>1, <2>2, <2>3 DEF AfterPublication
<1>6. Tokens'
  <2> SUFFICES ASSUME NEW p \in Procs
               PROVE  /\ token[p].seal <= key[p]
                      /\ token[p].seal = key[p] => TokenSound(token[p], vis')
    BY <1>1 DEF Tokens, clients
  <2>1. ASSUME TokenSound(token[p], vis)
        PROVE  TokenSound(token[p], vis')
    <3>1. token[p].gen \in Nat /\ work.gen \in Nat /\ work.gen >= 1
      BY DEF TypeOK, Token, Publish, WorkStarted
    <3>2. \A h \in AllSnapshots(vis) : h.gen \in Nat /\ h.gen < work.gen
      BY <1>3, SnapshotsType DEF TypeOK, Recorded, FinalEntry
    <3>3. token[p].gen < work.gen
      BY <2>1, <3>1, <3>2 DEF TokenSound
    <3>4. FinalEntry.gen = work.gen
      BY DEF FinalEntry
    <3> QED
      BY <1>4, <2>1, <3>1, <3>3, <3>4 DEF TokenSound
  <2> QED
    BY <2>1 DEF Sound, Tokens
<1> QED
  BY <1>1, <1>4, <1>5, <1>6 DEF Sound, BeforePublication, Confirming

\* The directory syncs of a commit, and the removal of its temporary name.
LEMMA InvSync ==
    ASSUME ~SyncTolerated, TypeOK, TypeOK', Sound, SyncPublication \/ RemoveTemp
    PROVE  Sound'
<1>1. WorkSlot \in Slots
  BY DEF WorkSlot, ForGeneration, Slots
<1>2. UNCHANGED clients /\ work' = work /\ acked' = acked
  BY DEF SyncPublication, RemoveTemp, ghosts
<1>3. \A s \in Slots : Snapshots(vis'[s]) = Snapshots(vis[s])
  <2>1. TempEntry(TRUE).kind = "temp"
    BY DEF TempEntry
  <2>2. \A s \in Slots : \A f : f.kind = "snapshot" => (f \in vis'[s] <=> f \in vis[s])
    <3>1. CASE vis' = vis
      BY <3>1
    <3>2. CASE vis' = [vis EXCEPT ![WorkSlot] = @ \ {TempEntry(TRUE)}]
      BY <1>1, <2>1, <3>2 DEF TypeOK, Directory
    <3> QED
      BY <3>1, <3>2 DEF SyncPublication, RemoveTemp
  <2> QED
    BY <2>2 DEF Snapshots
<1>4. dur' = dur \/ dur' = [dur EXCEPT ![WorkSlot] = vis'[WorkSlot]]
  BY DEF SyncPublication, RemoveTemp, SyncBestEffort, SyncOk
<1>5. \A s \in Slots : dur'[s] = dur[s] \/ dur'[s] = vis'[s]
  BY <1>4 DEF TypeOK, Directory
<1>6. Filesystem(vis', dur', acked') /\ AllSnapshots(vis') = AllSnapshots(vis)
         /\ Recorded(vis', dur') \subseteq Recorded(vis, dur)
  BY <1>2, <1>3, <1>5, QuietStep DEF TypeOK, Sound
<1>7. Tokens'
  BY <1>2, <1>6, QuietTokens DEF Sound
<1>8. AfterPublication'
  <2>1. FinalEntry' = FinalEntry /\ WorkSlot' = WorkSlot
    BY <1>2 DEF FinalEntry, WorkSlot
  <2>2. FinalEntry \in vis[WorkSlot] /\ FinalEntry \in Snapshots(vis[WorkSlot])
    BY DEF Sound, AfterPublication, SyncPublication, RemoveTemp, FinalEntry, Snapshots
  <2>3. FinalEntry \in vis'[WorkSlot]
    BY <1>1, <1>3, <2>2 DEF Snapshots
  <2>4. ASSUME pc' \in {"durable", "compact"}
        PROVE  FinalEntry \in dur'[WorkSlot]
    <3>1. CASE SyncPublication
      <4>1. dur' = [dur EXCEPT ![WorkSlot] = vis'[WorkSlot]]
        BY <2>4, <3>1 DEF SyncPublication, SyncOk
      <4> QED
        BY <1>1, <2>3, <4>1 DEF TypeOK, Directory
    <3>2. CASE RemoveTemp
      <4>1. FinalEntry \in dur[WorkSlot]
        BY <2>4, <3>2 DEF RemoveTemp, Sound, AfterPublication
      <4> QED
        BY <1>1, <1>5, <2>3, <4>1
    <3> QED
      BY <3>1, <3>2
  <2>5. \A f \in Recorded(vis', dur') : f.gen <= work.gen
    BY <1>6 DEF Sound, AfterPublication, SyncPublication, RemoveTemp
  <2> QED
    BY <1>2, <2>1, <2>3, <2>4, <2>5 DEF AfterPublication
<1> QED
  BY <1>6, <1>7, <1>8 DEF Sound, BeforePublication, Confirming, SyncPublication, RemoveTemp

\* The token a finished operation returns for a visible snapshot is sound, and
\* every other token stays so, if the newest snapshot is still there.
LEMMA ReturnedTokens ==
    ASSUME TypeOK, TypeOK', Sound, ReturnRevision, Filesystem(vis', dur', acked'),
           TokenSound(InventoryRevision(holder, Committed), vis'),
           AllSnapshots(vis') \subseteq AllSnapshots(vis),
           \A h \in AllSnapshots(vis) : \E g \in AllSnapshots(vis') : h.gen <= g.gen
    PROVE  Tokens'
<1>1. key' = key /\ token' = [token EXCEPT ![holder] = InventoryRevision(holder, Committed)]
  BY DEF ReturnRevision
<1> SUFFICES ASSUME NEW p \in Procs
             PROVE  /\ token'[p].seal <= key[p]
                    /\ token'[p].seal = key[p] => TokenSound(token'[p], vis')
  BY <1>1 DEF Tokens
<1>2. CASE p = holder
  <2>1. token'[p] = InventoryRevision(holder, Committed)
    BY <1>1, <1>2 DEF TypeOK
  <2>2. token'[p].seal = key[p] /\ key[p] \in Nat
    BY <1>2, <2>1 DEF InventoryRevision, TypeOK
  <2> QED
    BY <2>1, <2>2
<1>3. CASE p # holder
  <2>1. token'[p] = token[p]
    BY <1>1, <1>3 DEF TypeOK
  <2>2. ASSUME TokenSound(token[p], vis)
        PROVE  TokenSound(token[p], vis')
    <3>1. ASSUME token[p].gen > 0
          PROVE  \E g \in AllSnapshots(vis') : token[p].gen <= g.gen
      <4>1. PICK h \in AllSnapshots(vis) : token[p].gen <= h.gen
        BY <2>2, <3>1 DEF TokenSound
      <4>2. PICK g \in AllSnapshots(vis') : h.gen <= g.gen
        OBVIOUS
      <4>3. token[p].gen \in Nat /\ h.gen \in Nat /\ g.gen \in Nat
        BY SnapshotsType DEF TypeOK, Token
      <4> QED
        BY <4>1, <4>2, <4>3
    <3> QED
      BY <2>2, <3>1 DEF TokenSound
  <2> QED
    BY <2>1, <2>2 DEF Sound, Tokens
<1> QED
  BY <1>2, <1>3

\* Once an operation has returned, only the file system and the tokens matter.
LEMMA SoundAtRest ==
    ASSUME pc' = "idle", Filesystem(vis', dur', acked'), Tokens'
    PROVE  Sound'
BY DEF Sound, BeforePublication, AfterPublication, Confirming

LEMMA InvReturnDurable ==
    ASSUME ~SyncTolerated, TypeOK, TypeOK', Sound, ReturnDurable
    PROVE  Sound'
<1>1. WorkSlot \in Slots
  BY DEF WorkSlot, ForGeneration, Slots
<1>2. PICK gone \in SUBSET Compactable(vis[WorkSlot], work.gen) :
         /\ vis' = [vis EXCEPT ![WorkSlot] = @ \ gone]
         /\ dur' = dur \/ dur' = [dur EXCEPT ![WorkSlot] = vis'[WorkSlot]]
  BY DEF ReturnDurable, SyncBestEffort, SyncOk
<1>v. /\ vis'[WorkSlot] = vis[WorkSlot] \ gone
      /\ \A s \in Slots \ {WorkSlot} : vis'[s] = vis[s]
      /\ \A s \in Slots : dur'[s] = dur[s] \/ dur'[s] = vis'[s]
  BY <1>1, <1>2 DEF TypeOK, Directory
<1>3. /\ FinalEntry \in Snapshots(vis[WorkSlot]) /\ FinalEntry \in dur[WorkSlot]
      /\ \A h \in Recorded(vis, dur) : h.gen <= FinalEntry.gen
  BY DEF Sound, AfterPublication, ReturnDurable, FinalEntry, Snapshots
<1>4. FinalEntry \notin gone
  BY <1>2 DEF Compactable, FinalEntry, TypeOK
<1>5. acked' = acked \cup FinalEntry.edits /\ pc' = "idle" /\ ReturnRevision
  BY DEF ReturnDurable, FinalEntry, ReturnRevision
<1>6. vis \in Directory /\ dur \in Directory /\ Filesystem(vis, dur, acked)
  BY DEF TypeOK, Sound
<1>7. /\ Filesystem(vis', dur', acked')
      /\ AllSnapshots(vis') \subseteq AllSnapshots(vis)
      /\ FinalEntry \in AllSnapshots(vis')
  <2> HIDE DEF FinalEntry, WorkSlot
  <2> QED
    BY <1>1, <1>v, <1>3, <1>4, <1>5, <1>6, CompactStep
<1>8. TokenSound(InventoryRevision(holder, Committed), vis')
  <2>1. vis' \in Directory /\ dur' \in Directory /\ InOrder(vis', dur') /\ Chain(vis', dur')
    BY <1>7 DEF TypeOK, Filesystem
  <2>2. /\ InventoryRevision(holder, Committed).gen = FinalEntry.gen
        /\ InventoryRevision(holder, Committed).edits = FinalEntry.edits
    BY DEF InventoryRevision, Committed, FinalEntry
  <2> HIDE DEF FinalEntry
  <2> QED
    BY <1>7, <2>1, <2>2, TokenOfSnapshot
<1>9. \A h \in AllSnapshots(vis) : \E g \in AllSnapshots(vis') : h.gen <= g.gen
  BY <1>3, <1>7 DEF Recorded
<1>10. Tokens'
  BY <1>5, <1>7, <1>8, <1>9, ReturnedTokens
<1> QED
  BY <1>5, <1>7, <1>10, SoundAtRest

LEMMA InvReturnUncertain ==
    ASSUME TypeOK, TypeOK', Sound, ReturnUncertain
    PROVE  Sound'
<1>1. vis' = vis /\ dur' = dur /\ acked' = acked /\ pc' = "idle" /\ ReturnRevision
  BY DEF ReturnUncertain, ReturnRevision, fs
<1>2. vis \in Directory /\ dur \in Directory /\ Filesystem(vis, dur, acked)
  BY DEF TypeOK, Sound
<1>3. FinalEntry \in AllSnapshots(vis)
  BY DEF Sound, AfterPublication, ReturnUncertain, FinalEntry, AllSnapshots, Snapshots,
         WorkSlot, ForGeneration
<1>4. TokenSound(InventoryRevision(holder, Committed), vis)
  <2>1. InOrder(vis, dur) /\ Chain(vis, dur)
    BY <1>2 DEF Filesystem
  <2>2. /\ InventoryRevision(holder, Committed).gen = FinalEntry.gen
        /\ InventoryRevision(holder, Committed).edits = FinalEntry.edits
    BY DEF InventoryRevision, Committed, FinalEntry
  <2> HIDE DEF FinalEntry
  <2> QED
    BY <1>2, <1>3, <2>1, <2>2, TokenOfSnapshot
<1>5. \A h \in AllSnapshots(vis) : h.gen <= h.gen
  BY <1>2, SnapshotsType
<1>6. Tokens'
  BY <1>1, <1>2, <1>4, <1>5, ReturnedTokens
<1> QED
  BY <1>1, <1>2, <1>6, SoundAtRest

LEMMA InvConfirmSync ==
    ASSUME ~SyncTolerated, TypeOK, TypeOK', Sound, ConfirmSync
    PROVE  Sound'
<1>1. WorkSlot \in Slots /\ Other(WorkSlot) \in Slots /\ Other(WorkSlot) # WorkSlot
  BY DEF WorkSlot, ForGeneration, Other, Slots
<1>2. vis' = vis /\ UNCHANGED clients /\ work' = work /\ acked' = acked
  BY DEF ConfirmSync, ghosts
<1>3. \/ pc' = "confirmCompeting" /\ dur' = [dur EXCEPT ![WorkSlot] = vis[WorkSlot]]
      \/ /\ pc = "confirmCompeting" /\ pc' = "confirmReload"
         /\ dur' = [dur EXCEPT ![Other(WorkSlot)] = vis[Other(WorkSlot)]]
  BY <1>2 DEF ConfirmSync, SyncOk
<1>4. \A s \in Slots : dur'[s] = dur[s] \/ dur'[s] = vis'[s]
  BY <1>2, <1>3 DEF TypeOK, Directory
<1>5. Filesystem(vis', dur', acked') /\ AllSnapshots(vis') = AllSnapshots(vis)
  BY <1>2, <1>4, QuietStep DEF TypeOK, Sound
<1>6. Tokens'
  BY <1>2, <1>5, QuietTokens DEF Sound
<1>7. dur'[WorkSlot] = vis'[WorkSlot] /\ WorkSlot' = WorkSlot
  BY <1>1, <1>2, <1>3 DEF TypeOK, Directory, Sound, Confirming, WorkSlot
<1> QED
  BY <1>3, <1>5, <1>6, <1>7 DEF Sound, BeforePublication, AfterPublication, Confirming

LEMMA InvConfirmReturn ==
    ASSUME TypeOK, TypeOK', Sound, ConfirmReturn
    PROVE  Sound'
<1>1. /\ vis' = vis /\ dur' = dur /\ pc' = "idle" /\ ReturnRevision
      /\ acked' = acked \cup work.edits /\ Loaded = Committed
      /\ dur[WorkSlot] = vis[WorkSlot]
  BY DEF ConfirmReturn, ReturnRevision, fs, Sound, Confirming
<1>2. /\ vis \in Directory /\ dur \in Directory
      /\ InOrder(vis, dur) /\ Chain(vis, dur) /\ VisibleIsNewest(vis, dur)
  BY DEF TypeOK, Sound, Filesystem
<1>3. Loaded.gen = work.gen /\ Loaded.edits = work.edits
  BY <1>1 DEF Committed
<1>4. Anchored(vis, dur, acked \cup work.edits)
  <2>1. CASE AllSnapshots(vis) = {}
    <3>1. work.edits = {}
      BY <1>2, <1>3, <2>1, LoadedIsNewest DEF Loaded
    <3> QED
      BY <3>1 DEF Sound, Filesystem, Anchored
  <2>2. CASE AllSnapshots(vis) # {}
    <3>1. PICK f \in AllSnapshots(vis) : f.gen = work.gen /\ f.edits = work.edits
      BY <1>2, <1>3, <2>2, LoadedIsNewest DEF Loaded
    <3>2. f \in Snapshots(vis[WorkSlot]) /\ WorkSlot \in Slots
      BY <1>2, <3>1 DEF AllSnapshots, InOrder, WorkSlot, Slots
    <3>3. f \in dur[WorkSlot]
      BY <1>1, <3>2 DEF Snapshots
    <3>4. acked \subseteq f.edits
      <4>1. CASE acked = {}
        BY <4>1
      <4>2. CASE acked # {}
        <5>1. PICK g \in Recorded(vis, dur) : acked \subseteq g.edits
          BY <4>2 DEF Sound, Filesystem, Anchored, Recorded, AllSnapshots, Slots
        <5> QED
          BY <1>3, <3>1, <5>1, LoadedFacts
      <4> QED
        BY <4>1, <4>2
    <3> QED
      BY <3>1, <3>2, <3>3, <3>4 DEF Anchored
  <2> QED
    BY <2>1, <2>2
<1>5. TokenSound(InventoryRevision(holder, Committed), vis)
  <2>1. /\ InventoryRevision(holder, Committed).gen = LoadLocked(vis).gen
        /\ InventoryRevision(holder, Committed).edits = LoadLocked(vis).edits
    BY <1>1 DEF InventoryRevision, Committed, Loaded
  <2> QED
    BY <1>2, <2>1, TokenOfLoad
<1>6. Filesystem(vis', dur', acked')
  BY <1>1, <1>2, <1>4 DEF Filesystem
<1>7. \A h \in AllSnapshots(vis) : h.gen <= h.gen
  BY <1>2, SnapshotsType
<1>8. Tokens'
  BY <1>1, <1>5, <1>6, <1>7, ReturnedTokens
<1> QED
  BY <1>1, <1>6, <1>8, SoundAtRest

LEMMA InvProcessCrash ==
    ASSUME TypeOK, Sound, NEW p \in Procs, ProcessCrash(p)
    PROVE  Sound'
<1>1. vis' = vis /\ dur' = dur /\ token' = token /\ work' = work /\ acked' = acked
         /\ pc' \in {"idle", pc}
  BY DEF ProcessCrash, fs, ghosts
<1>2. Tokens'
  <2> SUFFICES ASSUME NEW q \in Procs
               PROVE  /\ token[q].seal <= key'[q]
                      /\ token[q].seal = key'[q] => TokenSound(token[q], vis)
    BY <1>1 DEF Tokens
  <2>1. token[q].seal \in Nat /\ key[q] \in Nat /\ token[q].seal <= key[q]
    BY DEF TypeOK, Token, Sound, Tokens
  <2>2. CASE q = p
    BY <2>1, <2>2 DEF ProcessCrash, TypeOK
  <2>3. CASE q # p
    BY <2>3 DEF ProcessCrash, TypeOK, Sound, Tokens
  <2> QED
    BY <2>2, <2>3
<1> QED
  BY <1>1, <1>2 DEF Sound, BeforePublication, AfterPublication, Confirming, FinalEntry, WorkSlot

LEMMA InvPowerLoss ==
    ASSUME TypeOK, Sound, PowerLoss
    PROVE  Sound'
<1>1. \A s \in Slots : vis'[s] \subseteq vis[s] \cup dur[s] /\ vis[s] \cap dur[s] \subseteq vis'[s]
  BY DEF PowerLoss, Outcomes, Slots
<1>2. dur' = vis' /\ token' = token /\ acked' = acked /\ pc' = "idle"
  BY DEF PowerLoss, ghosts
<1>3. Filesystem(vis', dur', acked')
  <2>1. vis \in Directory /\ dur \in Directory /\ Filesystem(vis, dur, acked)
    BY DEF TypeOK, Sound
  <2>2. Filesystem(vis', vis', acked)
    BY <1>1, <2>1, PowerLossStep
  <2> QED
    BY <1>2, <2>2
<1>4. Tokens'
  <2> SUFFICES ASSUME NEW q \in Procs
               PROVE  token[q].seal <= key'[q] /\ token[q].seal # key'[q]
    BY <1>2 DEF Tokens
  <2>1. token[q].seal \in Nat /\ key[q] \in Nat /\ token[q].seal <= key[q]
    BY DEF TypeOK, Token, Sound, Tokens
  <2>2. key'[q] = key[q] + 1
    BY DEF PowerLoss
  <2> QED
    BY <2>1, <2>2
<1> QED
  BY <1>2, <1>3, <1>4, SoundAtRest

\* The induction step, one case per action.
LEMMA InvNext ==
    ASSUME ~SyncTolerated
    PROVE  TypeOK /\ TypeOK' /\ WorkStarted /\ Inv /\ [Next]_vars => Inv'
<1> SUFFICES ASSUME TypeOK, TypeOK', WorkStarted, Inv, [Next]_vars, faults'.damage = 0
             PROVE  Sound'
  BY DEF Inv
<1>1. faults' = faults \/ (faults'.damage = faults.damage) \/ \E s \in Slots : Damage(s)
  BY DEF Next, vars, Operation, Read, CommitReplacement, RejectStale, CommitDirect, StartCommit,
         ConfirmBegin, CreateTemp, SyncTemp, PrePublicationFailure, ReturnError, Publish,
         SyncPublication, RemoveTemp, ReturnDurable, ReturnUncertain, ReturnRevision,
         ConfirmSync, ConfirmFail, ConfirmReturn, ProcessCrash, PowerLoss, TypeOK
<1>2. ASSUME NEW s \in Slots, Damage(s)
      PROVE  FALSE
  BY <1>2 DEF Damage, TypeOK
<1>3. Sound
  BY <1>1, <1>2 DEF Inv
<1>4. CASE UNCHANGED vars
  BY <1>3, <1>4 DEF vars, Sound, BeforePublication, AfterPublication, Confirming, Tokens,
                    FinalEntry, WorkSlot
<1>5. ASSUME NEW p \in Procs, Read(p)
      PROVE  Sound'
  BY <1>3, <1>5, InvRead
<1>6. ASSUME NEW p \in Procs, NEW e \in Edits, CommitReplacement(p, e)
      PROVE  Sound'
  <2>1. token[p].edits = Loaded.edits
    BY <1>3, <1>6, AcceptedToken DEF CommitReplacement
  <2> QED
    BY <1>3, <1>6, <2>1, InvStart DEF CommitReplacement
<1>7. ASSUME NEW p \in Procs, RejectStale(p)
      PROVE  Sound'
  <2>1. vis' = vis /\ dur' = dur /\ key' = key /\ pc' = "idle" /\ work' = work /\ acked' = acked
           /\ token' = [token EXCEPT ![p] = NoToken]
    BY <1>7 DEF RejectStale, fs, ghosts
  <2>2. \A f \in AllSnapshots(vis) : f.gen # 0
    BY SnapshotsType, MaxGenAssumption DEF TypeOK
  <2>3. TokenSound(NoToken, vis) /\ NoToken.seal = 0
    BY <2>2 DEF TokenSound, NoToken
  <2>4. Tokens'
    <3> SUFFICES ASSUME NEW q \in Procs
                 PROVE  /\ token'[q].seal <= key[q]
                        /\ token'[q].seal = key[q] => TokenSound(token'[q], vis)
      BY <2>1 DEF Tokens
    <3>1. CASE q = p
      <4>1. token'[q] = NoToken /\ key[q] \in Nat
        BY <2>1, <3>1 DEF TypeOK
      <4> QED
        BY <2>3, <4>1
    <3>2. CASE q # p
      BY <1>3, <2>1, <3>2 DEF TypeOK, Sound, Tokens
    <3> QED
      BY <3>1, <3>2
  <2>5. Filesystem(vis', dur', acked')
    BY <1>3, <2>1 DEF Sound
  <2> QED
    BY <2>1, <2>4, <2>5, SoundAtRest
<1>8. ASSUME NEW p \in Procs, NEW e \in Edits, CommitDirect(p, e)
      PROVE  Sound'
  BY <1>3, <1>8, InvStart DEF CommitDirect
<1>9. ASSUME NEW p \in Procs, ConfirmBegin(p)
      PROVE  Sound'
  BY <1>3, <1>9 DEF ConfirmBegin, fs, clients, ghosts, Sound, BeforePublication,
                    AfterPublication, Confirming, Tokens
<1>10. CASE Operation
  <2>1. CASE CreateTemp \/ SyncTemp \/ PrePublicationFailure
    BY <1>3, <2>1, InvTemporary
  <2>2. CASE Publish
    BY <1>3, <2>2, InvPublish
  <2>3. CASE SyncPublication \/ RemoveTemp
    BY <1>3, <2>3, InvSync
  <2>4. CASE ReturnDurable
    BY <1>3, <2>4, InvReturnDurable
  <2>5. CASE ReturnUncertain
    BY <1>3, <2>5, InvReturnUncertain
  <2>6. CASE ConfirmSync
    BY <1>3, <2>6, InvConfirmSync
  <2>7. CASE ConfirmFail
    BY <1>3, <2>7 DEF ConfirmFail, fs, clients, ghosts, Sound, BeforePublication,
                      AfterPublication, Confirming, Tokens
  <2>8. CASE ConfirmReturn
    BY <1>3, <2>8, InvConfirmReturn
  <2> QED
    BY <1>10, <2>1, <2>2, <2>3, <2>4, <2>5, <2>6, <2>7, <2>8 DEF Operation
<1>11. ASSUME NEW p \in Procs, ProcessCrash(p)
       PROVE  Sound'
  BY <1>3, <1>11, InvProcessCrash
<1>12. CASE PowerLoss
  BY <1>3, <1>12, InvPowerLoss
<1> QED
  BY <1>2, <1>4, <1>5, <1>6, <1>7, <1>8, <1>9, <1>10, <1>11, <1>12 DEF Next

\* The invariant holds in every reachable state if a sync that reports success
\* has synced.
THEOREM InvHolds ==
    ASSUME ~SyncTolerated
    PROVE  Spec => []Inv
<1>1. TypeOK /\ TypeOK' /\ WorkStarted /\ Inv /\ [Next]_vars => Inv'
  BY InvNext
<1> QED
  BY <1>1, TypeInit, TypeNext, InvInit, PTL DEF Spec

\* Acknowledged edits are never lost: whatever commits, compactions, crashes
\* and power losses follow, load_locked returns a graph that contains every
\* edit for which commit_locked or confirm_current_snapshot_durability
\* reported durability.
THEOREM AckedEditsSurvive ==
    ASSUME ~SyncTolerated
    PROVE  Spec => []NoAckedEditLost
<1>1. TypeOK /\ Inv => NoAckedEditLost
  <2> SUFFICES ASSUME TypeOK, Inv, faults.damage = 0
               PROVE  Loaded.ok /\ acked \subseteq Loaded.edits
    BY DEF NoAckedEditLost
  <2>1. Sound
    BY DEF Inv
  <2>2. CASE acked = {}
    BY <2>1, <2>2, LoadedFacts
  <2>3. CASE acked # {}
    <3>1. PICK g \in Recorded(vis, dur) : acked \subseteq g.edits
      BY <2>1, <2>3 DEF Sound, Filesystem, Anchored, Recorded, AllSnapshots, Slots
    <3> QED
      BY <2>1, <3>1, LoadedFacts
  <2> QED
    BY <2>2, <2>3
<1> QED
  BY <1>1, InvHolds, TypeCorrect, PTL

\* The compare-and-swap is sound: as long as no snapshot is damaged, a token
\* that verify_inventory_revision accepts was issued for the current graph.
THEOREM AcceptedTokensAreCurrent ==
    ASSUME ~SyncTolerated
    PROVE  Spec => []AcceptedTokenIsCurrent
<1>1. TypeOK /\ Inv => AcceptedTokenIsCurrent
  BY AcceptedToken DEF Inv, AcceptedTokenIsCurrent
<1> QED
  BY <1>1, InvHolds, TypeCorrect, PTL

----------------------------------------------------------------------------
(* Failed commits stay invisible.                                          *)

\* What a reader loads is held, damaged store or not.
LEMMA LoadedIsHeld ==
    ASSUME TypeOK
    PROVE  Loaded.edits \in Held
<1> DEFINE candidates == ProbeSlot(vis["A"]) \cup ProbeSlot(vis["B"])
           selected == {f \in Newest(candidates) : Newest(candidates) = {f}}
           chosen == CHOOSE f \in selected : TRUE
<1>1. selected \subseteq AllSnapshots(vis)
  BY DEF Newest, ProbeSlot, AllSnapshots
<1>2. Loaded =
        IF AllSnapshots(vis) = {} THEN [ok |-> TRUE, gen |-> 0, max |-> 0, edits |-> {}]
        ELSE IF selected = {} THEN [ok |-> FALSE, gen |-> 0, max |-> MaxSeen(vis), edits |-> {}]
        ELSE [ok |-> TRUE, gen |-> chosen.gen, max |-> MaxSeen(vis), edits |-> chosen.edits]
  BY DEF Loaded, LoadLocked
<1>3. selected # {} => chosen \in AllSnapshots(vis)
  BY <1>1
<1> HIDE DEF selected, chosen
<1>4. Loaded.edits = {} \/ \E f \in AllSnapshots(vis) : Loaded.edits = f.edits
  BY <1>2, <1>3
<1> QED
  BY <1>4 DEF Held, Recorded

\* Steps that record nothing new hold nothing new.
LEMMA HeldShrinks ==
    ASSUME token' = token,
           \A f \in Recorded(vis', dur') : \E h \in Recorded(vis, dur) : f.edits = h.edits
    PROVE  Held' \subseteq Held
BY DEF Held

LEMMA FailNext == TypeOK /\ TypeOK' /\ FailInv /\ [Next]_vars => FailInv'
<1> SUFFICES ASSUME TypeOK, TypeOK', FailInv, [Next]_vars
             PROVE  FailInv'
  OBVIOUS
<1>w. WorkSlot \in Slots /\ Other(WorkSlot) \in Slots
  BY DEF WorkSlot, ForGeneration, Other, Slots
\* A step that keeps the ghosts and the operation, and holds nothing new.
<1>q. ASSUME Held' \subseteq Held, work' = work, UNCHANGED <<failed, used>>,
             pc' = "idle" \/ pc # "idle",
             pc' \in {"create", "write", "link"} => pc \in {"create", "write", "link"}
      PROVE  FailInv'
  BY <1>q DEF FailInv
\* A step that ends the operation and may hand its graph to a client.
<1>r. ASSUME Held' \subseteq Held \cup {work.edits}, pc # "idle", pc' = "idle",
             UNCHANGED <<failed, used>>
      PROVE  FailInv'
  BY <1>r DEF FailInv
\* Snapshots come from the views of the same slots.
<1>v. ASSUME \A s \in Slots : /\ Snapshots(vis'[s]) \subseteq Snapshots(vis[s]) \cup Snapshots(dur[s])
                             /\ Snapshots(dur'[s]) \subseteq Snapshots(vis[s]) \cup Snapshots(dur[s])
      PROVE  Recorded(vis', dur') \subseteq Recorded(vis, dur)
  BY <1>v DEF Recorded, AllSnapshots, Slots
<1>1. CASE UNCHANGED vars
  <2>1. Held' = Held
    BY <1>1 DEF vars, Held
  <2> QED
    BY <1>1, <2>1 DEF vars, FailInv
<1>2. ASSUME NEW p \in Procs, Read(p) \/ RejectStale(p)
      PROVE  FailInv'
  <2>1. /\ vis' = vis /\ dur' = dur /\ pc' = pc /\ pc = "idle" /\ work' = work
        /\ UNCHANGED <<failed, used>>
    BY <1>2 DEF Read, RejectStale, fs, ghosts
  <2>2. \A q \in Procs : token'[q].edits \in Held
    <3> TAKE q \in Procs
    <3>1. token[q].edits \in Held /\ {} \in Held
      BY DEF Held
    <3>2. token'[q].edits \in {token[q].edits, Loaded.edits, {}}
      BY <1>2 DEF Read, RejectStale, InventoryRevision, NoToken, TypeOK
    <3> QED
      BY <3>1, <3>2, LoadedIsHeld
  <2>3. Held' \subseteq Held
    BY <2>1, <2>2 DEF Held
  <2> QED
    BY <2>1, <2>3, <1>q
<1>3. ASSUME NEW p \in Procs, NEW e \in Edits \ used, NEW base \in Held, StartCommit(p, e, base)
      PROVE  FailInv'
  <2>1. /\ Held' = Held /\ failed' = failed /\ used' = used \cup {e}
        /\ work'.edits = base \cup {e} /\ work'.edit = {e}
    BY <1>3 DEF StartCommit, fs, clients, Held
  <2>2. base \subseteq used /\ base \cap failed = {} /\ failed \subseteq used
    BY DEF FailInv
  <2>3. \A E \in Held : E \subseteq used /\ E \cap failed = {} /\ e \notin E
    BY DEF FailInv
  <2> QED
    BY <2>1, <2>2, <2>3 DEF FailInv
<1>4. ASSUME NEW p \in Procs, NEW e \in Edits, CommitReplacement(p, e) \/ CommitDirect(p, e)
      PROVE  FailInv'
  <2>1. token[p].edits \in Held
    BY DEF Held
  <2> QED
    BY <1>3, <1>4, <2>1, LoadedIsHeld DEF CommitReplacement, CommitDirect
<1>5. ASSUME NEW p \in Procs, ConfirmBegin(p)
      PROVE  FailInv'
  <2>1. /\ Held' = Held /\ UNCHANGED <<failed, used>> /\ pc' = "confirmSelected"
        /\ work'.edits = Loaded.edits
    BY <1>5 DEF ConfirmBegin, fs, clients, ghosts, Held
  <2> QED
    BY <2>1, LoadedIsHeld DEF FailInv
<1>6. CASE Operation
  \* An error return adds the commit's own edit to the failed ones.
  <2>e. ASSUME ReturnError, pc \in {"create", "write", "link"}, Held' \subseteq Held
        PROVE  FailInv'
    BY <2>e DEF ReturnError, FailInv
  <2>1. CASE CreateTemp \/ SyncTemp \/ PrePublicationFailure
    <3>1. \A s \in Slots : Snapshots(vis'[s]) = Snapshots(vis[s])
      BY <2>1, TemporaryNames
    <3>2. dur' = dur /\ token' = token /\ work' = work
      BY <2>1 DEF CreateTemp, SyncTemp, PrePublicationFailure, ReturnError, clients
    <3>3. Held' \subseteq Held
      BY <1>v, <3>1, <3>2, HeldShrinks DEF Snapshots
    <3>4. CASE ReturnError
      BY <2>1, <2>e, <3>3, <3>4 DEF CreateTemp, SyncTemp, PrePublicationFailure
    <3>5. CASE ~ReturnError
      BY <1>q, <2>1, <3>2, <3>3, <3>5 DEF CreateTemp, SyncTemp, PrePublicationFailure, ghosts
    <3> QED
      BY <3>4, <3>5
  <2>2. CASE Publish
    <3>1. /\ dur' = dur /\ token' = token /\ work' = work /\ UNCHANGED <<failed, used>>
          /\ pc = "link" /\ pc' = "sync"
      BY <2>2 DEF Publish, clients, ghosts
    <3>2. \A s \in Slots : Snapshots(vis'[s]) \subseteq Snapshots(vis[s]) \cup {FinalEntry}
      BY <1>w, <2>2 DEF Publish, TypeOK, Directory, Snapshots
    <3>3. Recorded(vis', dur') \subseteq Recorded(vis, dur) \cup {FinalEntry}
      BY <3>1, <3>2 DEF Recorded, AllSnapshots, Slots
    <3>4. FinalEntry.edits = work.edits
      BY DEF FinalEntry
    <3>5. Held' \subseteq Held \cup {work.edits}
      BY <3>1, <3>3, <3>4 DEF Held
    <3> QED
      BY <3>1, <3>5 DEF FailInv
  <2>3. CASE SyncPublication \/ RemoveTemp \/ ConfirmSync
    <3>1. \A s \in Slots : vis'[s] \subseteq vis[s]
      BY <1>w, <2>3 DEF SyncPublication, RemoveTemp, ConfirmSync, TypeOK, Directory
    <3>2. \A s \in Slots : dur'[s] = dur[s] \/ dur'[s] = vis'[s]
      BY <1>w, <2>3 DEF SyncPublication, RemoveTemp, ConfirmSync, SyncBestEffort, SyncOk,
                        TypeOK, Directory
    <3>3. token' = token /\ work' = work /\ UNCHANGED <<failed, used>>
      BY <2>3 DEF SyncPublication, RemoveTemp, ConfirmSync, clients, ghosts
    <3>4. Held' \subseteq Held
      BY <1>v, <3>1, <3>2, <3>3, HeldShrinks DEF Snapshots
    <3> QED
      BY <1>q, <2>3, <3>3, <3>4 DEF SyncPublication, RemoveTemp, ConfirmSync
  <2>4. CASE ReturnDurable \/ ReturnUncertain \/ ConfirmReturn
    <3>1. \A s \in Slots : vis'[s] \subseteq vis[s]
      BY <1>w, <2>4 DEF ReturnDurable, ReturnUncertain, ConfirmReturn, fs, TypeOK, Directory
    <3>2. \A s \in Slots : dur'[s] = dur[s] \/ dur'[s] = vis'[s]
      BY <1>w, <2>4 DEF ReturnDurable, ReturnUncertain, ConfirmReturn, SyncBestEffort, SyncOk,
                        fs, TypeOK, Directory
    <3>3. ReturnRevision /\ pc # "idle" /\ pc' = "idle" /\ UNCHANGED <<failed, used>>
      BY <2>4 DEF ReturnDurable, ReturnUncertain, ConfirmReturn, ReturnRevision
    <3>4. Recorded(vis', dur') \subseteq Recorded(vis, dur)
      BY <1>v, <3>1, <3>2 DEF Snapshots
    <3>5. \A q \in Procs : token'[q].edits \in {token[q].edits, work.edits}
      BY <3>3 DEF ReturnRevision, InventoryRevision, Committed, TypeOK
    <3>6. Held' \subseteq Held \cup {work.edits}
      BY <3>4, <3>5 DEF Held
    <3> QED
      BY <1>r, <3>3, <3>6
  <2>5. CASE ConfirmFail
    <3>1. Held' = Held
      BY <2>5 DEF ConfirmFail, fs, clients, Held
    <3> QED
      BY <2>5, <3>1 DEF ConfirmFail, ghosts, FailInv
  <2> QED
    BY <1>6, <2>1, <2>2, <2>3, <2>4, <2>5 DEF Operation
<1>7. ASSUME NEW p \in Procs, ProcessCrash(p)
      PROVE  FailInv'
  <2>1. Held' = Held
    BY <1>7 DEF ProcessCrash, fs, Held
  <2> QED
    BY <1>7, <2>1, <1>q DEF ProcessCrash, ghosts
<1>8. CASE PowerLoss
  <2>1. \A s \in Slots : vis'[s] \subseteq vis[s] \cup dur[s] /\ dur'[s] \subseteq vis[s] \cup dur[s]
    BY <1>8 DEF PowerLoss, Outcomes, Slots
  <2>2. Held' \subseteq Held
    BY <1>8, <1>v, <2>1, HeldShrinks DEF Snapshots, PowerLoss
  <2> QED
    BY <1>8, <2>2, <1>q DEF PowerLoss, ghosts
<1>9. ASSUME NEW s \in Slots, Damage(s)
      PROVE  FailInv'
  <2>1. PICK f \in Snapshots(vis[s]) :
           LET broken == [f EXCEPT !.ok = FALSE]
               Break(files) == IF f \in files THEN (files \ {f}) \cup {broken} ELSE files
           IN  /\ vis' = [vis EXCEPT ![s] = Break(@)]
               /\ dur' = [dur EXCEPT ![s] = Break(@)]
    BY <1>9 DEF Damage
  <2> DEFINE broken == [f EXCEPT !.ok = FALSE]
  <2>2. broken.edits = f.edits /\ f \in Recorded(vis, dur)
    <3>1. f \in File
      BY DEF Snapshots, TypeOK, Directory
    <3> QED
      BY <3>1 DEF File, Recorded, AllSnapshots, Slots
  <2>3. \A r \in Slots : vis'[r] \subseteq vis[r] \cup {broken} /\ dur'[r] \subseteq dur[r] \cup {broken}
    BY <2>1 DEF TypeOK, Directory
  <2> HIDE DEF broken
  <2>4. Recorded(vis', dur') \subseteq Recorded(vis, dur) \cup {broken}
    BY <2>3 DEF Recorded, AllSnapshots, Snapshots, Slots
  <2>5. Held' \subseteq Held
    BY <1>9, <2>2, <2>4, HeldShrinks DEF Damage, clients
  <2> QED
    BY <1>9, <2>5, <1>q DEF Damage, ghosts
<1> QED
  BY <1>1, <1>2, <1>4, <1>5, <1>6, <1>7, <1>8, <1>9 DEF Next

\* "Err from a mutating store method means that this point was not reached",
\* without any assumption on faults: no load ever returns a graph with an edit
\* that commit_locked reported as failed.
THEOREM FailedEditsStayInvisible == Spec => []FailedEditNeverVisible
<1>1. Init => FailInv
  BY DEF Init, FailInv, Held, Recorded, AllSnapshots, Snapshots, Slots, NoToken
<1>2. TypeOK /\ FailInv => FailedEditNeverVisible
  BY LoadedIsHeld DEF FailInv, FailedEditNeverVisible
<1> QED
  BY <1>1, <1>2, FailNext, TypeCorrect, PTL DEF Spec

\* All parts of the inductive invariant together: with honest syncs, the store is
\* typed, sound while undamaged, and free of failed edits, for any number of
\* processes, edits, generations and faults.
THEOREM InductiveInvariant ==
    ASSUME ~SyncTolerated
    PROVE  Spec => []IInv
<1>1. Init => IInv
  BY TypeInit, InvInit
     DEF IInv, Init, FailInv, Held, Recorded, AllSnapshots, Snapshots, Slots, NoToken
<1>2. IInv /\ [Next]_vars => IInv'
  BY TypeNext, InvNext, FailNext DEF IInv
<1> QED
  BY <1>1, <1>2, PTL DEF Spec

----------------------------------------------------------------------------
(* Retention.                                                              *)

\* A snapshot that is only in the durable view, because its removal was not
\* synced, is older than one of its slot that no power loss takes away.
Shadowed ==
  \A s \in Slots : \A f \in Snapshots(dur[s]) \ vis[s] :
    \E h \in Snapshots(vis[s]) : h \in dur[s] /\ f.gen < h.gen

\* A commit that removes older snapshots has its own in both views, even if it
\* has become unreadable since.
HasPublished ==
  /\ pc = "sync" => \E h \in Snapshots(vis[WorkSlot]) : h.gen = work.gen
  /\ pc \in {"durable", "compact"} =>
       \E h \in Snapshots(vis[WorkSlot]) : h \in dur[WorkSlot] /\ h.gen = work.gen

ShadowInv == Shadowed /\ HasPublished

\* A slot whose snapshots are synced, or gain visible ones only, stays as it is.
LEMMA ShadowKept ==
  ASSUME Shadowed,
         \A s \in Slots :
           \/ Snapshots(dur'[s]) \subseteq Snapshots(vis'[s])
           \/ /\ Snapshots(vis[s]) \subseteq Snapshots(vis'[s])
              /\ Snapshots(dur'[s]) = Snapshots(dur[s])
  PROVE  Shadowed'
<1> SUFFICES ASSUME NEW s \in Slots, NEW f \in Snapshots(dur'[s]), f \notin vis'[s]
             PROVE  \E h \in Snapshots(vis'[s]) : h \in dur'[s] /\ f.gen < h.gen
  BY DEF Shadowed
<1>1. /\ Snapshots(vis[s]) \subseteq Snapshots(vis'[s])
      /\ Snapshots(dur'[s]) = Snapshots(dur[s])
  BY DEF Snapshots
<1>2. PICK h \in Snapshots(vis[s]) : h \in dur[s] /\ f.gen < h.gen
  BY <1>1 DEF Shadowed, Snapshots
<1>3. h \in Snapshots(vis'[s]) /\ h \in dur'[s]
  BY <1>1, <1>2 DEF Snapshots
<1> QED
  BY <1>2, <1>3

LEMMA ShadowNext ==
  ASSUME ~SyncTolerated
  PROVE  TypeOK /\ ShadowInv /\ [Next]_vars => ShadowInv'
<1> SUFFICES ASSUME TypeOK, ShadowInv, [Next]_vars PROVE ShadowInv'
  OBVIOUS
<1>w. WorkSlot \in Slots /\ Other(WorkSlot) \in Slots
  BY DEF WorkSlot, ForGeneration, Other, Slots
\* Steps that leave the slots alone.
<1>u. ASSUME UNCHANGED fs,
             \/ pc' \notin {"sync", "durable", "compact"}
             \/ pc' = pc /\ work' = work
      PROVE  ShadowInv'
  BY <1>u DEF fs, ShadowInv, Shadowed, HasPublished, WorkSlot
<1>1. CASE \/ UNCHANGED vars
           \/ \E p \in Procs : \/ Read(p) \/ RejectStale(p) \/ ConfirmBegin(p)
                               \/ ProcessCrash(p)
                               \/ \E e \in Edits : CommitReplacement(p, e) \/ CommitDirect(p, e)
           \/ ReturnUncertain \/ ConfirmFail \/ ConfirmReturn
  BY <1>1, <1>u DEF vars, Read, RejectStale, ConfirmBegin, ProcessCrash, CommitReplacement,
       CommitDirect, StartCommit, ReturnUncertain, ConfirmFail, ConfirmReturn, ReturnRevision, fs
<1>2. CASE CreateTemp \/ SyncTemp \/ PrePublicationFailure
  <2>1. \A s \in Slots : Snapshots(vis'[s]) = Snapshots(vis[s])
    BY <1>2, TemporaryNames
  <2>2. dur' = dur /\ pc' \notin {"sync", "durable", "compact"}
    BY <1>2 DEF CreateTemp, SyncTemp, PrePublicationFailure, ReturnError
  <2>3. Shadowed'
    BY <2>1, <2>2, ShadowKept DEF ShadowInv
  <2> QED
    BY <2>2, <2>3 DEF ShadowInv, HasPublished
<1>3. CASE Publish
  <2>1. /\ dur' = dur /\ work' = work /\ pc' = "sync"
        /\ vis' = [vis EXCEPT ![WorkSlot] = @ \cup {FinalEntry}]
    BY <1>3 DEF Publish
  <2>2. \A s \in Slots : Snapshots(vis[s]) \subseteq Snapshots(vis'[s])
    BY <1>w, <2>1 DEF TypeOK, Directory, Snapshots
  <2>3. Shadowed'
    BY <2>1, <2>2, ShadowKept DEF ShadowInv
  <2>4. FinalEntry \in Snapshots(vis'[WorkSlot]) /\ FinalEntry.gen = work.gen
    BY <1>w, <2>1 DEF TypeOK, Directory, Snapshots, FinalEntry
  <2> QED
    BY <2>1, <2>3, <2>4 DEF ShadowInv, HasPublished, WorkSlot
<1>4. CASE SyncPublication
  <2>1. /\ vis' = vis /\ work' = work /\ pc = "sync"
        /\ \/ dur' = [dur EXCEPT ![WorkSlot] = vis[WorkSlot]]
           \/ dur' = dur /\ pc' \notin {"sync", "durable", "compact"}
    BY <1>4 DEF SyncPublication, SyncOk
  <2>2. \A s \in Slots : dur'[s] = dur[s] \/ dur'[s] = vis'[s]
    BY <1>w, <2>1 DEF TypeOK, Directory
  <2>3. Shadowed'
    BY <2>1, <2>2, ShadowKept DEF ShadowInv
  <2>4. pc' # "sync" /\ (pc' \in {"durable", "compact"} => dur'[WorkSlot] = vis[WorkSlot])
    BY <1>w, <1>4, <2>1 DEF SyncPublication, TypeOK, Directory
  <2>5. PICK h \in Snapshots(vis[WorkSlot]) : h.gen = work.gen
    BY <2>1 DEF ShadowInv, HasPublished
  <2>6. pc' \in {"durable", "compact"} => h \in dur'[WorkSlot]
    BY <2>4, <2>5 DEF Snapshots
  <2>7. WorkSlot' = WorkSlot
    BY <2>1 DEF WorkSlot
  <2>8. HasPublished'
    BY <2>1, <2>4, <2>5, <2>6, <2>7 DEF HasPublished
  <2> QED
    BY <2>3, <2>8 DEF ShadowInv
<1>5. CASE RemoveTemp
  <2>1. \A s \in Slots : Snapshots(vis'[s]) = Snapshots(vis[s])
    BY <1>5, TemporaryNames
  <2>2. \A s \in Slots : dur'[s] = dur[s] \/ dur'[s] = vis'[s]
    BY <1>5 DEF RemoveTemp, SyncBestEffort, SyncOk, TypeOK, Directory
  <2>3. Shadowed'
    BY <2>1, <2>2, ShadowKept DEF ShadowInv
  <2>4. work' = work /\ pc \in {"durable", "uncertain"}
        /\ pc' = IF pc = "durable" THEN "compact" ELSE "return"
    BY <1>5 DEF RemoveTemp
  <2>5. ASSUME pc = "durable"
        PROVE  \E h \in Snapshots(vis'[WorkSlot]) : h \in dur'[WorkSlot] /\ h.gen = work.gen
    <3>1. PICK h \in Snapshots(vis[WorkSlot]) : h \in dur[WorkSlot] /\ h.gen = work.gen
      BY <2>5 DEF ShadowInv, HasPublished
    <3>2. h \in Snapshots(vis'[WorkSlot]) /\ h \in dur'[WorkSlot]
      BY <1>w, <2>1, <2>2, <3>1 DEF Snapshots
    <3> QED
      BY <3>1, <3>2
  <2> QED
    BY <2>3, <2>4, <2>5 DEF ShadowInv, HasPublished, WorkSlot
<1>6. CASE ReturnDurable
  <2>1. PICK gone \in SUBSET Compactable(vis[WorkSlot], work.gen) :
          /\ vis' = [vis EXCEPT ![WorkSlot] = @ \ gone]
          /\ dur' = dur \/ dur' = [dur EXCEPT ![WorkSlot] = vis'[WorkSlot]]
    BY <1>6 DEF ReturnDurable, SyncBestEffort, SyncOk
  <2>2. /\ vis'[WorkSlot] = vis[WorkSlot] \ gone
        /\ \A s \in Slots \ {WorkSlot} : vis'[s] = vis[s] /\ dur'[s] = dur[s]
        /\ dur'[WorkSlot] = dur[WorkSlot] \/ dur'[WorkSlot] = vis'[WorkSlot]
    BY <1>w, <2>1 DEF TypeOK, Directory
  <2>3. PICK top \in Snapshots(vis[WorkSlot]) : top \in dur[WorkSlot] /\ top.gen = work.gen
    BY <1>6 DEF ReturnDurable, ShadowInv, HasPublished
  <2>4. top \notin gone /\ \A f \in Snapshots(gone) : f.gen < work.gen
    BY <2>3, MaxGenAssumption DEF Compactable, Snapshots, TypeOK
  <2>5. \A s \in Slots : \A f \in Snapshots(vis[s]) \cup Snapshots(dur[s]) : f.gen \in Nat
    BY MaxGenAssumption DEF Snapshots, TypeOK, Directory, File
  <2>6. ASSUME NEW s \in Slots, NEW f \in Snapshots(dur'[s]), f \notin vis'[s]
        PROVE  \E h \in Snapshots(vis'[s]) : h \in dur'[s] /\ f.gen < h.gen
    <3>1. CASE s # WorkSlot
      BY <2>2, <2>6, <3>1 DEF ShadowInv, Shadowed, Snapshots
    <3>2. CASE s = WorkSlot
      <4>1. dur'[s] = dur[s] /\ f \in Snapshots(dur[s])
        BY <2>2, <2>6, <3>2 DEF Snapshots
      <4>2. top \in Snapshots(vis'[s]) /\ top \in dur'[s]
        BY <2>2, <2>3, <2>4, <3>2, <4>1 DEF Snapshots
      <4>3. CASE f \in gone
        <5>1. f.gen < top.gen
          BY <2>3, <2>4, <4>1, <4>3 DEF Snapshots
        <5> QED
          BY <4>2, <5>1
      <4>4. CASE f \notin gone
        <5>1. PICK h \in Snapshots(vis[s]) : h \in dur[s] /\ f.gen < h.gen
          BY <2>2, <2>6, <3>2, <4>1, <4>4 DEF ShadowInv, Shadowed
        <5>2. CASE h \in gone
          <6>1. h.gen < top.gen
            BY <2>3, <2>4, <5>1, <5>2 DEF Snapshots
          <6>2. f.gen \in Nat /\ h.gen \in Nat /\ top.gen \in Nat
            BY <1>w, <2>3, <2>5, <3>2, <4>1, <5>1
          <6>3. f.gen < top.gen
            BY <5>1, <6>1, <6>2
          <6> QED
            BY <4>2, <6>3
        <5>3. CASE h \notin gone
          <6>1. h \in Snapshots(vis'[s]) /\ h \in dur'[s]
            BY <2>2, <3>2, <4>1, <5>1, <5>3 DEF Snapshots
          <6> QED
            BY <5>1, <6>1
        <5> QED
          BY <5>2, <5>3
      <4> QED
        BY <4>3, <4>4
    <3> QED
      BY <3>1, <3>2
  <2>7. pc' = "idle"
    BY <1>6 DEF ReturnDurable, ReturnRevision
  <2> QED
    BY <2>6, <2>7 DEF ShadowInv, Shadowed, HasPublished
<1>7. CASE ConfirmSync
  <2>1. /\ vis' = vis /\ pc' \notin {"sync", "durable", "compact"}
        /\ \A s \in Slots : dur'[s] = dur[s] \/ dur'[s] = vis'[s]
    BY <1>w, <1>7 DEF ConfirmSync, SyncOk, TypeOK, Directory
  <2>2. Shadowed'
    BY <2>1, ShadowKept DEF ShadowInv
  <2> QED
    BY <2>1, <2>2 DEF ShadowInv, HasPublished
<1>8. CASE PowerLoss
  <2>1. dur' = vis' /\ pc' = "idle"
    BY <1>8 DEF PowerLoss
  <2> QED
    BY <2>1 DEF ShadowInv, Shadowed, HasPublished, Snapshots
<1>9. ASSUME NEW s \in Slots, Damage(s)
      PROVE  ShadowInv'
  <2>1. PICK f \in Snapshots(vis[s]) :
           LET broken == [f EXCEPT !.ok = FALSE]
               Break(files) == IF f \in files THEN (files \ {f}) \cup {broken} ELSE files
           IN  /\ vis' = [vis EXCEPT ![s] = Break(@)]
               /\ dur' = [dur EXCEPT ![s] = Break(@)]
    BY <1>9 DEF Damage
  <2> DEFINE broken == [f EXCEPT !.ok = FALSE]
  <2>2. f \in vis[s] /\ broken.gen = f.gen /\ broken.kind = "snapshot" /\ f.kind = "snapshot"
    <3>1. f \in File
      BY DEF Snapshots, TypeOK, Directory
    <3> QED
      BY <3>1 DEF File, Snapshots
  <2>3. /\ vis'[s] = (vis[s] \ {f}) \cup {broken}
        /\ dur'[s] = IF f \in dur[s] THEN (dur[s] \ {f}) \cup {broken} ELSE dur[s]
        /\ \A r \in Slots \ {s} : vis'[r] = vis[r] /\ dur'[r] = dur[r]
    BY <2>1, <2>2 DEF TypeOK, Directory
  <2> HIDE DEF broken
  \* A snapshot in both views stays, or becomes the broken one in both.
  <2>4. ASSUME NEW r \in Slots, NEW h \in Snapshots(vis[r])
        PROVE  \E g \in Snapshots(vis'[r]) : g.gen = h.gen /\ (h \in dur[r] => g \in dur'[r])
    <3>1. CASE r = s /\ h = f
      <4>1. broken \in Snapshots(vis'[r]) /\ (h \in dur[r] => broken \in dur'[r])
        BY <2>2, <2>3, <3>1 DEF Snapshots
      <4> QED
        BY <2>2, <3>1, <4>1
    <3>2. CASE ~(r = s /\ h = f)
      <4>1. h \in Snapshots(vis'[r]) /\ (h \in dur[r] => h \in dur'[r])
        BY <2>3, <3>2 DEF Snapshots
      <4> QED
        BY <4>1
    <3> QED
      BY <3>1, <3>2
  <2>5. Shadowed'
    <3>1. ASSUME NEW r \in Slots, NEW x \in Snapshots(dur'[r]), x \notin vis'[r]
          PROVE  \E g \in Snapshots(vis'[r]) : g \in dur'[r] /\ x.gen < g.gen
      <4>1. x \in Snapshots(dur[r]) /\ x \notin vis[r]
        BY <2>2, <2>3, <3>1 DEF Snapshots
      <4>2. PICK h \in Snapshots(vis[r]) : h \in dur[r] /\ x.gen < h.gen
        BY <4>1 DEF ShadowInv, Shadowed
      <4> QED
        BY <2>4, <4>2
    <3> QED
      BY <3>1 DEF Shadowed
  <2>6. pc' = pc /\ work' = work
    BY <1>9 DEF Damage
  <2>7. HasPublished'
    BY <1>w, <2>4, <2>6 DEF ShadowInv, HasPublished, WorkSlot
  <2> QED
    BY <2>5, <2>7 DEF ShadowInv
<1> QED
  BY <1>1, <1>2, <1>3, <1>4, <1>5, <1>6, <1>7, <1>8, <1>9 DEF Next, Operation

\* What a load selects is the newest snapshot of one of the slots.
LEMMA LoadedIsNewestOfSlot ==
  ASSUME NEW d \in Directory, LoadLocked(d).ok, LoadLocked(d).gen # 0
  PROVE  \E s \in Slots : \E f \in Snapshots(d[s]) :
           /\ LoadLocked(d).edits = f.edits
           /\ \A h \in Snapshots(d[s]) : h.gen <= f.gen
<1> DEFINE candidates == ProbeSlot(d["A"]) \cup ProbeSlot(d["B"])
           selected == {f \in Newest(candidates) : Newest(candidates) = {f}}
           chosen == CHOOSE f \in selected : TRUE
<1>1. LoadLocked(d) =
        IF AllSnapshots(d) = {} THEN [ok |-> TRUE, gen |-> 0, max |-> 0, edits |-> {}]
        ELSE IF selected = {} THEN [ok |-> FALSE, gen |-> 0, max |-> MaxSeen(d), edits |-> {}]
        ELSE [ok |-> TRUE, gen |-> chosen.gen, max |-> MaxSeen(d), edits |-> chosen.edits]
  BY DEF LoadLocked
<1>2. selected \subseteq candidates
  BY DEF Newest
<1> HIDE DEF selected, chosen
<1>3. selected # {} /\ LoadLocked(d).edits = chosen.edits
  BY <1>1
<1>4. chosen \in candidates
  BY <1>2, <1>3 DEF chosen
<1>5. PICK s \in Slots : chosen \in ProbeSlot(d[s])
  BY <1>4 DEF Slots
<1>6. chosen \in Snapshots(d[s]) /\ \A h \in Snapshots(d[s]) : h.gen <= chosen.gen
  BY <1>5 DEF ProbeSlot, Newest
<1> QED
  BY <1>3, <1>6

\* The garbage collector may trust managed_secret_retention_set: whatever
\* removals a compaction did not sync and whatever a power loss brings back or
\* takes away, the graph that is loaded then is one the scan keeps now.
THEOREM RetentionSuffices ==
  ASSUME ~SyncTolerated
  PROVE  Spec => []RetentionCoversRecovery
<1>1. Init => ShadowInv
  BY DEF Init, ShadowInv, Shadowed, HasPublished, Snapshots, Slots
<1>2. TypeOK /\ ShadowInv => RetentionCoversRecovery
  <2> SUFFICES ASSUME TypeOK, ShadowInv,
                      NEW a \in Outcomes(vis["A"], dur["A"]),
                      NEW b \in Outcomes(vis["B"], dur["B"]),
                      NEW left, left = [s \in Slots |-> IF s = "A" THEN a ELSE b],
                      LoadLocked(left).ok, LoadLocked(left).gen # 0
               PROVE  LoadLocked(left).edits \in Retained(vis)
    BY DEF RetentionCoversRecovery
  <2>1. \A s \in Slots : left[s] \subseteq vis[s] \cup dur[s] /\ vis[s] \cap dur[s] \subseteq left[s]
    BY DEF Outcomes, Slots
  <2>2. left \in Directory
    BY <2>1 DEF TypeOK, Directory
  <2>3. PICK s \in Slots : \E f \in Snapshots(left[s]) :
           /\ LoadLocked(left).edits = f.edits
           /\ \A h \in Snapshots(left[s]) : h.gen <= f.gen
    BY <2>2, LoadedIsNewestOfSlot
  <2>4. PICK f \in Snapshots(left[s]) :
           /\ LoadLocked(left).edits = f.edits
           /\ \A h \in Snapshots(left[s]) : h.gen <= f.gen
    BY <2>3
  <2>5. f \in vis[s]
    <3> SUFFICES ASSUME f \notin vis[s] PROVE FALSE
      OBVIOUS
    <3>1. f \in Snapshots(dur[s]) \ vis[s]
      BY <2>1 DEF Snapshots
    <3>2. PICK h \in Snapshots(vis[s]) : h \in dur[s] /\ f.gen < h.gen
      BY <3>1 DEF ShadowInv, Shadowed
    <3>3. h \in Snapshots(left[s])
      BY <2>1, <3>2 DEF Snapshots
    <3>4. f.gen \in Nat /\ h.gen \in Nat
      BY <3>1, <3>2, MaxGenAssumption DEF TypeOK, Directory, File, Snapshots
    <3> QED
      BY <2>4, <3>2, <3>3, <3>4
  <2> QED
    BY <2>4, <2>5 DEF Retained, Slots
<1> QED
  BY <1>1, <1>2, ShadowNext, TypeCorrect, PTL DEF Spec
----------------------------------------------------------------------------
(* One damaged snapshot.                                                   *)

\* A generation names one snapshot, which is in the slot of its parity.
Unique(v) ==
  /\ \A f, h \in AllSnapshots(v) : f.gen = h.gen => f = h
  /\ \A s \in Slots : \A f \in Snapshots(v[s]) : ForGeneration(f.gen) = s

\* m is the newest generation, and the one before it is there too.
TopTwo(v, m) ==
  /\ \A f \in AllSnapshots(v) : f.gen <= m
  /\ m >= 1 => \E f \in AllSnapshots(v) : f.gen = m
  /\ m >= 2 => \E f \in AllSnapshots(v) : f.gen + 1 = m

\* As many snapshots are unreadable as have been damaged.
Broken(v, n) ==
  /\ n = 0 => \A f \in AllSnapshots(v) : f.ok
  /\ n = 1 => \A f, h \in AllSnapshots(v) : ~f.ok /\ ~h.ok => f = h

\* The newest generation, and the one a commit is working on.
AtTop ==
  \E m \in Nat :
    /\ TopTwo(vis, m)
    /\ pc \in {"create", "write", "link"} => work.gen = m + 1
    /\ pc \in {"sync", "durable", "uncertain", "indeterminate", "compact", "return"}
         => work.gen = m

\* Without a power loss the generations are published in order, and compaction
\* leaves the newest of each slot.
OrderInv == faults.powerLoss = 0 => Unique(vis) /\ Broken(vis, faults.damage) /\ AtTop

\* The maximum of the file names is the newest generation.
LEMMA TopIsMaxSeen ==
  ASSUME NEW v \in Directory, NEW m \in Nat, TopTwo(v, m)
  PROVE  MaxSeen(v) = m
<1>1. CASE AllSnapshots(v) = {}
  BY <1>1, MaxSeenIsNewest DEF TopTwo
<1>2. CASE AllSnapshots(v) # {}
  <2>1. PICK f \in AllSnapshots(v) : f.gen = MaxSeen(v)
    BY <1>2, MaxSeenIsNewest
  <2>2. f.gen \in 1..MaxGen
    BY SnapshotsType
  <2>3. MaxSeen(v) <= m /\ m >= 1
    BY <2>1, <2>2, MaxGenAssumption DEF TopTwo
  <2>4. PICK g \in AllSnapshots(v) : g.gen = m
    BY <2>3 DEF TopTwo
  <2>5. m <= MaxSeen(v)
    BY <2>4, MaxSeenIsNewest
  <2> QED
    BY <2>1, <2>2, <2>3, <2>5, MaxGenAssumption
<1> QED
  BY <1>1, <1>2

\* The maximum that a load reports.
LEMMA LoadedMax ==
  ASSUME NEW d \in Directory
  PROVE  LoadLocked(d).max = MaxSeen(d)
BY DEF LoadLocked, MaxSeen

\* Steps that keep the visible snapshots.
LEMMA OrderKept ==
  ASSUME OrderInv, AllSnapshots(vis') = AllSnapshots(vis),
         \A s \in Slots : Snapshots(vis'[s]) = Snapshots(vis[s]),
         UNCHANGED <<work, faults>>,
         pc' \in {"create", "write", "link"} => pc \in {"create", "write", "link"},
         pc' \in {"sync", "durable", "uncertain", "indeterminate", "compact", "return"} =>
           pc \in {"sync", "durable", "uncertain", "indeterminate", "compact", "return"}
  PROVE  OrderInv'
BY DEF OrderInv, Unique, Broken, AtTop, TopTwo

LEMMA OrderNext == TypeOK /\ TypeOK' /\ OrderInv /\ [Next]_vars => OrderInv'
<1> SUFFICES ASSUME TypeOK, TypeOK', OrderInv, [Next]_vars PROVE OrderInv'
  OBVIOUS
<1>w. WorkSlot \in Slots
  BY DEF WorkSlot, ForGeneration, Slots
<1>k. ASSUME \A s \in Slots : Snapshots(vis'[s]) = Snapshots(vis[s])
      PROVE  AllSnapshots(vis') = AllSnapshots(vis)
  BY <1>k DEF AllSnapshots, Slots
<1>1. CASE \/ UNCHANGED vars
           \/ \E p \in Procs : Read(p) \/ RejectStale(p)
           \/ ReturnUncertain \/ ConfirmFail \/ ConfirmReturn
           \/ SyncPublication \/ ConfirmSync
  <2>1. vis' = vis /\ UNCHANGED <<work, faults>>
    BY <1>1 DEF vars, Read, RejectStale, ReturnUncertain, ConfirmFail, ConfirmReturn,
                ReturnRevision, SyncPublication, ConfirmSync, fs
  <2>2. \/ pc' = pc
        \/ pc' \in {"idle", "confirmCompeting", "confirmReload"}
        \/ pc = "sync" /\ pc' \in {"durable", "uncertain", "indeterminate"}
    BY <1>1 DEF vars, Read, RejectStale, ReturnUncertain, ConfirmFail, ConfirmReturn,
                ReturnRevision, SyncPublication, ConfirmSync
  <2> QED
    BY <2>1, <2>2, OrderKept
<1>2. ASSUME NEW p \in Procs, ConfirmBegin(p) \/ ProcessCrash(p)
      PROVE  OrderInv'
  <2>1. /\ vis' = vis /\ faults'.powerLoss = faults.powerLoss /\ faults'.damage = faults.damage
        /\ pc' \in {"idle", "confirmSelected"} \/ (pc' = pc /\ work' = work)
    <3>1. CASE ConfirmBegin(p)
      BY <3>1 DEF ConfirmBegin, fs
    <3>2. CASE ProcessCrash(p)
      <4>1. faults \in [powerLoss : Nat, restart : Nat, damage : Nat]
        BY DEF TypeOK
      <4>2. /\ vis' = vis /\ work' = work
            /\ pc' = "idle" \/ pc' = pc
            /\ faults' = [faults EXCEPT !.restart = @ + 1]
        BY <3>2 DEF ProcessCrash, fs
      <4>3. faults'.powerLoss = faults.powerLoss /\ faults'.damage = faults.damage
        BY <4>1, <4>2
      <4> QED
        BY <4>2, <4>3
    <3> QED
      BY <1>2, <3>1, <3>2
  <2> QED
    BY <2>1 DEF OrderInv, AtTop
<1>3. ASSUME NEW p \in Procs, NEW e \in Edits, CommitReplacement(p, e) \/ CommitDirect(p, e)
      PROVE  OrderInv'
  <2>1. vis' = vis /\ faults' = faults /\ pc' = "create" /\ work'.gen = MaxSeen(vis) + 1
    BY <1>3, LoadedMax DEF CommitReplacement, CommitDirect, StartCommit, fs, Loaded, TypeOK
  <2>2. ASSUME NEW m \in Nat, TopTwo(vis, m)
        PROVE  MaxSeen(vis) = m
    BY <2>2, TopIsMaxSeen DEF TypeOK
  <2> QED
    BY <2>1, <2>2 DEF OrderInv, AtTop
<1>4. CASE CreateTemp \/ SyncTemp \/ PrePublicationFailure \/ RemoveTemp
  <2>1. \A s \in Slots : Snapshots(vis'[s]) = Snapshots(vis[s])
    BY <1>4, TemporaryNames
  <2>2. UNCHANGED <<work, faults>>
    BY <1>4 DEF CreateTemp, SyncTemp, PrePublicationFailure, RemoveTemp, ReturnError
  <2>3. \/ pc' = "idle"
        \/ pc \in {"create", "write"} /\ pc' \in {"write", "link"}
        \/ pc \in {"durable", "uncertain"} /\ pc' \in {"compact", "return"}
    BY <1>4 DEF CreateTemp, SyncTemp, PrePublicationFailure, RemoveTemp, ReturnError
  <2> QED
    BY <1>k, <2>1, <2>2, <2>3, OrderKept
<1>5. CASE Publish
  <2>1. /\ pc = "link" /\ pc' = "sync" /\ work' = work /\ faults' = faults
        /\ vis' = [vis EXCEPT ![WorkSlot] = @ \cup {FinalEntry}]
    BY <1>5 DEF Publish, ghosts
  <2>2. /\ FinalEntry.kind = "snapshot" /\ FinalEntry.gen = work.gen /\ FinalEntry.ok = TRUE
    BY DEF FinalEntry
  <2>3. /\ Snapshots(vis'[WorkSlot]) = Snapshots(vis[WorkSlot]) \cup {FinalEntry}
        /\ \A s \in Slots \ {WorkSlot} : vis'[s] = vis[s]
    BY <1>w, <2>1, <2>2 DEF TypeOK, Directory, Snapshots
  <2>4. AllSnapshots(vis') = AllSnapshots(vis) \cup {FinalEntry}
    BY <1>w, <2>3 DEF AllSnapshots, Slots
  <2> SUFFICES ASSUME faults.powerLoss = 0
               PROVE  Unique(vis') /\ Broken(vis', faults.damage) /\ AtTop'
    BY <2>1 DEF OrderInv
  <2>5. PICK m \in Nat : TopTwo(vis, m) /\ work.gen = m + 1
    BY <2>1 DEF OrderInv, AtTop
  <2>6. \A f \in AllSnapshots(vis) : f.gen \in Nat /\ f.gen <= m
    BY <2>5, SnapshotsType, MaxGenAssumption DEF TypeOK, TopTwo
  <2>7. Unique(vis')
    <3>1. ForGeneration(FinalEntry.gen) = WorkSlot
      BY <2>2 DEF WorkSlot
    <3>2. \A f, h \in AllSnapshots(vis') : f.gen = h.gen => f = h
      BY <2>2, <2>4, <2>5, <2>6 DEF OrderInv, Unique
    <3>3. \A s \in Slots : \A f \in Snapshots(vis'[s]) : ForGeneration(f.gen) = s
      BY <2>3, <3>1 DEF OrderInv, Unique
    <3> QED
      BY <3>2, <3>3 DEF Unique
  <2>8. Broken(vis', faults.damage)
    BY <2>2, <2>4 DEF OrderInv, Broken
  <2>9. AtTop'
    <3>1. TopTwo(vis', m + 1)
      BY <2>2, <2>4, <2>5, <2>6 DEF TopTwo
    <3> QED
      BY <2>1, <2>5, <3>1 DEF AtTop
  <2> QED
    BY <2>7, <2>8, <2>9
<1>6. CASE ReturnDurable
  <2>1. PICK gone \in SUBSET Compactable(vis[WorkSlot], work.gen) :
          vis' = [vis EXCEPT ![WorkSlot] = @ \ gone]
    BY <1>6 DEF ReturnDurable
  <2>2. /\ vis'[WorkSlot] = vis[WorkSlot] \ gone
        /\ \A s \in Slots \ {WorkSlot} : vis'[s] = vis[s]
    BY <1>w, <2>1 DEF TypeOK, Directory
  <2>3. pc = "compact" /\ pc' = "idle" /\ work' = work /\ faults' = faults
    BY <1>6 DEF ReturnDurable, ReturnRevision
  <2>4. \A s \in Slots : Snapshots(vis'[s]) \subseteq Snapshots(vis[s])
    BY <2>2 DEF Snapshots
  <2>5. AllSnapshots(vis') \subseteq AllSnapshots(vis)
    BY <2>4 DEF AllSnapshots, Slots
  <2> SUFFICES ASSUME faults.powerLoss = 0
               PROVE  Unique(vis') /\ Broken(vis', faults.damage) /\ AtTop'
    BY <2>3 DEF OrderInv
  <2>6. Unique(vis') /\ Broken(vis', faults.damage)
    BY <2>4, <2>5 DEF OrderInv, Unique, Broken
  <2>7. PICK m \in Nat : TopTwo(vis, m) /\ work.gen = m
    BY <2>3 DEF OrderInv, AtTop
  \* What compaction removes is older, and of the parity of the newest.
  <2>8. ASSUME NEW f \in AllSnapshots(vis), f.gen = m \/ f.gen + 1 = m
        PROVE  f \in AllSnapshots(vis')
    <3>1. PICK s \in Slots : f \in Snapshots(vis[s])
      BY DEF AllSnapshots, Slots
    <3>2. f.gen \in Nat /\ ForGeneration(f.gen) = s
      BY <3>1, SnapshotsType, MaxGenAssumption DEF OrderInv, Unique, TypeOK
    <3>3. CASE f.gen = m
      <4>1. f \notin gone
        BY <2>7, <3>1, <3>2, <3>3 DEF Compactable, Snapshots
      <4> QED
        BY <2>2, <3>1, <4>1 DEF AllSnapshots, Snapshots, Slots
    <3>4. CASE f.gen + 1 = m
      <4>1. ForGeneration(f.gen) # ForGeneration(m)
        BY <3>2, <3>4 DEF ForGeneration
      <4>2. s # WorkSlot
        BY <2>7, <3>2, <4>1 DEF WorkSlot
      <4> QED
        BY <2>2, <3>1, <4>2 DEF AllSnapshots, Snapshots, Slots
    <3> QED
      BY <2>8, <3>3, <3>4
  <2>9. TopTwo(vis', m)
    BY <2>5, <2>7, <2>8 DEF TopTwo
  <2> QED
    BY <2>3, <2>6, <2>9 DEF AtTop
<1>7. CASE PowerLoss
  <2>1. faults'.powerLoss # 0
    BY <1>7 DEF PowerLoss, TypeOK
  <2> QED
    BY <2>1 DEF OrderInv
<1>8. ASSUME NEW s \in Slots, Damage(s)
      PROVE  OrderInv'
  <2>1. PICK f \in Snapshots(vis[s]) :
           /\ f.ok
           /\ LET broken == [f EXCEPT !.ok = FALSE]
                  Break(files) == IF f \in files THEN (files \ {f}) \cup {broken} ELSE files
              IN  vis' = [vis EXCEPT ![s] = Break(@)]
    BY <1>8 DEF Damage
  <2> DEFINE broken == [f EXCEPT !.ok = FALSE]
  <2>2. f \in vis[s] /\ broken.gen = f.gen /\ broken.kind = "snapshot" /\ f.kind = "snapshot"
        /\ broken.ok = FALSE
    <3>1. f \in File
      BY DEF Snapshots, TypeOK, Directory
    <3> QED
      BY <3>1 DEF File, Snapshots
  <2>3. /\ vis'[s] = (vis[s] \ {f}) \cup {broken}
        /\ \A r \in Slots \ {s} : vis'[r] = vis[r]
    BY <2>1, <2>2 DEF TypeOK, Directory
  <2> HIDE DEF broken
  <2> SUFFICES ASSUME faults.powerLoss = 0
               PROVE  Unique(vis') /\ Broken(vis', faults'.damage) /\ AtTop'
    BY <1>8 DEF OrderInv, Damage, TypeOK
  <2>4. /\ \A r \in Slots : Snapshots(vis'[r]) \subseteq Snapshots(vis[r]) \cup {broken}
        /\ \A r \in Slots : Snapshots(vis[r]) \ {f} \subseteq Snapshots(vis'[r])
        /\ broken \in Snapshots(vis'[s]) /\ (broken # f => f \notin Snapshots(vis'[s]))
        /\ \A r \in Slots \ {s} : Snapshots(vis'[r]) = Snapshots(vis[r])
    BY <2>2, <2>3 DEF Snapshots
  <2>5. broken # f
    BY <2>1, <2>2
  <2>6. \A r \in Slots \ {s} : f \notin Snapshots(vis[r])
    BY DEF OrderInv, Unique
  <2>7. f \in AllSnapshots(vis) /\ AllSnapshots(vis') = (AllSnapshots(vis) \ {f}) \cup {broken}
    BY <2>4, <2>5, <2>6 DEF AllSnapshots, Slots
  <2>8. Unique(vis')
    <3>1. \A g, h \in AllSnapshots(vis') : g.gen = h.gen => g = h
      BY <2>2, <2>7 DEF OrderInv, Unique
    <3>2. \A r \in Slots : \A h \in Snapshots(vis'[r]) : ForGeneration(h.gen) = r
      BY <2>2, <2>4 DEF OrderInv, Unique
    <3> QED
      BY <3>1, <3>2 DEF Unique
  <2>9. Broken(vis', faults'.damage)
    <3>1. faults'.damage = faults.damage + 1 /\ faults.damage \in Nat
      BY <1>8 DEF Damage, TypeOK
    <3> QED
      BY <2>7, <3>1 DEF OrderInv, Broken
  <2>10. AtTop'
    <3>1. pc' = pc /\ work' = work
      BY <1>8 DEF Damage
    <3>2. ASSUME NEW m \in Nat, TopTwo(vis, m)
          PROVE  TopTwo(vis', m)
      <4>1. \A h \in AllSnapshots(vis) : \E g \in AllSnapshots(vis') : g.gen = h.gen
        BY <2>2, <2>7
      <4> QED
        BY <2>2, <2>7, <3>2, <4>1 DEF TopTwo
    <3> QED
      BY <3>1, <3>2 DEF OrderInv, AtTop
  <2> QED
    BY <2>8, <2>9, <2>10
<1> QED
  BY <1>1, <1>2, <1>3, <1>4, <1>5, <1>6, <1>7, <1>8 DEF Next, Operation

\* A readable snapshot that is the newest of its slot, and newer than what the
\* other slot offers, is what a load selects.
LEMMA Selected ==
  ASSUME NEW d \in Directory, NEW f, f \in ProbeSlot(d["A"]) \cup ProbeSlot(d["B"]),
         \A h \in ProbeSlot(d["A"]) \cup ProbeSlot(d["B"]) : h # f => h.gen < f.gen
  PROVE  LoadLocked(d).ok /\ LoadLocked(d).gen = f.gen
<1> DEFINE candidates == ProbeSlot(d["A"]) \cup ProbeSlot(d["B"])
           selected == {x \in Newest(candidates) : Newest(candidates) = {x}}
           chosen == CHOOSE x \in selected : TRUE
<1>0. candidates \subseteq AllSnapshots(d)
  BY DEF ProbeSlot, Newest, AllSnapshots
<1>1. \A h \in candidates : h.gen \in Nat
  BY <1>0, SnapshotsType, MaxGenAssumption
<1>2. Newest(candidates) = {f}
  BY <1>1 DEF Newest
<1>3. selected = {f} /\ chosen = f
  BY <1>2
<1>4. AllSnapshots(d) # {}
  BY <1>0
<1>5. LoadLocked(d) = [ok |-> TRUE, gen |-> chosen.gen, max |-> MaxSeen(d), edits |-> chosen.edits]
  BY <1>3, <1>4 DEF LoadLocked
<1> HIDE DEF chosen
<1> QED
  BY <1>3, <1>5

\* "A/B recoverable": as long as no power loss has discarded a publication, the
\* store opens with one snapshot damaged, whichever it is and whatever was
\* committed since, and has lost one generation at most.
THEOREM OneDamageIsRecoverable == Spec => []OneDamageRecoverable
<1>1. Init => OrderInv
  <2> SUFFICES ASSUME Init PROVE OrderInv
    OBVIOUS
  <2>1. AllSnapshots(vis) = {} /\ \A s \in Slots : Snapshots(vis[s]) = {}
    BY DEF Init, AllSnapshots, Snapshots, Slots
  <2>2. pc = "idle"
    BY DEF Init
  <2>3. TopTwo(vis, 0)
    BY <2>1 DEF TopTwo
  <2>4. AtTop
    BY <2>2, <2>3 DEF AtTop
  <2>5. Unique(vis) /\ Broken(vis, faults.damage)
    BY <2>1 DEF Unique, Broken
  <2> QED
    BY <2>4, <2>5 DEF OrderInv
<1>2. TypeOK /\ OrderInv => OneDamageRecoverable
  <2> SUFFICES ASSUME TypeOK, OrderInv, faults.damage <= 1, faults.powerLoss = 0, Loaded.max >= 2
               PROVE  Loaded.ok /\ Loaded.gen + 1 >= Loaded.max
    BY DEF OneDamageRecoverable
  <2>1. PICK m \in Nat : TopTwo(vis, m)
    BY DEF OrderInv, AtTop
  <2>2. Loaded.max = m /\ m >= 2
    BY <2>1, LoadedMax, TopIsMaxSeen DEF TypeOK, Loaded
  <2>3. PICK f \in AllSnapshots(vis) : f.gen = m
    BY <2>1, <2>2 DEF TopTwo
  <2>4. PICK g \in AllSnapshots(vis) : g.gen + 1 = m
    BY <2>1, <2>2 DEF TopTwo
  <2>5. \A h \in AllSnapshots(vis) : h.gen \in Nat /\ h.gen <= m
    BY <2>1, SnapshotsType, MaxGenAssumption DEF TopTwo, TypeOK
  <2>6. PICK s \in Slots : f \in Snapshots(vis[s])
    BY DEF AllSnapshots, Slots
  <2>7. PICK r \in Slots : g \in Snapshots(vis[r])
    BY DEF AllSnapshots, Slots
  <2>8. ForGeneration(f.gen) = s /\ ForGeneration(g.gen) = r /\ s # r
    BY <2>3, <2>4, <2>5, <2>6, <2>7 DEF OrderInv, Unique, ForGeneration
  <2>9. Newest(Snapshots(vis[s])) = {f}
    BY <2>3, <2>5, <2>6 DEF Newest, OrderInv, Unique, AllSnapshots, Slots
  <2>10. Newest(Snapshots(vis[r])) = {g}
    <3>1. \A h \in Snapshots(vis[r]) : h \in AllSnapshots(vis) /\ h.gen <= g.gen
      <4> TAKE h \in Snapshots(vis[r])
      <4>1. h \in AllSnapshots(vis)
        BY DEF AllSnapshots, Slots
      <4>2. h.gen # m
        BY <2>3, <2>8 DEF OrderInv, Unique
      <4> QED
        BY <2>4, <2>5, <4>1, <4>2
    <3> QED
      BY <2>5, <2>7, <3>1 DEF Newest, OrderInv, Unique
  <2>11. /\ ProbeSlot(vis[s]) = {x \in {f} : x.ok}
         /\ ProbeSlot(vis[r]) = {x \in {g} : x.ok}
    BY <2>9, <2>10 DEF ProbeSlot
  <2>12. ProbeSlot(vis["A"]) \cup ProbeSlot(vis["B"]) = {x \in {f, g} : x.ok}
    BY <2>8, <2>11 DEF Slots
  <2>13. f.ok \/ g.ok
    <3>1. faults.damage \in {0, 1}
      BY DEF TypeOK
    <3>2. f # g
      BY <2>3, <2>4, <2>5
    <3> QED
      BY <3>1, <3>2 DEF OrderInv, Broken
  <2>14. CASE f.ok
    <3>1. LoadLocked(vis).ok /\ LoadLocked(vis).gen = f.gen
      <4>1. g.gen < f.gen
        BY <2>3, <2>4, <2>5
      <4> QED
        BY <2>12, <2>14, <4>1, Selected DEF TypeOK
    <3> QED
      BY <2>2, <2>3, <3>1 DEF Loaded
  <2>15. CASE ~f.ok
    <3>1. LoadLocked(vis).ok /\ LoadLocked(vis).gen = g.gen
      BY <2>12, <2>13, <2>15, Selected DEF TypeOK
    <3> QED
      BY <2>2, <2>4, <3>1 DEF Loaded
  <2> QED
    BY <2>14, <2>15
<1>3. TypeOK /\ TypeOK' /\ OrderInv /\ [Next]_vars => OrderInv'
  BY OrderNext
<1> QED
  BY <1>1, <1>2, <1>3, TypeCorrect, PTL DEF Spec

----------------------------------------------------------------------------
(* What a power loss may leave.                                            *)

\* The slot directories that a power loss may leave of the views v and d.
Left(v, d) ==
  {x \in Directory : \A s \in Slots : v[s] \cap d[s] \subseteq x[s] /\ x[s] \subseteq v[s] \cup d[s]}

Risk(v, d) == {LoadLocked(x).edits : x \in Left(v, d)}

\* What a power loss leaves of slot A and of slot B.
Both(a, b) == [s \in Slots |-> IF s = "A" THEN a ELSE b]

LEMMA LeftBehind ==
  ASSUME NEW v \in Directory, NEW d \in Directory
  PROVE  /\ \A a \in Outcomes(v["A"], d["A"]), b \in Outcomes(v["B"], d["B"]) :
               Both(a, b) \in Left(v, d)
         /\ \A x \in Left(v, d) :
               /\ x = Both(x["A"], x["B"])
               /\ x["A"] \in Outcomes(v["A"], d["A"]) /\ x["B"] \in Outcomes(v["B"], d["B"])
<1>1. ASSUME NEW a \in Outcomes(v["A"], d["A"]), NEW b \in Outcomes(v["B"], d["B"])
      PROVE  Both(a, b) \in Left(v, d)
  BY DEF Both, Outcomes, Left, Directory, Slots
<1>2. ASSUME NEW x \in Left(v, d)
      PROVE  /\ x = Both(x["A"], x["B"])
             /\ x["A"] \in Outcomes(v["A"], d["A"]) /\ x["B"] \in Outcomes(v["B"], d["B"])
  BY DEF Both, Outcomes, Left, Directory, Slots
<1> QED
  BY <1>1, <1>2

LEMMA RiskIsAtRisk == TypeOK => AtRisk = Risk(vis, dur)
<1> SUFFICES ASSUME TypeOK PROVE AtRisk = Risk(vis, dur)
  OBVIOUS
<1>1. AtRisk = {LoadLocked(Both(a, b)).edits :
                  a \in Outcomes(vis["A"], dur["A"]), b \in Outcomes(vis["B"], dur["B"])}
  BY DEF AtRisk, Both
<1>2. vis \in Directory /\ dur \in Directory
  BY DEF TypeOK
<1>3. AtRisk \subseteq Risk(vis, dur)
  BY <1>1, <1>2, LeftBehind DEF Risk
<1>4. Risk(vis, dur) \subseteq AtRisk
  <2> SUFFICES ASSUME NEW x \in Left(vis, dur)
               PROVE  LoadLocked(x).edits \in AtRisk
    BY DEF Risk
  <2>1. /\ x = Both(x["A"], x["B"])
        /\ x["A"] \in Outcomes(vis["A"], dur["A"]) /\ x["B"] \in Outcomes(vis["B"], dur["B"])
    BY <1>2, LeftBehind
  <2> QED
    BY <1>1, <2>1
<1> QED
  BY <1>3, <1>4

\* The same of the state a step leads to.
LEMMA RiskIsAtRiskNext == TypeOK' => AtRisk' = Risk(vis', dur')
<1>1. (TypeOK => AtRisk = Risk(vis, dur))'
  BY RiskIsAtRisk, PTL
<1> QED
  BY <1>1

\* Nothing is lost when nothing is: the visible slots are one outcome, and the
\* only one if both views agree.
LEMMA NothingLost ==
  ASSUME NEW v \in Directory
  PROVE  /\ \A d \in Directory : LoadLocked(v).edits \in Risk(v, d)
         /\ Risk(v, v) = {LoadLocked(v).edits}
<1>1. \A d \in Directory : v \in Left(v, d)
  BY DEF Left
<1>2. ASSUME NEW x \in Left(v, v)
      PROVE  x = v
  <2>1. \A s \in Slots : x[s] = v[s]
    BY DEF Left
  <2> QED
    BY <2>1 DEF Left, Directory
<1> QED
  BY <1>1, <1>2 DEF Risk

\* A load reads the snapshots only.
LEMMA SameSnapshots ==
  ASSUME NEW v, NEW w, \A s \in Slots : Snapshots(v[s]) = Snapshots(w[s])
  PROVE  LoadLocked(v) = LoadLocked(w)
<1>1. Snapshots(v["A"]) = Snapshots(w["A"]) /\ Snapshots(v["B"]) = Snapshots(w["B"])
  BY DEF Slots
<1>2. AllSnapshots(v) = AllSnapshots(w)
  BY <1>1 DEF AllSnapshots
<1>3. ProbeSlot(v["A"]) = ProbeSlot(w["A"]) /\ ProbeSlot(v["B"]) = ProbeSlot(w["B"])
  BY <1>1 DEF ProbeSlot
<1>4. MaxSeen(v) = MaxSeen(w)
  BY <1>2 DEF MaxSeen
<1> QED
  BY <1>2, <1>3, <1>4 DEF LoadLocked

\* A step that loses no snapshot that was in both views, and adds none to
\* either, puts no other graph at risk.
LEMMA RiskShrinks ==
  ASSUME NEW v \in Directory, NEW d \in Directory, NEW v2 \in Directory, NEW d2 \in Directory,
         \A s \in Slots :
           /\ Snapshots(v[s] \cap d[s]) \subseteq v2[s] \cap d2[s]
           /\ Snapshots(v2[s]) \cup Snapshots(d2[s]) \subseteq v[s] \cup d[s]
  PROVE  Risk(v2, d2) \subseteq Risk(v, d)
<1> SUFFICES ASSUME NEW y \in Left(v2, d2)
             PROVE  \E x \in Left(v, d) : LoadLocked(y) = LoadLocked(x)
  BY DEF Risk
<1> DEFINE x == [s \in Slots |-> Snapshots(y[s]) \cup (v[s] \cap d[s])]
<1>1. y \in Directory /\ \A s \in Slots : v2[s] \cap d2[s] \subseteq y[s] /\ y[s] \subseteq v2[s] \cup d2[s]
  BY DEF Left
<1>2. x \in Directory
  BY <1>1 DEF Directory, Snapshots
<1>3. \A s \in Slots : v[s] \cap d[s] \subseteq x[s] /\ x[s] \subseteq v[s] \cup d[s]
  BY <1>1 DEF Snapshots
<1>4. x \in Left(v, d)
  BY <1>2, <1>3 DEF Left
<1>5. \A s \in Slots : Snapshots(y[s]) = Snapshots(x[s])
  BY <1>1 DEF Snapshots
<1> HIDE DEF x
<1> QED
  BY <1>4, <1>5, SameSnapshots

----------------------------------------------------------------------------
(* The newest snapshot decides.                                            *)

\* In an undamaged store the newest snapshot is what a load returns.
LEMMA NewestIsLoaded ==
  ASSUME NEW v \in Directory, NEW d \in Directory, InOrder(v, d), Chain(v, d),
         NEW f \in AllSnapshots(v), \A h \in AllSnapshots(v) : h.gen <= f.gen
  PROVE  LoadLocked(v).edits = f.edits
<1>1. PICK g \in AllSnapshots(v) : /\ LoadLocked(v).edits = g.edits
                                   /\ \A h \in AllSnapshots(v) : h.gen <= g.gen
  BY LoadedIsNewest
<1>2. f.gen <= g.gen /\ g.gen <= f.gen
  BY <1>1
<1>3. f.gen \in Nat /\ g.gen \in Nat
  BY SnapshotsType, MaxGenAssumption
<1>4. f = g
  BY <1>2, <1>3, OneSnapshotPerGeneration DEF Recorded
<1> QED
  BY <1>1, <1>4

\* What a power loss leaves of an undamaged store is an undamaged store with
\* recorded snapshots only.
LEMMA LeftInOrder ==
  ASSUME NEW v \in Directory, NEW d \in Directory, NEW a, Filesystem(v, d, a),
         NEW x \in Left(v, d)
  PROVE  /\ x \in Directory /\ InOrder(x, x) /\ Chain(x, x)
         /\ AllSnapshots(x) \subseteq Recorded(v, d)
<1>1. x \in Directory /\ \A s \in Slots : x[s] \subseteq v[s] \cup d[s] /\ v[s] \cap d[s] \subseteq x[s]
  BY DEF Left
<1>2. Filesystem(x, x, a)
  BY <1>1, PowerLossStep
<1>3. AllSnapshots(x) \subseteq Recorded(v, d)
  BY <1>1 DEF AllSnapshots, Recorded, Snapshots, Slots
<1> QED
  BY <1>1, <1>2, <1>3 DEF Filesystem

\* Once the newest snapshot is in both views, its graph is the only one that a
\* power loss can leave.
LEMMA SettledRisk ==
  ASSUME NEW v \in Directory, NEW d \in Directory, NEW a, Filesystem(v, d, a),
         NEW s \in Slots, NEW f \in Snapshots(v[s]), f \in d[s],
         \A h \in Recorded(v, d) : h.gen <= f.gen
  PROVE  Risk(v, d) = {f.edits} /\ LoadLocked(v).edits = f.edits
<1>1. ASSUME NEW x \in Left(v, d)
      PROVE  LoadLocked(x).edits = f.edits
  <2>1. f \in Snapshots(x[s])
    BY DEF Left, Snapshots
  <2>2. f \in AllSnapshots(x)
    BY <2>1 DEF AllSnapshots, Slots
  <2>3. x \in Directory /\ InOrder(x, x) /\ Chain(x, x) /\ AllSnapshots(x) \subseteq Recorded(v, d)
    BY LeftInOrder
  <2> QED
    BY <2>2, <2>3, NewestIsLoaded
<1>2. v \in Left(v, d)
  BY DEF Left
<1> QED
  BY <1>1, <1>2 DEF Risk

----------------------------------------------------------------------------
(* The invariant.                                                          *)

\* Until its hard link, a commit is going to publish the current graph with one
\* edit more.
Planned ==
  pc \in {"create", "write", "link"} =>
    \E e \in Edits : work.edit = {e} /\ work.edits = Loaded.edits \cup {e}

\* The states the steps of an undamaged store start from.
Undamaged == faults.damage = 0

RInv == TypeOK /\ WorkStarted /\ Sound /\ FailInv /\ Planned /\ Undamaged

LEMMA DamageShows == TypeOK /\ Undamaged' => \A s \in Slots : ~Damage(s)
BY DEF TypeOK, Undamaged, Damage

LEMMA PlannedNext == RInv /\ Undamaged' /\ [Next]_vars => Planned'
<1> SUFFICES ASSUME RInv, Undamaged', [Next]_vars, pc' \in {"create", "write", "link"}
             PROVE  \E e \in Edits : work'.edit = {e} /\ work'.edits = Loaded'.edits \cup {e}
  BY DEF Planned
<1>1. ASSUME NEW p \in Procs, NEW e \in Edits, NEW base, base = Loaded.edits,
             StartCommit(p, e, base)
      PROVE  \E x \in Edits : work'.edit = {x} /\ work'.edits = Loaded'.edits \cup {x}
  <2>1. vis' = vis /\ work'.edit = {e} /\ work'.edits = Loaded.edits \cup {e}
    BY <1>1 DEF StartCommit, fs
  <2>2. Loaded' = Loaded
    BY <2>1 DEF Loaded
  <2> QED
    BY <2>1, <2>2
<1>2. ASSUME NEW p \in Procs, NEW e \in Edits, CommitReplacement(p, e)
      PROVE  \E x \in Edits : work'.edit = {x} /\ work'.edits = Loaded'.edits \cup {x}
  <2>1. token[p].edits = Loaded.edits
    BY <1>2, AcceptedToken DEF CommitReplacement, RInv
  <2> QED
    BY <1>1, <1>2, <2>1 DEF CommitReplacement
<1>3. ASSUME NEW p \in Procs, NEW e \in Edits, CommitDirect(p, e)
      PROVE  \E x \in Edits : work'.edit = {x} /\ work'.edits = Loaded'.edits \cup {x}
  BY <1>1, <1>3 DEF CommitDirect
<1>4. ASSUME work' = work, pc \in {"create", "write", "link"}, Loaded' = Loaded
      PROVE  \E e \in Edits : work'.edit = {e} /\ work'.edits = Loaded'.edits \cup {e}
  BY <1>4 DEF RInv, Planned
<1>5. CASE UNCHANGED vars \/ \E p \in Procs : Read(p) \/ RejectStale(p) \/ ProcessCrash(p)
  <2>1. work' = work /\ vis' = vis /\ pc \in {"create", "write", "link"}
    BY <1>5 DEF vars, Read, RejectStale, ProcessCrash, fs
  <2> QED
    BY <1>4, <2>1 DEF Loaded
<1>6. CASE CreateTemp \/ SyncTemp \/ PrePublicationFailure
  <2>1. work' = work /\ pc \in {"create", "write", "link"}
    BY <1>6 DEF CreateTemp, SyncTemp, PrePublicationFailure, ReturnError
  <2>2. \A s \in Slots : Snapshots(vis'[s]) = Snapshots(vis[s])
    BY <1>6, TemporaryNames DEF RInv
  <2>3. Loaded' = Loaded
    BY <2>2, SameSnapshots DEF Loaded
  <2> QED
    BY <1>4, <2>1, <2>3
<1>7. CASE \/ Publish \/ SyncPublication \/ RemoveTemp \/ ReturnDurable \/ ReturnUncertain
           \/ ConfirmSync \/ ConfirmFail \/ ConfirmReturn \/ PowerLoss
           \/ \E p \in Procs : ConfirmBegin(p)
  BY <1>7 DEF Publish, SyncPublication, RemoveTemp, ReturnDurable, ReturnUncertain, ReturnRevision,
              ConfirmSync, ConfirmFail, ConfirmReturn, PowerLoss, ConfirmBegin
<1>8. \A s \in Slots : ~Damage(s)
  BY DamageShows DEF RInv
<1> QED
  BY <1>2, <1>3, <1>5, <1>6, <1>7, <1>8 DEF Next, Operation

----------------------------------------------------------------------------
(* The steps of the store under the mapping.                               *)

\* Steps that keep the snapshots of both views.
LEMMA QuietStutters ==
  ASSUME TypeOK, TypeOK',
         \A s \in Slots : /\ Snapshots(vis'[s]) = Snapshots(vis[s])
                          /\ Snapshots(dur'[s]) = Snapshots(dur[s])
  PROVE  Loaded' = Loaded /\ AtRisk' = AtRisk
<1>1. Loaded' = Loaded
  BY SameSnapshots DEF Loaded
<1>2. \A s \in Slots :
        /\ Snapshots(vis[s] \cap dur[s]) \subseteq vis'[s] \cap dur'[s]
        /\ Snapshots(vis'[s] \cap dur'[s]) \subseteq vis[s] \cap dur[s]
        /\ Snapshots(vis[s]) \cup Snapshots(dur[s]) \subseteq vis'[s] \cup dur'[s]
        /\ Snapshots(vis'[s]) \cup Snapshots(dur'[s]) \subseteq vis[s] \cup dur[s]
  BY DEF Snapshots
<1>3. vis \in Directory /\ dur \in Directory /\ vis' \in Directory /\ dur' \in Directory
  BY DEF TypeOK
<1>4. Risk(vis', dur') \subseteq Risk(vis, dur) /\ Risk(vis, dur) \subseteq Risk(vis', dur')
  BY <1>2, <1>3, RiskShrinks
<1> QED
  BY <1>1, <1>4, RiskIsAtRisk, RiskIsAtRiskNext

\* A directory sync rules out what it has settled.
LEMMA SyncSettles ==
  ASSUME TypeOK, TypeOK', SyncPublication \/ RemoveTemp \/ ConfirmSync
  PROVE  /\ Loaded' = Loaded /\ acked' = acked
         /\ AtRisk' \subseteq AtRisk /\ Loaded.edits \in AtRisk'
<1>w. WorkSlot \in Slots /\ Other(WorkSlot) \in Slots
  BY DEF WorkSlot, ForGeneration, Other, Slots
<1>1. \A s \in Slots : Snapshots(vis'[s]) = Snapshots(vis[s])
  BY TemporaryNames DEF SyncPublication, ConfirmSync
<1>2. \A s \in Slots : dur'[s] = dur[s] \/ dur'[s] = vis'[s]
  <2>1. \/ dur' = dur
        \/ \E s \in {WorkSlot, Other(WorkSlot)} : dur' = [dur EXCEPT ![s] = vis'[s]]
    BY DEF SyncPublication, RemoveTemp, ConfirmSync, SyncBestEffort, SyncOk
  <2> QED
    BY <1>w, <2>1 DEF TypeOK, Directory
<1>3. Loaded' = Loaded
  BY <1>1, SameSnapshots DEF Loaded
<1>4. vis \in Directory /\ dur \in Directory /\ vis' \in Directory /\ dur' \in Directory
  BY DEF TypeOK
<1>5. \A s \in Slots :
        /\ Snapshots(vis[s] \cap dur[s]) \subseteq vis'[s] \cap dur'[s]
        /\ Snapshots(vis'[s]) \cup Snapshots(dur'[s]) \subseteq vis[s] \cup dur[s]
  BY <1>1, <1>2 DEF Snapshots
<1>6. Risk(vis', dur') \subseteq Risk(vis, dur)
  BY <1>4, <1>5, RiskShrinks
<1>7. LoadLocked(vis').edits \in Risk(vis', dur')
  BY <1>4, NothingLost
<1>8. AtRisk' \subseteq AtRisk /\ Loaded'.edits \in AtRisk'
  BY <1>6, <1>7, RiskIsAtRisk, RiskIsAtRiskNext DEF Loaded
<1>9. acked' = acked
  BY DEF SyncPublication, RemoveTemp, ConfirmSync, ghosts
<1> QED
  BY <1>3, <1>8, <1>9

\* The hard link makes the commit's graph current, and leaves the graphs that
\* were at risk at risk.
LEMMA LinkPublishes ==
  ASSUME RInv, TypeOK', Sound', Publish
  PROVE  /\ \E e \in Edits \ Loaded.edits : Loaded'.edits = Loaded.edits \cup {e}
         /\ AtRisk' = AtRisk \cup {Loaded'.edits}
         /\ acked' = acked
<1>w. WorkSlot \in Slots
  BY DEF WorkSlot, ForGeneration, Slots
<1>1. /\ pc = "link" /\ dur' = dur /\ acked' = acked
      /\ vis'[WorkSlot] = vis[WorkSlot] \cup {FinalEntry}
      /\ \A s \in Slots \ {WorkSlot} : vis'[s] = vis[s]
  BY <1>w DEF Publish, ghosts, RInv, TypeOK, Directory
<1>2. /\ FinalEntry.kind = "snapshot" /\ FinalEntry.gen = work.gen
      /\ FinalEntry.edits = work.edits /\ work.gen \in Nat
  BY DEF FinalEntry, RInv, TypeOK
<1>3. /\ vis \in Directory /\ dur \in Directory /\ vis' \in Directory
      /\ Filesystem(vis', dur, acked)
  BY <1>1 DEF RInv, TypeOK, Sound
<1> HIDE DEF FinalEntry
<1>4. \A h \in Recorded(vis, dur) : h.gen \in Nat /\ h.gen < work.gen
  BY <1>1, <1>3, SnapshotsType DEF RInv, Sound, BeforePublication, Recorded
<1>5. \A h \in Recorded(vis', dur) : h \in Recorded(vis, dur) \/ h = FinalEntry
  BY <1>w, <1>1 DEF Recorded, AllSnapshots, Snapshots, Slots
<1>6. \A h \in Recorded(vis', dur) : h.gen <= FinalEntry.gen
  BY <1>2, <1>4, <1>5
<1>7. FinalEntry \in Snapshots(vis'[WorkSlot]) /\ FinalEntry \notin dur[WorkSlot]
  <2>1. FinalEntry \notin Recorded(vis, dur)
    BY <1>2, <1>4
  <2> QED
    BY <1>w, <1>1, <1>2, <2>1 DEF Recorded, AllSnapshots, Snapshots, Slots
\* What is left with the new snapshot is its graph, and without it the same as before.
<1>8. ASSUME NEW x \in Left(vis', dur), FinalEntry \in x[WorkSlot]
      PROVE  LoadLocked(x).edits = work.edits
  <2>1. x \in Directory /\ InOrder(x, x) /\ Chain(x, x) /\ AllSnapshots(x) \subseteq Recorded(vis', dur)
    BY <1>3, LeftInOrder
  <2>2. FinalEntry \in AllSnapshots(x)
    BY <1>w, <1>2, <1>8 DEF AllSnapshots, Snapshots, Slots
  <2> QED
    BY <1>2, <1>6, <2>1, <2>2, NewestIsLoaded
<1>9. ASSUME NEW x \in Left(vis', dur), FinalEntry \notin x[WorkSlot]
      PROVE  x \in Left(vis, dur)
  BY <1>w, <1>1, <1>9 DEF Left
<1>10. Left(vis, dur) \subseteq Left(vis', dur)
  BY <1>w, <1>1, <1>7 DEF Left
<1>11. vis' \in Left(vis', dur) /\ FinalEntry \in vis'[WorkSlot]
  BY <1>1, <1>3 DEF Left
<1>12. Loaded'.edits = work.edits
  BY <1>8, <1>11 DEF Loaded
<1>13. Risk(vis', dur) = Risk(vis, dur) \cup {work.edits}
  <2>1. Risk(vis', dur) \subseteq Risk(vis, dur) \cup {work.edits}
    BY <1>8, <1>9 DEF Risk
  <2>2. Risk(vis, dur) \subseteq Risk(vis', dur)
    BY <1>10 DEF Risk
  <2>3. work.edits \in Risk(vis', dur)
    BY <1>8, <1>11 DEF Risk
  <2> QED
    BY <2>1, <2>2, <2>3
<1>14. AtRisk' = AtRisk \cup {Loaded'.edits}
  BY <1>1, <1>12, <1>13, RiskIsAtRisk, RiskIsAtRiskNext DEF RInv
<1>15. PICK e \in Edits : work.edit = {e} /\ work.edits = Loaded.edits \cup {e}
  BY <1>1 DEF RInv, Planned
<1>16. e \notin Loaded.edits
  BY <1>1, <1>15, LoadedIsHeld DEF RInv, FailInv
<1> QED
  BY <1>1, <1>12, <1>14, <1>15, <1>16

\* A power loss leaves one of the graphs at risk, settled.
LEMMA PowerLossChooses ==
  ASSUME TypeOK, TypeOK', PowerLoss
  PROVE  Loaded'.edits \in AtRisk /\ AtRisk' = {Loaded'.edits} /\ acked' = acked
<1>1. vis \in Directory /\ dur \in Directory /\ vis' \in Directory
  BY DEF TypeOK
<1>2. \E a \in Outcomes(vis["A"], dur["A"]), b \in Outcomes(vis["B"], dur["B"]) : vis' = Both(a, b)
  BY DEF PowerLoss, Both
<1>3. vis' \in Left(vis, dur)
  BY <1>1, <1>2, LeftBehind
<1>4. LoadLocked(vis').edits \in Risk(vis, dur)
  BY <1>3 DEF Risk
<1>5. dur' = vis' /\ acked' = acked
  BY DEF PowerLoss, ghosts
<1>6. Risk(vis', dur') = {LoadLocked(vis').edits}
  BY <1>1, <1>5, NothingLost
<1> QED
  BY <1>4, <1>5, <1>6, RiskIsAtRisk, RiskIsAtRiskNext DEF Loaded

\* Compaction acknowledges a graph that is current, and alone at risk, before
\* and after.
LEMMA CompactionAcknowledges ==
  ASSUME RInv, TypeOK', Sound', ReturnDurable
  PROVE  /\ AtRisk = {Loaded.edits} /\ acked' = acked \cup Loaded.edits
         /\ Loaded'.edits = Loaded.edits /\ AtRisk' = AtRisk
<1>w. WorkSlot \in Slots
  BY DEF WorkSlot, ForGeneration, Slots
<1>1. pc = "compact" /\ acked' = acked \cup work.edits
  BY DEF ReturnDurable
<1>2. PICK gone \in SUBSET Compactable(vis[WorkSlot], work.gen) :
        /\ vis' = [vis EXCEPT ![WorkSlot] = @ \ gone]
        /\ dur' = dur \/ dur' = [dur EXCEPT ![WorkSlot] = vis'[WorkSlot]]
  BY DEF ReturnDurable, SyncBestEffort, SyncOk
<1>3. /\ vis'[WorkSlot] = vis[WorkSlot] \ gone
      /\ \A s \in Slots \ {WorkSlot} : vis'[s] = vis[s]
      /\ \A s \in Slots : dur'[s] = dur[s] \/ dur'[s] = vis'[s]
  BY <1>w, <1>2 DEF RInv, TypeOK, Directory
<1>4. /\ FinalEntry.kind = "snapshot" /\ FinalEntry.gen = work.gen
      /\ FinalEntry.edits = work.edits /\ work.gen \in Nat
  BY DEF FinalEntry, RInv, TypeOK
<1>5. /\ FinalEntry \in vis[WorkSlot] /\ FinalEntry \in dur[WorkSlot]
      /\ \A h \in Recorded(vis, dur) : h.gen <= work.gen
  BY <1>1 DEF RInv, Sound, AfterPublication
<1> HIDE DEF FinalEntry
<1>6. FinalEntry \notin gone
  BY <1>4 DEF Compactable
<1>7. FinalEntry \in vis'[WorkSlot] /\ FinalEntry \in dur'[WorkSlot]
  BY <1>w, <1>3, <1>5, <1>6
<1>8. \A s \in Slots : vis'[s] \subseteq vis[s]
  BY <1>3
<1>9. Recorded(vis', dur') \subseteq Recorded(vis, dur)
  BY <1>3, <1>8 DEF Recorded, AllSnapshots, Snapshots, Slots
<1>10. /\ vis \in Directory /\ dur \in Directory /\ Filesystem(vis, dur, acked)
       /\ vis' \in Directory /\ dur' \in Directory /\ Filesystem(vis', dur', acked')
  BY DEF RInv, TypeOK, Sound
<1>11. Risk(vis, dur) = {work.edits} /\ LoadLocked(vis).edits = work.edits
  <2>1. FinalEntry \in Snapshots(vis[WorkSlot])
    BY <1>4, <1>5 DEF Snapshots
  <2> QED
    BY <1>w, <1>4, <1>5, <1>10, <2>1, SettledRisk
<1>12. Risk(vis', dur') = {work.edits} /\ LoadLocked(vis').edits = work.edits
  <2>1. FinalEntry \in Snapshots(vis'[WorkSlot])
    BY <1>4, <1>7 DEF Snapshots
  <2>2. \A h \in Recorded(vis', dur') : h.gen <= FinalEntry.gen
    BY <1>4, <1>5, <1>9
  <2> QED
    BY <1>w, <1>4, <1>7, <1>10, <2>1, <2>2, SettledRisk
<1> QED
  BY <1>1, <1>11, <1>12, RiskIsAtRisk, RiskIsAtRiskNext DEF Loaded, RInv

\* A confirmation that has synced both slots acknowledges what it has reloaded.
LEMMA ConfirmationAcknowledges ==
  ASSUME RInv, TypeOK', ConfirmReturn
  PROVE  /\ AtRisk = {Loaded.edits} /\ acked' = acked \cup Loaded.edits
         /\ Loaded'.edits = Loaded.edits /\ AtRisk' = AtRisk
<1>1. /\ pc = "confirmReload" /\ acked' = acked \cup work.edits /\ vis' = vis /\ dur' = dur
      /\ Loaded.gen = work.gen /\ Loaded.edits = work.edits
  BY DEF ConfirmReturn, Committed, fs
<1>2. dur[WorkSlot] = vis[WorkSlot] /\ WorkSlot \in Slots
  BY <1>1 DEF RInv, Sound, Confirming, WorkSlot, ForGeneration, Slots
<1>3. vis \in Directory /\ dur \in Directory /\ Filesystem(vis, dur, acked)
  BY DEF RInv, TypeOK, Sound
<1>4. InOrder(vis, dur) /\ Chain(vis, dur) /\ VisibleIsNewest(vis, dur)
  BY <1>3 DEF Filesystem
<1>5. Risk(vis, dur) = {Loaded.edits}
  <2>1. CASE AllSnapshots(vis) = {}
    <3>1. Loaded.edits = {}
      BY <1>3, <1>4, <2>1, LoadedIsNewest DEF Loaded
    <3>2. Recorded(vis, dur) = {}
      BY <1>4, <2>1 DEF VisibleIsNewest, Recorded
    <3>3. ASSUME NEW x \in Left(vis, dur)
          PROVE  LoadLocked(x).edits = {}
      <4>1. x \in Directory /\ InOrder(x, x) /\ Chain(x, x) /\ AllSnapshots(x) = {}
        BY <1>3, <3>2, LeftInOrder
      <4> QED
        BY <4>1, LoadedIsNewest
    <3>4. vis \in Left(vis, dur)
      BY <1>3 DEF Left
    <3> QED
      BY <3>1, <3>3, <3>4 DEF Risk
  <2>2. CASE AllSnapshots(vis) # {}
    <3>1. PICK f \in AllSnapshots(vis) : Loaded.gen = f.gen /\ Loaded.edits = f.edits
      BY <1>3, <1>4, <2>2, LoadedIsNewest DEF Loaded
    <3>2. PICK s \in Slots : f \in Snapshots(vis[s])
      BY DEF AllSnapshots, Slots
    <3>3. s = WorkSlot
      BY <1>1, <1>4, <3>1, <3>2 DEF InOrder, WorkSlot
    <3>4. f \in dur[s]
      BY <1>2, <3>2, <3>3 DEF Snapshots
    <3>5. \A h \in Recorded(vis, dur) : h.gen <= f.gen
      BY <1>3, <1>4, <3>1, LoadedCoversRecorded DEF Loaded
    <3> QED
      BY <1>3, <3>1, <3>2, <3>4, <3>5, SettledRisk
  <2> QED
    BY <2>1, <2>2
<1>6. Risk(vis', dur') = Risk(vis, dur)
  BY <1>1
<1>7. Loaded' = Loaded
  BY <1>1 DEF Loaded
<1> QED
  BY <1>1, <1>5, <1>6, <1>7, RiskIsAtRisk, RiskIsAtRiskNext DEF RInv

----------------------------------------------------------------------------
(* The implementation.                                                     *)

LEMMA InitPromises == Init => Promise!VInit
<1> SUFFICES ASSUME Init PROVE Promise!VInit
  OBVIOUS
<1>1. /\ vis \in Directory /\ dur = vis /\ acked = {}
      /\ AllSnapshots(vis) = {}
  BY DEF Init, Directory, AllSnapshots, Snapshots, Slots
<1>2. Loaded.edits = {}
  BY <1>1 DEF Loaded, LoadLocked
<1>3. AtRisk = {{}}
  BY <1>1, <1>2, TypeInit, RiskIsAtRisk, NothingLost DEF Loaded
<1> QED
  BY <1>1, <1>2, <1>3 DEF Promise!VInit

LEMMA StepPromises ==
  ASSUME ~SyncTolerated
  PROVE  RInv /\ RInv' /\ [Next]_vars => [Promise!VNext]_(Promise!vvars)
<1> SUFFICES ASSUME RInv, RInv', [Next]_vars PROVE [Promise!VNext]_(Promise!vvars)
  OBVIOUS
<1>t. TypeOK /\ TypeOK' /\ Sound'
  BY DEF RInv
\* Steps that are none of DurableVault.
<1>q. ASSUME acked' = acked, Loaded' = Loaded, AtRisk' = AtRisk
      PROVE  UNCHANGED Promise!vvars
  BY <1>q DEF Promise!vvars
<1>1. CASE \/ UNCHANGED vars
           \/ \E p \in Procs : \/ Read(p) \/ RejectStale(p) \/ ConfirmBegin(p) \/ ProcessCrash(p)
                               \/ \E e \in Edits : CommitReplacement(p, e) \/ CommitDirect(p, e)
           \/ ReturnUncertain \/ ConfirmFail
  <2>1. vis' = vis /\ dur' = dur /\ acked' = acked
    BY <1>1 DEF vars, Read, RejectStale, ConfirmBegin, ProcessCrash, CommitReplacement, CommitDirect,
                StartCommit, ReturnUncertain, ReturnRevision, ConfirmFail, fs, ghosts
  <2>2. Loaded' = Loaded /\ AtRisk' = AtRisk
    BY <1>t, <2>1, QuietStutters
  <2> QED
    BY <1>q, <2>1, <2>2
<1>2. CASE CreateTemp \/ SyncTemp \/ PrePublicationFailure
  <2>1. \A s \in Slots : Snapshots(vis'[s]) = Snapshots(vis[s])
    BY <1>t, <1>2, TemporaryNames
  <2>2. dur' = dur /\ acked' = acked
    BY <1>2 DEF CreateTemp, SyncTemp, PrePublicationFailure, ReturnError, ghosts
  <2>3. Loaded' = Loaded /\ AtRisk' = AtRisk
    BY <1>t, <2>1, <2>2, QuietStutters
  <2> QED
    BY <1>q, <2>2, <2>3
<1>3. CASE Publish
  BY <1>3, <1>t, LinkPublishes DEF Promise!VNext, Promise!VPublish
<1>4. CASE SyncPublication \/ RemoveTemp \/ ConfirmSync
  BY <1>4, <1>t, SyncSettles DEF Promise!VNext, Promise!VSettle
<1>5. CASE ReturnDurable
  BY <1>5, <1>t, CompactionAcknowledges DEF Promise!VNext, Promise!VAcknowledge
<1>6. CASE ConfirmReturn
  BY <1>6, <1>t, ConfirmationAcknowledges DEF Promise!VNext, Promise!VAcknowledge
<1>7. CASE PowerLoss
  BY <1>7, <1>t, PowerLossChooses DEF Promise!VNext, Promise!VPowerLoss
<1>8. \A s \in Slots : ~Damage(s)
  BY DamageShows DEF RInv
<1> QED
  BY <1>1, <1>2, <1>3, <1>4, <1>5, <1>6, <1>7, <1>8 DEF Next, Operation

LEMMA RInvInit == Init => RInv
<1>1. Init => Sound
  BY InvInit DEF Inv, Init, NoFaults
<1>2. Init => FailInv
  BY DEF Init, FailInv, Held, Recorded, AllSnapshots, Snapshots, Slots, NoToken
<1>3. Init => Planned /\ Undamaged
  BY DEF Init, Planned, Undamaged, NoFaults
<1> QED
  BY <1>1, <1>2, <1>3, TypeInit DEF RInv

LEMMA RInvNext ==
  ASSUME ~SyncTolerated
  PROVE  RInv /\ Undamaged' /\ [Next]_vars => RInv'
<1> SUFFICES ASSUME RInv, Undamaged', [Next]_vars PROVE RInv'
  OBVIOUS
<1>1. TypeOK' /\ WorkStarted'
  BY TypeNext DEF RInv
<1>2. Inv'
  BY <1>1, InvNext DEF RInv, Inv
<1>3. Sound'
  BY <1>2 DEF Inv, Undamaged
<1>4. FailInv'
  BY <1>1, FailNext DEF RInv
<1> QED
  BY <1>1, <1>3, <1>4, PlannedNext DEF RInv

\* The Vault store implements DurableVault: whatever clients, crashes, failed
\* syncs and power losses do, as long as no snapshot becomes unreadable, its
\* clients see one graph that grows by whole commits, goes back in a power loss
\* to a graph that was at risk, and never behind what commit_locked or
\* confirm_current_snapshot_durability reported as durable.
THEOREM StoreImplementsDurableVault ==
  ASSUME ~SyncTolerated
  PROVE  Spec /\ []Undamaged => ImplementsDurableVault
<1>1. Init => RInv
  BY RInvInit
<1>2. RInv /\ Undamaged' /\ [Next]_vars => RInv'
  BY RInvNext
<1>3. Spec /\ []Undamaged => []RInv
  BY <1>1, <1>2, PTL DEF Spec
<1>4. Init => Promise!VInit
  BY InitPromises
<1>5. RInv /\ RInv' /\ [Next]_vars => [Promise!VNext]_(Promise!vvars)
  BY StepPromises
<1> QED
  BY <1>3, <1>4, <1>5, PTL DEF Spec, ImplementsDurableVault, Promise!VSpec

\* The promise is worth having: what it lets be acknowledged is in every graph a
\* power loss may leave.
LEMMA PromiseIsSafe == Promise!VSpec => []Promise!AckedIsSafe
<1> DEFINE Safe == Loaded.edits \in AtRisk /\ Promise!AckedIsSafe
<1>1. Promise!VInit => Safe
  BY DEF Promise!VInit, Promise!AckedIsSafe
<1>2. Safe /\ [Promise!VNext]_(Promise!vvars) => Safe'
  <2> SUFFICES ASSUME Safe, [Promise!VNext]_(Promise!vvars)
               PROVE  Safe'
    OBVIOUS
  <2>1. CASE Promise!VPublish
    <3>1. acked \subseteq Loaded'.edits
      BY <2>1 DEF Promise!VPublish, Promise!AckedIsSafe
    <3> QED
      BY <2>1, <3>1 DEF Promise!VPublish, Promise!AckedIsSafe
  <2>2. CASE Promise!VSettle
    BY <2>2 DEF Promise!VSettle, Promise!AckedIsSafe
  <2>3. CASE Promise!VAcknowledge
    BY <2>3 DEF Promise!VAcknowledge, Promise!AckedIsSafe
  <2>4. CASE Promise!VPowerLoss
    BY <2>4 DEF Promise!VPowerLoss, Promise!AckedIsSafe
  <2>5. CASE UNCHANGED Promise!vvars
    BY <2>5 DEF Promise!vvars, Promise!AckedIsSafe
  <2> QED
    BY <2>1, <2>2, <2>3, <2>4, <2>5 DEF Promise!VNext
<1>3. Safe => Promise!AckedIsSafe
  OBVIOUS
<1> QED
  BY <1>1, <1>2, <1>3, PTL DEF Promise!VSpec

\* What a commit or confirm_current_snapshot_durability has reported as durable is
\* in the graph that a load selects now and after any power loss.
THEOREM AcknowledgedIsAtNoRisk ==
  ASSUME ~SyncTolerated
  PROVE  Spec /\ []Undamaged => []Promise!AckedIsSafe
<1>1. Spec /\ []Undamaged => Promise!VSpec
  BY StoreImplementsDurableVault DEF ImplementsDurableVault
<1> QED
  BY <1>1, PromiseIsSafe, PTL
=============================================================================
