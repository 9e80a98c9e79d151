------------------------ MODULE TransferSchedulerProofs ------------------------
(***************************************************************************)
(* Proofs about TransferScheduler, for any single transfers, any manifest  *)
(* of a directory, any paths and callers, any number of requests and       *)
(* slots, and a queue of any size.  What one part does is safe because of  *)
(* what the others keep: a task writes because its reservation is still in *)
(* the map, the map is free of conflicts, the queue holds each command     *)
(* once, and the directory's task knows each child that may still run; a   *)
(* checkpoint is right because every entry before it is complete, and      *)
(* every entry that is not is waited for or has left a mark.               *)
(***************************************************************************)
EXTENDS TransferScheduler, TLAPS, FiniteSetTheorems, SequenceTheorems, WellFoundedInduction

-----------------------------------------------------------------------------
(* The inductive invariant, in named parts.                                *)

Stages == Over \cup Holding \cup {"reserved", "queued", "waiting", "acquiring", "refused"}
Events == {"Completed", "Cancelled", "Failed"}

\* The stages of a task that has not reported.
Running == {"waiting", "acquiring", "refused"} \cup (Holding \ {"reported"})

\* The places of the directory's task before its loop, in the loop, and after it.
Before == {"scanning", "directories", "creating"}
Looping == {"loop", "entry", "begin", "submit"}
After == {"leaving", "joining"}
Pcs == {"none", "reported", "over"} \cup Before \cup Looping \cup After

DirType ==
  [pc : Pcs, next : 1 .. Len(Files) + 1, active : SUBSET Children,
   completed : SUBSET (1 .. Len(Files)), checkpoint : 0 .. Len(Files),
   failed : BOOLEAN, stop : BOOLEAN]

RequestKinds == {"none", "pause", "resume", "cancel", "collect", "cancelAll"}

Types ==
  /\ reserved \subseteq Transfers
  /\ path = [t \in Transfers |-> path[t]]
  /\ stage \in [FileTransfers -> Stages]
  /\ outcome \in [Transfers -> {<<>>} \cup {<<e>> : e \in Events}]
  /\ promoted \cup workspace \subseteq FileTransfers
  /\ noted \cup paused \cup cancelled \subseteq Transfers
  /\ session \in {"live", "cancelled", "ended"}
  /\ worker \in {"running", "stopping", "gone", "removed"}
  /\ request \in [Clients -> [kind : RequestKinds, left : SUBSET Transfers]]
  /\ dir \in DirType

\* Two reservations do not conflict, unless one is the directory of the other.
Apart(t, u) ==
  Parent(t, u) \/ Parent(u, t) \/ ~SameEndpoint(t, u)
    \/ ~Conflict(path[t], t = Root, path[u], u = Root)

\* A transfer keeps its reservation until it has reported.
Reservations ==
  /\ \A t \in FileTransfers :
       /\ stage[t] \in Running \cup {"reserved", "queued"} => t \in reserved
       /\ stage[t] \in {"none", "rejected"} => t \notin reserved
  /\ Root \in reserved <=> dir.pc \notin {"none", "over"}
  /\ path[Root] = RootPath
  /\ \A t, u \in reserved : t # u => Apart(t, u)

\* The commands in the queue are those of different transfers that wait for the worker.
Queued ==
  /\ queue \in Seq(FileTransfers) /\ Len(queue) <= QueueSize
  /\ \A i \in 1 .. Len(queue) : stage[queue[i]] = "queued"
  /\ \A i, j \in 1 .. Len(queue) : queue[i] = queue[j] => i = j

\* What a transfer has reported, and its file and workspace.
Results ==
  \A t \in FileTransfers :
    /\ outcome[t] # <<>> <=> stage[t] \in {"reported", "over"}
    /\ t \in promoted => stage[t] \in {"promoted", "reported", "over"}
    /\ stage[t] = "promoted" \/ outcome[t] = <<"Completed">> => t \in promoted
    /\ outcome[t] = <<"Cancelled">> => t \notin promoted
    /\ t \in workspace =>
         /\ stage[t] \notin {"none", "rejected"}
         /\ \/ outcome[t] \in {<<>>, <<"Failed">>}
            \/ outcome[t] = <<"Cancelled">> /\ t \in noted /\ t \in Singles

SlotHolders == {t \in FileTransfers : stage[t] \in Holding}
SlotsHeld == Cardinality(SlotHolders) <= Slots

Done == 1 .. dir.next - 1
Quiet == Over \cup {"reported"}

\* The children that run are those the directory's task waits for.
ChildrenKnown ==
  /\ dir.active \subseteq {Files[n] : n \in Done}
  /\ dir.pc \notin Looping \cup After => dir.active = {}
  /\ \A n \in 1 .. Len(Files) :
       (n > dir.next \/ (n = dir.next /\ dir.pc # "submit")) => stage[Files[n]] = "none"
  /\ \A n \in 1 .. Len(Files) :
       \/ stage[Files[n]] \in Quiet
       \/ Files[n] \in dir.active
       \/ dir.pc = "submit" /\ n = dir.next

\* The checkpoint is the longest prefix of the entries that are complete.
EntriesKnown ==
  /\ dir.pc \in {"none", "scanning"} => dir.next = 1
  /\ dir.pc \in {"entry", "begin", "submit"} => dir.next <= Len(Files)
  /\ dir.completed \subseteq Done
  /\ 1 .. dir.checkpoint \subseteq dir.completed /\ dir.checkpoint + 1 \notin dir.completed
  /\ \A n \in dir.completed :
       stage[Files[n]] = "none" \/ outcome[Files[n]] = <<"Completed">>

\* Every other entry has left its mark.
MarksLeft ==
  /\ Root \in cancelled \/ dir.failed \/ dir.stop
       \/ \A n \in Done : n \in dir.completed \/ Files[n] \in dir.active
  /\ dir.pc \in After =>
       Root \in cancelled \/ (dir.active = {} /\ (dir.stop \/ dir.next = Len(Files) + 1))
  /\ outcome[Root] # <<>> <=> dir.pc \in {"reported", "over"}
  /\ outcome[Root] = <<"Completed">> => dir.checkpoint = Len(Files)

SchedulerInv ==
  Types /\ Reservations /\ Queued /\ Results /\ SlotsHeld
    /\ ChildrenKnown /\ EntriesKnown /\ MarksLeft

-----------------------------------------------------------------------------
(* The manifest, and what a step keeps that leaves a part of the state     *)
(* alone.                                                                  *)

\* The children are the entries of the manifest, each of them once.
LEMMA Manifest ==
  ASSUME SchedulerAssumption
  PROVE  /\ Len(Files) \in Nat /\ DOMAIN Files = 1 .. Len(Files)
         /\ \A n \in 1 .. Len(Files) : Files[n] \in Children
         /\ \A c \in Children : \E n \in 1 .. Len(Files) : Files[n] = c
         /\ \A m, n \in 1 .. Len(Files) : Files[m] = Files[n] => m = n
         /\ Root \notin FileTransfers /\ Singles \cap Children = {}
         /\ IsFiniteSet(FileTransfers)
<1>1. Files \in [1 .. Len(Files) -> Children] /\ Len(Files) \in Nat
  BY DEF SchedulerAssumption
<1>2. Children = {Files[n] : n \in 1 .. Len(Files)}
  BY <1>1 DEF Children, Range
<1>3. IsFiniteSet(Children)
  <2>1. Files \in Surjection(1 .. Len(Files), Children)
    BY <1>1, <1>2 DEF Surjection
  <2> QED
    BY <1>1, <2>1, FS_Surjection, FS_Interval
<1>4. IsFiniteSet(FileTransfers)
  BY <1>3, FS_Union DEF FileTransfers, SchedulerAssumption
<1> QED
  BY <1>1, <1>2, <1>4 DEF SchedulerAssumption, IsInjective

\* A slot that is not taken again is not missed.
LEMMA SlotsKept ==
  ASSUME SchedulerAssumption, SlotsHeld, SlotHolders' \subseteq SlotHolders
  PROVE  SlotsHeld'
<1>1. IsFiniteSet(SlotHolders) /\ IsFiniteSet(SlotHolders')
  BY Manifest, FS_Subset DEF SlotHolders
<1>2. Cardinality(SlotHolders') <= Cardinality(SlotHolders)
  BY <1>1, FS_Subset
<1> QED
  BY <1>1, <1>2, FS_CardinalityType DEF SlotsHeld, SchedulerAssumption

\* A slot that is free may be taken.
LEMMA SlotTaken ==
  ASSUME SchedulerAssumption, FreeSlot, NEW t, SlotHolders' \subseteq SlotHolders \cup {t}
  PROVE  SlotsHeld'
<1>1. IsFiniteSet(SlotHolders) /\ IsFiniteSet(SlotHolders \cup {t})
  BY Manifest, FS_Subset, FS_AddElement DEF SlotHolders
<1>2. Cardinality(SlotHolders') <= Cardinality(SlotHolders \cup {t})
  BY <1>1, FS_Subset
<1>3. Cardinality(SlotHolders \cup {t}) <= Cardinality(SlotHolders) + 1
  BY <1>1, FS_AddElement, FS_CardinalityType
<1>4. Cardinality(SlotHolders) < Slots
  BY DEF FreeSlot, SlotHolders
<1>5. IsFiniteSet(SlotHolders')
  BY <1>1, FS_Subset
<1> QED
  BY <1>1, <1>2, <1>3, <1>4, <1>5, FS_CardinalityType DEF SlotsHeld, SchedulerAssumption

\* Reservations stay as they are while nobody reserves or forgets.
LEMMA ReservationsKept ==
  ASSUME Reservations, UNCHANGED <<reserved, path>>,
         dir'.pc \in {"none", "over"} <=> dir.pc \in {"none", "over"},
         \A t \in FileTransfers :
           /\ stage'[t] \in Running \cup {"reserved", "queued"} => t \in reserved
           /\ stage'[t] \in {"none", "rejected"} => t \notin reserved
  PROVE  Reservations'
BY DEF Reservations, Apart, Conflict

\* The queue stays as it is while its transfers wait.
LEMMA QueueKept ==
  ASSUME Queued, queue' = queue,
         \A t \in FileTransfers : stage[t] = "queued" => stage'[t] = "queued"
  PROVE  Queued'
<1>1. \A i \in 1 .. Len(queue) : queue[i] \in FileTransfers
  BY DEF Queued
<1> QED
  BY <1>1 DEF Queued

\* What the directory's task knows of its children stays true while they run and report.
LEMMA DirectoryKept ==
  ASSUME SchedulerAssumption, Types, ChildrenKnown, EntriesKnown, MarksLeft,
         dir' = dir, cancelled \subseteq cancelled', outcome'[Root] = outcome[Root],
         \A c \in Children :
           /\ stage'[c] = "none" <=> stage[c] = "none"
           /\ stage[c] \in Quiet => stage'[c] \in Quiet
           /\ outcome[c] = <<"Completed">> => outcome'[c] = outcome[c]
  PROVE  ChildrenKnown' /\ EntriesKnown' /\ MarksLeft'
<1>1. \A n \in 1 .. Len(Files) : Files[n] \in Children
  BY Manifest
<1>2. ChildrenKnown'
  BY <1>1 DEF ChildrenKnown, Done
<1>3. EntriesKnown'
  BY <1>1 DEF EntriesKnown, Types, DirType, Done
<1>4. MarksLeft'
  BY DEF MarksLeft, Done
<1> QED
  BY <1>2, <1>3, <1>4

-----------------------------------------------------------------------------
(* The tasks of file transfers.                                            *)

\* A task that goes on to another of its stages keeps the invariant.
LEMMA TaskMoves ==
  ASSUME SchedulerAssumption, SchedulerInv, NEW t \in FileTransfers, NEW s \in Running,
         stage[t] \in Running \ {"promoted"}, stage' = [stage EXCEPT ![t] = s],
         s \in Holding => stage[t] \in Holding \/ FreeSlot,
         promoted' = IF s = "promoted" THEN promoted \cup {t} ELSE promoted,
         noted \subseteq noted', noted' \subseteq Transfers,
         cancelled \subseteq cancelled', cancelled' \subseteq Transfers,
         UNCHANGED <<reserved, path, outcome, workspace, paused, session, worker, queue,
                     request, dir>>
  PROVE  SchedulerInv'
<1>0. /\ Types /\ Reservations /\ Queued /\ Results /\ SlotsHeld
      /\ ChildrenKnown /\ EntriesKnown /\ MarksLeft
  BY DEF SchedulerInv
<1>1. s \in Stages /\ s \notin Over \cup {"reported", "reserved", "queued"}
      /\ stage[t] \notin Over \cup {"reported", "reserved", "queued"}
  BY DEF Running, Stages, Over, Holding, Writing
<1>2. /\ stage \in [FileTransfers -> Stages]
      /\ stage'[t] = s
      /\ \A u \in FileTransfers \ {t} : stage'[u] = stage[u]
  BY <1>0 DEF Types
<1>3. Types'
  BY <1>0, <1>1 DEF Types
<1>4. Reservations'
  <2>1. t \in reserved
    BY <1>0 DEF Reservations
  <2>2. \A u \in FileTransfers :
          /\ stage'[u] \in Running \cup {"reserved", "queued"} => u \in reserved
          /\ stage'[u] \in {"none", "rejected"} => u \notin reserved
    BY <1>0, <1>1, <1>2, <2>1 DEF Reservations, Over
  <2> QED
    BY <1>0, <2>2, ReservationsKept
<1>5. Queued'
  BY <1>0, <1>1, <1>2, QueueKept
<1>6. Results'
  <2>1. ASSUME NEW u \in FileTransfers \ {t}
        PROVE  u \in promoted' <=> u \in promoted
    OBVIOUS
  <2>2. outcome[t] = <<>> /\ t \notin promoted
    BY <1>0, <1>1 DEF Results, Over, Holding, Running, Writing
  <2>3. t \in promoted' <=> s = "promoted"
    BY <2>2
  <2> QED
    BY <1>0, <1>1, <1>2, <2>1, <2>2, <2>3 DEF Results, Over
<1>7. SlotsHeld'
  <2>1. CASE s \in Holding /\ stage[t] \notin Holding
    <3>1. SlotHolders' \subseteq SlotHolders \cup {t}
      BY <1>2 DEF SlotHolders
    <3> QED
      BY <2>1, <3>1, SlotTaken
  <2>2. CASE s \notin Holding \/ stage[t] \in Holding
    <3>1. SlotHolders' \subseteq SlotHolders
      BY <1>2, <2>2 DEF SlotHolders
    <3> QED
      BY <1>0, <3>1, SlotsKept
  <2> QED
    BY <2>1, <2>2
<1>8. ChildrenKnown' /\ EntriesKnown' /\ MarksLeft'
  <2>1. \A c \in Children : c \in FileTransfers
    BY DEF FileTransfers
  <2>2. \A c \in Children :
          /\ stage'[c] = "none" <=> stage[c] = "none"
          /\ stage[c] \in Quiet => stage'[c] \in Quiet
    BY <1>1, <1>2, <2>1 DEF Over, Quiet
  <2> QED
    BY <1>0, <2>2, DirectoryKept
<1> QED
  BY <1>3, <1>4, <1>5, <1>6, <1>7, <1>8 DEF SchedulerInv

\* wait_for_transfer_start, acquire_transfer_slot, the transfer and its promotion: every
\* step of run_sftp_transfer before its last event is such a move.
LEMMA TaskStep ==
  ASSUME SchedulerAssumption, SchedulerInv, NEW t \in FileTransfers,
         \/ PassGate(t) \/ AcquireSlot(t) \/ Recheck(t) \/ Refuse(t) \/ Open(t) \/ Stream(t)
         \/ StreamStopped(t) \/ Finalize(t) \/ Promote(t)
  PROVE  SchedulerInv'
<1> DEFINE Frame == UNCHANGED <<reserved, path, outcome, workspace, paused, session, worker, queue,
                                request, dir>>
<1>t. /\ noted \subseteq Transfers /\ cancelled \subseteq Transfers /\ t \in Transfers
      /\ stage = [stage EXCEPT ![t] = stage[t]]
  BY DEF SchedulerInv, Types, Transfers
<1>1. ASSUME PassGate(t) \/ AcquireSlot(t) \/ Recheck(t) \/ Refuse(t) \/ Open(t) \/ Finalize(t)
      PROVE  SchedulerInv'
  <2>1. Frame /\ UNCHANGED <<promoted, noted, cancelled>>
    BY <1>1 DEF PassGate, AcquireSlot, Recheck, Refuse, Open, Finalize, other, control
  <2>2. \E s \in Running \ {"promoted"} :
          /\ stage' = [stage EXCEPT ![t] = s]
          /\ stage[t] \in Running \ {"promoted"}
          /\ s \in Holding => stage[t] \in Holding \/ FreeSlot
    <3>0. {"waiting", "acquiring", "refused"} \subseteq Running \ (Holding \cup {"promoted"})
      BY DEF Running, Holding, Writing
    <3>1. CASE PassGate(t)
      BY <3>0, <3>1 DEF PassGate, Goto
    <3>2. CASE AcquireSlot(t)
      BY <3>2 DEF AcquireSlot, Goto, Running, Holding, Writing
    <3>3. CASE Recheck(t)
      <4>1. \E s \in {"refused", "opening", "waiting"} :
              stage[t] = "permitted" /\ stage' = [stage EXCEPT ![t] = s]
        BY <3>3 DEF Recheck, Goto
      <4> QED
        BY <4>1 DEF Running, Holding, Writing
    <3>4. CASE Refuse(t)
      <4>1. stage[t] \in {"waiting", "acquiring"} /\ stage' = [stage EXCEPT ![t] = "refused"]
        BY <3>4 DEF Refuse, Goto
      <4> QED
        BY <3>0, <4>1
    <3>5. CASE Open(t)
      BY <3>5 DEF Open, Goto, Running, Holding, Writing
    <3>6. CASE Finalize(t)
      BY <3>6 DEF Finalize, Goto, Running, Holding, Writing
    <3> QED
      BY <1>1, <3>1, <3>2, <3>3, <3>4, <3>5, <3>6
  <2> QED
    BY <1>t, <2>1, <2>2, TaskMoves
<1>2. CASE Stream(t)
  <2>1. Frame /\ UNCHANGED <<promoted, cancelled>> /\ noted' = noted \cup {t}
    BY <1>2 DEF Stream, control
  <2>2. \E s \in {"streaming", "staged", "failed"} :
          stage[t] = "streaming" /\ stage' = [stage EXCEPT ![t] = s]
    BY <1>2, <1>t DEF Stream, Goto
  <2>3. {"streaming", "staged", "failed"} \subseteq (Running \cap Holding) \ {"promoted"}
    BY DEF Running, Holding, Writing
  <2> QED
    BY <1>t, <2>1, <2>2, <2>3, TaskMoves
<1>3. CASE StreamStopped(t)
  <2>1. /\ Frame /\ UNCHANGED <<promoted, noted>> /\ cancelled' = cancelled \cup {t}
        /\ stage[t] = "streaming" /\ stage' = [stage EXCEPT ![t] = "cancelled"]
    BY <1>3 DEF StreamStopped, Goto
  <2>2. {"streaming", "cancelled"} \subseteq (Running \cap Holding) \ {"promoted"}
    BY DEF Running, Holding, Writing
  <2> QED
    BY <1>t, <2>1, <2>2, TaskMoves
<1>4. CASE Promote(t)
  <2>1. /\ Frame /\ UNCHANGED <<noted, cancelled>> /\ stage[t] = "promoting"
        /\ \E s \in {"promoted", "failed"} :
             /\ stage' = [stage EXCEPT ![t] = s]
             /\ promoted' = IF s = "promoted" THEN promoted \cup {t} ELSE promoted
    BY <1>4 DEF Promote, Goto, control
  <2>2. {"promoted", "failed", "promoting"} \subseteq Running \cap Holding
    BY DEF Running, Holding, Writing
  <2> QED
    BY <1>t, <2>1, <2>2, TaskMoves
<1> QED
  BY <1>1, <1>2, <1>3, <1>4

\* The last event of a transfer says what became of its file and of its workspace.
LEMMA ReportKeeps ==
  ASSUME SchedulerAssumption, SchedulerInv, NEW t \in FileTransfers, Report(t)
  PROVE  SchedulerInv'
<1>0. /\ Types /\ Reservations /\ Queued /\ Results /\ SlotsHeld
      /\ ChildrenKnown /\ EntriesKnown /\ MarksLeft
  BY DEF SchedulerInv
<1>1. PICK e \in Events :
        /\ outcome' = [outcome EXCEPT ![t] = Append(@, e)]
        /\ stage[t] \in {"promoted", "refused", "cancelled", "failed"}
        /\ e = "Completed" => stage[t] = "promoted" /\ workspace' = workspace \ {t}
        /\ e = "Cancelled" =>
             /\ stage[t] \in {"refused", "cancelled"}
             /\ workspace' = IF KeepWorkspace(t) THEN workspace ELSE workspace \ {t}
        /\ e = "Failed" => workspace' = workspace
  BY DEF Report, Emit, PromotedResults, Events
<1>2. PICK s \in {"over", "reported"} :
        stage' = [stage EXCEPT ![t] = s] /\ (s = "reported" => stage[t] \in Holding)
  <2>1. stage' = [stage EXCEPT ![t] = IF stage[t] = "refused" THEN "over" ELSE "reported"]
    BY DEF Report, Goto
  <2> QED
    BY <1>1, <2>1 DEF Holding
<1>3. UNCHANGED <<reserved, path, promoted, noted, paused, cancelled, session, worker, queue,
                  request, dir>>
  BY DEF Report, other, control
<1>4. /\ stage \in [FileTransfers -> Stages] /\ {"over", "reported"} \subseteq Stages
      /\ stage'[t] = s
      /\ \A u \in FileTransfers \ {t} : stage'[u] = stage[u]
  BY <1>0, <1>2 DEF Types, Stages, Over, Holding
<1>5. /\ outcome[t] = <<>> /\ outcome'[t] = <<e>> /\ t \in Transfers
      /\ \A u \in Transfers \ {t} : outcome'[u] = outcome[u]
      /\ outcome' = [outcome EXCEPT ![t] = <<e>>]
  <2>1. outcome[t] = <<>> /\ t \in Transfers
    BY <1>0, <1>1 DEF Results, Transfers
  <2>2. Append(<<>>, e) = <<e>>
    OBVIOUS
  <2>3. outcome' = [outcome EXCEPT ![t] = <<e>>]
    BY <1>1, <2>1, <2>2
  <2> QED
    BY <1>0, <2>1, <2>3 DEF Types
<1>6. Types'
  <2>1. workspace' \subseteq workspace
    BY <1>1 DEF Events
  <2>2. outcome' \in [Transfers -> {<<>>} \cup {<<x>> : x \in Events}]
    BY <1>0, <1>5 DEF Types
  <2>3. stage' \in [FileTransfers -> Stages]
    BY <1>2, <1>4
  <2> QED
    BY <1>0, <1>3, <2>1, <2>2, <2>3 DEF Types
<1>7. Reservations'
  <2>1. \A u \in FileTransfers :
          /\ stage'[u] \in Running \cup {"reserved", "queued"} => u \in reserved
          /\ stage'[u] \in {"none", "rejected"} => u \notin reserved
    BY <1>0, <1>4 DEF Reservations, Running, Holding, Writing
  <2> QED
    BY <1>0, <1>3, <2>1, ReservationsKept
<1>8. Queued'
  BY <1>0, <1>1, <1>3, <1>4, QueueKept
<1>9. Results'
  <2>1. \A u \in FileTransfers \ {t} :
          outcome'[u] = outcome[u] /\ (u \in workspace' <=> u \in workspace)
    BY <1>1, <1>5 DEF Events, Transfers
  <2>2. <<e>> # <<>> /\ (\A x \in Events : <<e>> = <<x>> => e = x)
    OBVIOUS
  <2>3. \A u \in FileTransfers \ {t} : Results!(u)'
    BY <1>0, <1>3, <1>4, <2>1 DEF Results
  <2>4. t \in promoted <=> stage[t] = "promoted"
    BY <1>0, <1>1 DEF Results
  <2>5. t \in workspace' =>
          <<e>> = <<"Failed">> \/ (<<e>> = <<"Cancelled">> /\ t \in noted /\ t \in Singles)
    BY <1>1 DEF Events, KeepWorkspace, FileTransfers
  <2>6. Results!(t)'
    <3>1. e = "Completed" => t \in promoted
      BY <1>1, <2>4
    <3>2. e = "Cancelled" => t \notin promoted
      BY <1>1, <2>4
    <3> QED
      BY <1>3, <1>4, <1>5, <2>2, <2>5, <3>1, <3>2 DEF Events
  <2> QED
    BY <2>3, <2>6 DEF Results
<1>10. SlotsHeld'
  <2>1. SlotHolders' \subseteq SlotHolders
    BY <1>2, <1>4 DEF SlotHolders, Holding, Writing
  <2> QED
    BY <1>0, <2>1, SlotsKept
<1>11. ChildrenKnown' /\ EntriesKnown' /\ MarksLeft'
  <2>1. Root # t /\ Root \in Transfers /\ \A c \in Children : c \in FileTransfers /\ c \in Transfers
    BY Manifest DEF FileTransfers, Transfers
  <2>2. <<"Completed">> # <<>>
    OBVIOUS
  <2>3. \A c \in Children :
          /\ stage'[c] = "none" <=> stage[c] = "none"
          /\ stage[c] \in Quiet => stage'[c] \in Quiet
          /\ outcome[c] = <<"Completed">> => outcome'[c] = outcome[c]
    BY <1>1, <1>4, <1>5, <2>1, <2>2 DEF Over, Quiet
  <2> QED
    BY <1>0, <1>3, <1>5, <2>1, <2>3, DirectoryKept
<1> QED
  BY <1>6, <1>7, <1>8, <1>9, <1>10, <1>11 DEF SchedulerInv

\* The permit is dropped with the task.
LEMMA TaskEndsKeeps ==
  ASSUME SchedulerAssumption, SchedulerInv, NEW t \in FileTransfers, TaskEnds(t)
  PROVE  SchedulerInv'
<1>0. /\ Types /\ Reservations /\ Queued /\ Results /\ SlotsHeld
      /\ ChildrenKnown /\ EntriesKnown /\ MarksLeft
  BY DEF SchedulerInv
<1>1. /\ stage[t] = "reported" /\ stage' = [stage EXCEPT ![t] = "over"]
      /\ UNCHANGED <<reserved, path, outcome, promoted, workspace, noted, paused, cancelled,
                     session, worker, queue, request, dir>>
  BY DEF TaskEnds, Goto, other, control
<1>2. /\ stage'[t] = "over" /\ stage' \in [FileTransfers -> Stages]
      /\ \A u \in FileTransfers \ {t} : stage'[u] = stage[u]
  BY <1>0, <1>1 DEF Types, Stages, Over
<1>3. Types'
  BY <1>0, <1>1, <1>2 DEF Types
<1>4. Reservations'
  <2>1. \A u \in FileTransfers :
          /\ stage'[u] \in Running \cup {"reserved", "queued"} => u \in reserved
          /\ stage'[u] \in {"none", "rejected"} => u \notin reserved
    BY <1>0, <1>2 DEF Reservations, Running, Holding, Writing
  <2> QED
    BY <1>0, <1>1, <2>1, ReservationsKept
<1>5. Queued'
  BY <1>0, <1>1, <1>2, QueueKept
<1>6. Results'
  BY <1>0, <1>1, <1>2 DEF Results
<1>7. SlotsHeld'
  <2>1. SlotHolders' \subseteq SlotHolders
    BY <1>2 DEF SlotHolders, Holding, Writing
  <2> QED
    BY <1>0, <2>1, SlotsKept
<1>8. ChildrenKnown' /\ EntriesKnown' /\ MarksLeft'
  <2>1. \A c \in Children :
          /\ stage'[c] = "none" <=> stage[c] = "none"
          /\ stage[c] \in Quiet => stage'[c] \in Quiet
    BY <1>1, <1>2 DEF Over, Quiet, FileTransfers
  <2> QED
    BY <1>0, <1>1, <2>1, DirectoryKept
<1> QED
  BY <1>3, <1>4, <1>5, <1>6, <1>7, <1>8 DEF SchedulerInv

\* A reservation is forgotten after the last event, or when the command was dropped.
LEMMA ForgetKeeps ==
  ASSUME SchedulerAssumption, SchedulerInv, NEW t \in FileTransfers, Forget(t)
  PROVE  SchedulerInv'
<1>0. /\ Types /\ Reservations /\ Queued /\ Results /\ SlotsHeld
      /\ ChildrenKnown /\ EntriesKnown /\ MarksLeft
  BY DEF SchedulerInv
<1>1. /\ stage[t] \in {"reported", "over", "dropped"} /\ reserved' = reserved \ {t}
      /\ UNCHANGED <<path, stage, outcome, promoted, workspace, noted, paused, cancelled,
                     session, worker, queue, request, dir>>
  BY DEF Forget, MayForget, control
<1>2. Types'
  BY <1>0, <1>1 DEF Types
<1>3. Reservations'
  BY <1>0, <1>1, Manifest DEF Reservations, Apart, Conflict, Running, Holding, Writing
<1>4. Queued' /\ Results' /\ SlotsHeld'
  BY <1>0, <1>1 DEF Queued, Results, SlotsHeld, SlotHolders
<1>5. ChildrenKnown' /\ EntriesKnown' /\ MarksLeft'
  BY <1>0, <1>1, DirectoryKept
<1> QED
  BY <1>2, <1>3, <1>4, <1>5 DEF SchedulerInv

-----------------------------------------------------------------------------
(* Reservations and the queue.                                             *)

\* A reservation is compared with all others, under the lock of the map.
LEMMA ReserveFiles ==
  ASSUME SchedulerAssumption, SchedulerInv, NEW t \in FileTransfers, NEW p, Reserve(t, p),
         UNCHANGED <<outcome, promoted, noted, queue>>,
         dir'.pc \in {"none", "over"} <=> dir.pc \in {"none", "over"}
  PROVE  /\ Reservations' /\ Queued' /\ Results' /\ SlotsHeld'
         /\ reserved' \subseteq Transfers /\ workspace' \subseteq FileTransfers
         /\ path' = [u \in Transfers |-> path'[u]]
         /\ stage' \in [FileTransfers -> Stages]
         /\ stage[t] = "none"
         /\ \A u \in FileTransfers \ {t} : stage'[u] = stage[u]
         /\ IF MayReserve(t, p) THEN stage'[t] = "reserved" ELSE stage'[t] = "rejected"
<1>0. Types /\ Reservations /\ Queued /\ Results /\ SlotsHeld
  BY DEF SchedulerInv
<1>1. /\ stage[t] = "none" /\ path' = [path EXCEPT ![t] = p] /\ t \in Transfers /\ t # Root
      /\ t \notin reserved
  BY <1>0, Manifest DEF Reserve, Transfers, Reservations
<1>2. PICK s \in {"reserved", "rejected"} :
        /\ stage' = [stage EXCEPT ![t] = s]
        /\ s = "reserved" => /\ MayReserve(t, p) /\ reserved' = reserved \cup {t}
                             /\ workspace' = workspace \cup ({t} \cap Downloads)
        /\ s = "rejected" => /\ ~MayReserve(t, p) /\ reserved' = reserved
                             /\ workspace' = workspace \ {t}
  <2>1. CASE MayReserve(t, p)
    BY <2>1 DEF Reserve, Goto
  <2>2. CASE ~MayReserve(t, p)
    BY <2>2 DEF Reserve, Goto, WorkspaceIfRefused
  <2> QED
    BY <2>1, <2>2
<1>3. /\ stage'[t] = s /\ stage' \in [FileTransfers -> Stages]
      /\ \A u \in FileTransfers \ {t} : stage'[u] = stage[u]
  BY <1>0, <1>2 DEF Types, Stages, Over
<1>4. reserved' \subseteq Transfers /\ workspace' \subseteq FileTransfers
  BY <1>0, <1>1, <1>2 DEF Types
<1>5. /\ path' = [u \in Transfers |-> path'[u]] /\ path'[t] = p
      /\ \A u \in Transfers \ {t} : path'[u] = path[u]
  BY <1>0, <1>1 DEF Types
<1>6. Reservations'
  <2>1. ASSUME s = "reserved", NEW u \in reserved
        PROVE  Apart(t, u)' /\ Apart(u, t)'
    <3>1. Parent(t, u) \/ ~SameEndpoint(t, u) \/ ~Conflict(path[u], u = Root, p, t = Root)
      BY <1>2, <2>1 DEF MayReserve
    <3>2. path'[u] = path[u] /\ path'[t] = p
      BY <1>0, <1>1, <1>5 DEF Types
    <3> QED
      BY <3>1, <3>2 DEF Apart, Conflict, SameEndpoint
  <2>2. ASSUME NEW u \in reserved, NEW v \in reserved, u # v
        PROVE  Apart(u, v)'
    <3>1. path'[u] = path[u] /\ path'[v] = path[v]
      BY <1>0, <1>1, <1>5 DEF Types
    <3> QED
      BY <1>0, <2>2, <3>1 DEF Reservations, Apart
  <2>3. \A u, v \in reserved' : u # v => Apart(u, v)'
    <3>1. CASE s = "reserved"
      <4>1. reserved' = reserved \cup {t}
        BY <1>2, <3>1
      <4> QED
        BY <2>1, <2>2, <3>1, <4>1
    <3>2. CASE s = "rejected"
      BY <1>2, <2>2, <3>2
    <3> QED
      BY <3>1, <3>2
  <2>4. \A u \in FileTransfers :
          /\ stage'[u] \in Running \cup {"reserved", "queued"} => u \in reserved'
          /\ stage'[u] \in {"none", "rejected"} => u \notin reserved'
    BY <1>0, <1>1, <1>2, <1>3 DEF Reservations, Running, Holding, Writing
  <2>5. path'[Root] = RootPath /\ (Root \in reserved' <=> dir'.pc \notin {"none", "over"})
    BY <1>0, <1>1, <1>2, <1>5 DEF Reservations, Transfers
  <2> QED
    BY <2>3, <2>4, <2>5 DEF Reservations
<1>7. Queued'
  BY <1>0, <1>1, <1>3, QueueKept
<1>8. Results'
  <2>1. \A u \in FileTransfers \ {t} : u \in workspace' <=> u \in workspace
    BY <1>2
  <2>2. \A u \in FileTransfers \ {t} : Results!(u)'
    BY <1>0, <1>3, <2>1 DEF Results
  <2>3. outcome[t] = <<>> /\ t \notin promoted
    BY <1>0, <1>1 DEF Results
  <2>4. t \in workspace' => s = "reserved"
    BY <1>2
  <2>5. Results!(t)'
    BY <1>3, <2>3, <2>4
  <2> QED
    BY <2>2, <2>5 DEF Results
<1>9. SlotsHeld'
  <2>1. SlotHolders' \subseteq SlotHolders
    BY <1>3 DEF SlotHolders, Holding, Writing
  <2> QED
    BY <1>0, <2>1, SlotsKept
<1> QED
  BY <1>1, <1>2, <1>3, <1>4, <1>5, <1>6, <1>7, <1>8, <1>9

\* A window begins a transfer of one file.
LEMMA BeginSingleKeeps ==
  ASSUME SchedulerAssumption, SchedulerInv, NEW t \in Singles, NEW p, BeginSingle(t, p)
  PROVE  SchedulerInv'
<1>1. /\ Reserve(t, p) /\ t \in FileTransfers
      /\ UNCHANGED <<outcome, promoted, noted, paused, cancelled, session, worker, queue, request,
                     dir>>
  BY DEF BeginSingle, control, FileTransfers
<1>2. /\ Reservations' /\ Queued' /\ Results' /\ SlotsHeld'
      /\ reserved' \subseteq Transfers /\ workspace' \subseteq FileTransfers
      /\ path' = [u \in Transfers |-> path'[u]]
      /\ stage' \in [FileTransfers -> Stages]
      /\ \A u \in FileTransfers \ {t} : stage'[u] = stage[u]
  BY <1>1, ReserveFiles
<1>3. Types'
  BY <1>1, <1>2 DEF SchedulerInv, Types
<1>4. ChildrenKnown' /\ EntriesKnown' /\ MarksLeft'
  <2>1. \A c \in Children : stage'[c] = stage[c]
    BY <1>2, Manifest DEF FileTransfers
  <2> QED
    BY <1>1, <2>1, DirectoryKept DEF SchedulerInv
<1> QED
  BY <1>2, <1>3, <1>4 DEF SchedulerInv

\* A command is queued behind others, or its reservation is taken back.
LEMMA SubmitFiles ==
  ASSUME SchedulerAssumption, SchedulerInv, NEW t \in FileTransfers, Submit(t),
         UNCHANGED <<path, outcome, promoted, noted>>,
         dir'.pc \in {"none", "over"} <=> dir.pc \in {"none", "over"}
  PROVE  /\ Reservations' /\ Queued' /\ Results' /\ SlotsHeld'
         /\ reserved' \subseteq Transfers /\ workspace' \subseteq FileTransfers
         /\ stage' \in [FileTransfers -> Stages]
         /\ stage[t] = "reserved"
         /\ \A u \in FileTransfers \ {t} : stage'[u] = stage[u]
         /\ IF Accepts THEN stage'[t] = "queued" ELSE stage'[t] = "rejected"
<1>0. Types /\ Reservations /\ Queued /\ Results /\ SlotsHeld
  BY DEF SchedulerInv
<1>1. stage[t] = "reserved" /\ t \in Transfers /\ t # Root
  BY Manifest DEF Submit, Transfers
<1>2. PICK s \in {"queued", "rejected"} :
        /\ stage' = [stage EXCEPT ![t] = s]
        /\ s = "queued" => /\ Accepts /\ queue' = Append(queue, t)
                           /\ UNCHANGED <<reserved, workspace>>
        /\ s = "rejected" => /\ ~Accepts /\ reserved' = reserved \ {t}
                             /\ workspace' = workspace \ {t} /\ queue' = queue
  <2>1. CASE Accepts
    BY <2>1 DEF Submit, Goto
  <2>2. CASE ~Accepts
    BY <2>2 DEF Submit, Goto, WorkspaceIfRefused
  <2> QED
    BY <2>1, <2>2
<1>3. /\ stage'[t] = s /\ stage' \in [FileTransfers -> Stages]
      /\ \A u \in FileTransfers \ {t} : stage'[u] = stage[u]
  BY <1>0, <1>2 DEF Types, Stages, Over
<1>4. reserved' \subseteq reserved /\ workspace' \subseteq workspace
  BY <1>2
<1>5. Reservations'
  <2>1. t \in reserved
    BY <1>0, <1>1 DEF Reservations
  <2>2. \A u \in FileTransfers :
          /\ stage'[u] \in Running \cup {"reserved", "queued"} => u \in reserved'
          /\ stage'[u] \in {"none", "rejected"} => u \notin reserved'
    BY <1>0, <1>2, <1>3, <2>1 DEF Reservations, Running, Holding, Writing
  <2>3. \A u, v \in reserved' : u # v => Apart(u, v)'
    BY <1>0, <1>4 DEF Reservations, Apart
  <2>4. path'[Root] = RootPath /\ (Root \in reserved' <=> dir'.pc \notin {"none", "over"})
    BY <1>0, <1>1, <1>2 DEF Reservations
  <2> QED
    BY <2>2, <2>3, <2>4 DEF Reservations
<1>6. Queued'
  <2>1. CASE s = "rejected"
    BY <1>0, <1>1, <1>2, <1>3, <2>1, QueueKept
  <2>2. CASE s = "queued"
    <3>1. /\ queue \in Seq(FileTransfers) /\ queue' = Append(queue, t)
          /\ Len(queue) < QueueSize /\ QueueSize \in Nat
      BY <1>0, <1>2, <2>2 DEF Queued, Accepts, SchedulerAssumption
    <3>2. /\ queue' \in Seq(FileTransfers) /\ Len(queue') = Len(queue) + 1 /\ Len(queue) \in Nat
          /\ \A i \in 1 .. Len(queue) : queue'[i] = queue[i]
          /\ queue'[Len(queue) + 1] = t
      BY <3>1, AppendProperties, LenProperties
    <3>3. \A i \in 1 .. Len(queue) : queue[i] \in FileTransfers \ {t} /\ stage[queue[i]] = "queued"
      BY <1>0, <1>1 DEF Queued
    <3>4. \A i \in 1 .. Len(queue') : i \in 1 .. Len(queue) \/ i = Len(queue) + 1
      BY <3>2
    <3>5. \A i \in 1 .. Len(queue') : stage'[queue'[i]] = "queued"
      BY <1>3, <2>2, <3>2, <3>3, <3>4
    <3>6. \A i, j \in 1 .. Len(queue') : queue'[i] = queue'[j] => i = j
      BY <1>0, <3>2, <3>3, <3>4 DEF Queued
    <3>7. Len(queue') <= QueueSize
      BY <3>1, <3>2
    <3> QED
      BY <3>2, <3>5, <3>6, <3>7 DEF Queued
  <2> QED
    BY <2>1, <2>2
<1>7. Results'
  <2>1. \A u \in FileTransfers \ {t} : u \in workspace' <=> u \in workspace
    BY <1>2
  <2>2. \A u \in FileTransfers \ {t} : Results!(u)'
    BY <1>0, <1>3, <2>1 DEF Results
  <2>3. outcome[t] = <<>> /\ t \notin promoted
    BY <1>0, <1>1 DEF Results
  <2>4. t \in workspace' => s = "queued"
    BY <1>2
  <2>5. Results!(t)'
    BY <1>3, <2>3, <2>4
  <2> QED
    BY <2>2, <2>5 DEF Results
<1>8. SlotsHeld'
  <2>1. SlotHolders' \subseteq SlotHolders
    BY <1>3 DEF SlotHolders, Holding, Writing
  <2> QED
    BY <1>0, <2>1, SlotsKept
<1> QED
  BY <1>0, <1>1, <1>2, <1>3, <1>4, <1>5, <1>6, <1>7, <1>8 DEF Types

\* A window submits the transfer that it has begun.
LEMMA SubmitSingleKeeps ==
  ASSUME SchedulerAssumption, SchedulerInv, NEW t \in Singles, SubmitSingle(t)
  PROVE  SchedulerInv'
<1>1. /\ Submit(t) /\ t \in FileTransfers
      /\ UNCHANGED <<path, outcome, promoted, noted, paused, cancelled, session, worker, request,
                     dir>>
  BY DEF SubmitSingle, control, FileTransfers
<1>2. /\ Reservations' /\ Queued' /\ Results' /\ SlotsHeld'
      /\ reserved' \subseteq Transfers /\ workspace' \subseteq FileTransfers
      /\ stage' \in [FileTransfers -> Stages]
      /\ \A u \in FileTransfers \ {t} : stage'[u] = stage[u]
  BY <1>1, SubmitFiles
<1>3. Types'
  BY <1>1, <1>2 DEF SchedulerInv, Types
<1>4. ChildrenKnown' /\ EntriesKnown' /\ MarksLeft'
  <2>1. \A c \in Children : stage'[c] = stage[c]
    BY <1>2, Manifest DEF FileTransfers
  <2> QED
    BY <1>1, <2>1, DirectoryKept DEF SchedulerInv
<1> QED
  BY <1>2, <1>3, <1>4 DEF SchedulerInv

\* The worker takes the first command of the queue.
LEMMA AcceptKeeps ==
  ASSUME SchedulerAssumption, SchedulerInv, Accept
  PROVE  SchedulerInv'
<1>0. /\ Types /\ Reservations /\ Queued /\ Results /\ SlotsHeld
      /\ ChildrenKnown /\ EntriesKnown /\ MarksLeft
  BY DEF SchedulerInv
<1> DEFINE t == Head(queue)
<1>1. /\ stage' = [stage EXCEPT ![t] = "waiting"] /\ queue' = Tail(queue) /\ queue # <<>>
      /\ UNCHANGED <<reserved, path, outcome, promoted, workspace, noted, paused, cancelled,
                     session, worker, request, dir>>
  BY DEF Accept, Goto, control
<1>2. /\ queue \in Seq(FileTransfers) /\ Len(queue) \in Nat /\ Len(queue) > 0
      /\ t = queue[1] /\ t \in FileTransfers /\ stage[t] = "queued"
      /\ Tail(queue) \in Seq(FileTransfers) /\ Len(Tail(queue)) = Len(queue) - 1
      /\ \A i \in 1 .. Len(Tail(queue)) : Tail(queue)[i] = queue[i + 1]
  <2>1. queue \in Seq(FileTransfers)
    BY <1>0 DEF Queued
  <2>2. Len(queue) \in Nat /\ Len(queue) > 0 /\ t = queue[1] /\ t \in FileTransfers
    BY <1>1, <2>1
  <2>3. stage[t] = "queued"
    BY <1>0, <2>2 DEF Queued
  <2> QED
    BY <1>1, <2>1, <2>2, <2>3, HeadTailProperties
<1>3. /\ stage'[t] = "waiting" /\ stage' \in [FileTransfers -> Stages]
      /\ \A u \in FileTransfers \ {t} : stage'[u] = stage[u]
  BY <1>0, <1>1, <1>2 DEF Types, Stages
<1> HIDE DEF t
<1>4. Types'
  BY <1>0, <1>1, <1>3 DEF Types
<1>5. Reservations'
  <2>1. \A u \in FileTransfers :
          /\ stage'[u] \in Running \cup {"reserved", "queued"} => u \in reserved
          /\ stage'[u] \in {"none", "rejected"} => u \notin reserved
    BY <1>0, <1>2, <1>3 DEF Reservations
  <2> QED
    BY <1>0, <1>1, <2>1, ReservationsKept
<1>6. Queued'
  <2>1. \A i \in 1 .. Len(queue') : i + 1 \in 1 .. Len(queue) /\ i + 1 # 1 /\ queue'[i] = queue[i + 1]
    BY <1>1, <1>2
  <2>2. \A i \in 1 .. Len(queue') : queue'[i] \in FileTransfers \ {t} /\ stage[queue'[i]] = "queued"
    <3>1. 1 \in 1 .. Len(queue)
      BY <1>2
    <3>2. \A i \in 1 .. Len(queue) : queue[i] \in FileTransfers
      BY <1>2
    <3> QED
      BY <1>0, <1>2, <2>1, <3>1, <3>2 DEF Queued
  <2>3. \A i, j \in 1 .. Len(queue') : queue'[i] = queue'[j] => i = j
    <3> SUFFICES ASSUME NEW i \in 1 .. Len(queue'), NEW j \in 1 .. Len(queue'), queue'[i] = queue'[j]
                 PROVE  i = j
      OBVIOUS
    <3>1. i + 1 = j + 1
      BY <1>0, <2>1 DEF Queued
    <3> QED
      BY <3>1, <1>1, <1>2
  <2>4. queue' \in Seq(FileTransfers) /\ Len(queue') <= QueueSize
    BY <1>0, <1>1, <1>2 DEF Queued, SchedulerAssumption
  <2> QED
    BY <1>3, <2>2, <2>3, <2>4 DEF Queued
<1>7. Results'
  BY <1>0, <1>1, <1>2, <1>3 DEF Results
<1>8. SlotsHeld'
  <2>1. SlotHolders' \subseteq SlotHolders
    BY <1>3 DEF SlotHolders, Holding, Writing
  <2> QED
    BY <1>0, <2>1, SlotsKept
<1>9. ChildrenKnown' /\ EntriesKnown' /\ MarksLeft'
  <2>1. \A c \in Children :
          /\ stage'[c] = "none" <=> stage[c] = "none"
          /\ stage[c] \in Quiet => stage'[c] \in Quiet
    BY <1>2, <1>3 DEF Over, Quiet, FileTransfers
  <2> QED
    BY <1>0, <1>1, <2>1, DirectoryKept
<1> QED
  BY <1>4, <1>5, <1>6, <1>7, <1>8, <1>9 DEF SchedulerInv

\* The commands that are still queued when the worker returns are dropped.
LEMMA WorkerGoneKeeps ==
  ASSUME SchedulerAssumption, SchedulerInv, WorkerGone
  PROVE  SchedulerInv'
<1>0. /\ Types /\ Reservations /\ Queued /\ Results /\ SlotsHeld
      /\ ChildrenKnown /\ EntriesKnown /\ MarksLeft
  BY DEF SchedulerInv
<1>1. /\ stage' = [t \in FileTransfers |-> IF stage[t] = "queued" THEN "dropped" ELSE stage[t]]
      /\ queue' = <<>> /\ worker' = "gone"
      /\ UNCHANGED <<reserved, path, outcome, promoted, workspace, noted, paused, cancelled,
                     session, request, dir>>
  BY DEF WorkerGone, control
<1>2. /\ stage' \in [FileTransfers -> Stages]
      /\ \A t \in FileTransfers :
           stage'[t] = stage[t] \/ (stage[t] = "queued" /\ stage'[t] = "dropped")
  BY <1>0, <1>1 DEF Types, Stages, Over
<1>3. Types'
  BY <1>0, <1>1, <1>2 DEF Types
<1>4. Reservations'
  <2>1. \A u \in FileTransfers :
          /\ stage'[u] \in Running \cup {"reserved", "queued"} => u \in reserved
          /\ stage'[u] \in {"none", "rejected"} => u \notin reserved
    BY <1>0, <1>2 DEF Reservations, Running, Holding, Writing
  <2> QED
    BY <1>0, <1>1, <2>1, ReservationsKept
<1>5. Queued'
  <2>1. <<>> \in Seq(FileTransfers) /\ Len(<<>>) = 0
    OBVIOUS
  <2>2. QueueSize \in Nat
    BY DEF SchedulerAssumption
  <2> QED
    BY <1>1, <2>1, <2>2 DEF Queued
<1>6. Results'
  BY <1>0, <1>1, <1>2 DEF Results
<1>7. SlotsHeld'
  <2>1. SlotHolders' \subseteq SlotHolders
    BY <1>2 DEF SlotHolders, Holding, Writing
  <2> QED
    BY <1>0, <2>1, SlotsKept
<1>8. ChildrenKnown' /\ EntriesKnown' /\ MarksLeft'
  <2>1. \A c \in Children :
          /\ stage'[c] = "none" <=> stage[c] = "none"
          /\ stage[c] \in Quiet => stage'[c] \in Quiet
    BY <1>2 DEF Over, Quiet, FileTransfers
  <2> QED
    BY <1>0, <1>1, <2>1, DirectoryKept
<1> QED
  BY <1>3, <1>4, <1>5, <1>6, <1>7, <1>8 DEF SchedulerInv

-----------------------------------------------------------------------------
(* The session, the requests, and the directory's task.                    *)

\* Steps that leave transfers and entries alone: only controls, the session, the worker
\* and the requests of callers change.
LEMMA ControlsKeep ==
  ASSUME SchedulerAssumption, SchedulerInv, Types',
         UNCHANGED <<reserved, path, stage, outcome, promoted, workspace, noted, queue, dir>>,
         cancelled \subseteq cancelled'
  PROVE  SchedulerInv'
<1>1. Reservations' /\ Queued' /\ Results' /\ SlotsHeld'
  BY DEF SchedulerInv, Reservations, Apart, Conflict, Queued, Results, SlotsHeld, SlotHolders
<1>2. ChildrenKnown' /\ EntriesKnown' /\ MarksLeft'
  BY DirectoryKept DEF SchedulerInv
<1> QED
  BY <1>1, <1>2 DEF SchedulerInv

\* The session ends, and its worker with it.
LEMMA SessionKeeps ==
  ASSUME SchedulerAssumption, SchedulerInv, EndSession \/ StopWorker \/ SessionRemoved
  PROVE  SchedulerInv'
<1>1. /\ UNCHANGED <<reserved, path, stage, outcome, promoted, workspace, noted, paused,
                     cancelled, queue, request, dir>>
      /\ session' \in {session, "ended"} /\ worker' \in {worker, "stopping", "removed"}
  BY DEF EndSession, StopWorker, SessionRemoved, control
<1>2. Types'
  BY <1>1 DEF SchedulerInv, Types
<1> QED
  BY <1>1, <1>2, ControlsKeep

\* Controls are collected from the map and reached later; a cancellation is never undone.
LEMMA RequestKeeps ==
  ASSUME SchedulerAssumption, SchedulerInv, NEW c \in Clients,
         \/ \E t \in Singles \cup {Root}, k \in {"pause", "resume", "cancel"} : Request(c, k, t)
         \/ CancelSession(c) \/ CollectControls(c)
  PROVE  SchedulerInv'
<1>0. Types
  BY DEF SchedulerInv
<1>1. /\ UNCHANGED <<reserved, path, stage, outcome, promoted, workspace, noted, paused,
                     cancelled, worker, queue, dir>>
      /\ session' \in {"live", "cancelled", "ended"}
      /\ \E k \in RequestKinds, l \in SUBSET Transfers :
           request' = [request EXCEPT ![c] = [kind |-> k, left |-> l]]
  <2>1. ASSUME NEW t \in Singles \cup {Root}, NEW k \in {"pause", "resume", "cancel"},
               Request(c, k, t)
        PROVE  <1>1!1 /\ <1>1!2 /\ <1>1!3
    <3>1. Family(t) \in SUBSET Transfers
      BY DEF Family, Transfers, FileTransfers
    <3> QED
      BY <1>0, <2>1, <3>1 DEF Request, control, Types, RequestKinds
  <2>2. CASE CancelSession(c)
    BY <1>0, <2>2 DEF CancelSession, control, Types, RequestKinds
  <2>3. CASE CollectControls(c)
    BY <1>0, <2>3 DEF CollectControls, Idle, control, Types, RequestKinds
  <2> QED
    BY <2>1, <2>2, <2>3
<1>2. Types'
  BY <1>0, <1>1 DEF Types
<1> QED
  BY <1>1, <1>2, ControlsKeep

\* A caller reaches one control.
LEMMA ReachKeeps ==
  ASSUME SchedulerAssumption, SchedulerInv, NEW c \in Clients, NEW t \in Transfers, Reach(c, t)
  PROVE  SchedulerInv'
<1>0. Types
  BY DEF SchedulerInv
<1>1. UNCHANGED <<reserved, path, stage, outcome, promoted, workspace, noted, session, worker,
                  queue, dir>>
  BY DEF Reach
<1>2. /\ paused' \in {paused, paused \cup {t}, paused \ {t}}
      /\ cancelled' \in {cancelled, cancelled \cup {t}}
  BY DEF Reach
<1>3. request' = [request EXCEPT ![c] =
                    IF request[c].left \ {t} = {} THEN Idle
                    ELSE [kind |-> request[c].kind, left |-> request[c].left \ {t}]]
  BY DEF Reach
<1>4. request' \in [Clients -> [kind : RequestKinds,
                                left : SUBSET Transfers]]
  BY <1>0, <1>3 DEF Types, Idle, RequestKinds
<1>5. Types'
  BY <1>0, <1>1, <1>2, <1>4 DEF Types
<1> QED
  BY <1>1, <1>2, <1>5, ControlsKeep

\* A step of the directory's task that only moves its own state keeps what is known of files.
LEMMA RootKeeps ==
  ASSUME SchedulerAssumption, SchedulerInv, dir' \in DirType,
         UNCHANGED <<reserved, path, stage, promoted, workspace, noted, paused, session, worker,
                     queue, request>>,
         dir'.pc \in {"none", "over"} <=> dir.pc \in {"none", "over"},
         cancelled' \subseteq Transfers,
         outcome' \in [Transfers -> {<<>>} \cup {<<e>> : e \in Events}],
         \A t \in FileTransfers : outcome'[t] = outcome[t],
         ChildrenKnown', EntriesKnown', MarksLeft'
  PROVE  SchedulerInv'
<1>0. Types /\ Reservations /\ Queued /\ Results /\ SlotsHeld
  BY DEF SchedulerInv
<1>1. Types'
  BY <1>0 DEF Types
<1>2. Reservations'
  BY <1>0, ReservationsKept DEF Reservations
<1>3. Queued' /\ SlotsHeld' /\ Results'
  BY <1>0 DEF Queued, SlotsHeld, SlotHolders, Results
<1> QED
  BY <1>1, <1>2, <1>3 DEF SchedulerInv

\* The directory is reserved like a transfer of its own.
LEMMA BeginRootKeeps ==
  ASSUME SchedulerAssumption, SchedulerInv, BeginRoot
  PROVE  SchedulerInv'
<1>0. /\ Types /\ Reservations /\ Queued /\ Results /\ SlotsHeld
      /\ ChildrenKnown /\ EntriesKnown /\ MarksLeft
  BY DEF SchedulerInv
<1>1. /\ dir.pc = "none" /\ dir' = [dir EXCEPT !.pc = "scanning"]
      /\ reserved' = reserved \cup {Root} /\ MayReserve(Root, RootPath)
      /\ UNCHANGED <<path, stage, outcome, promoted, workspace, noted, paused, cancelled, session,
                     worker, queue, request>>
  BY DEF BeginRoot, control, rest, task
<1>2. /\ dir' \in DirType /\ dir'.pc = "scanning"
      /\ dir'.next = dir.next /\ dir'.active = dir.active /\ dir'.completed = dir.completed
      /\ dir'.checkpoint = dir.checkpoint /\ dir'.failed = dir.failed /\ dir'.stop = dir.stop
  BY <1>0, <1>1 DEF Types, DirType, Pcs, Before
<1>3. Types'
  BY <1>0, <1>1, <1>2 DEF Types, Transfers
<1>4. Reservations'
  <2>1. Root \notin FileTransfers /\ Root \notin Children
    BY Manifest DEF FileTransfers
  <2>2. ASSUME NEW u \in reserved, u # Root
        PROVE  Apart(Root, u) /\ Apart(u, Root)
    <3>1. ~SameEndpoint(Root, u) \/ ~Conflict(path[u], u = Root, RootPath, TRUE)
      BY <1>1, <2>1 DEF MayReserve, Parent
    <3>2. path[Root] = RootPath
      BY <1>0 DEF Reservations
    <3> QED
      BY <2>2, <3>1, <3>2 DEF Apart, Conflict, SameEndpoint
  <2>3. \A u, v \in reserved' : u # v => Apart(u, v)
    BY <1>0, <1>1, <2>2 DEF Reservations
  <2>4. \A u, v : Apart(u, v)' <=> Apart(u, v)
    BY <1>1 DEF Apart
  <2> QED
    BY <1>0, <1>1, <1>2, <2>1, <2>3, <2>4 DEF Reservations
<1>5. Queued' /\ Results' /\ SlotsHeld'
  BY <1>0, <1>1 DEF Queued, Results, SlotsHeld, SlotHolders
<1>6. ChildrenKnown'
  BY <1>0, <1>1, <1>2 DEF ChildrenKnown, Done, Looping, After
<1>7. EntriesKnown'
  BY <1>0, <1>1, <1>2 DEF EntriesKnown, Done
<1>8. MarksLeft'
  BY <1>0, <1>1, <1>2 DEF MarksLeft, Done, After
<1> QED
  BY <1>3, <1>4, <1>5, <1>6, <1>7, <1>8 DEF SchedulerInv

\* A step to another place, with nothing learned of an entry.
LEMMA PcMoves ==
  ASSUME SchedulerAssumption, SchedulerInv,
         NEW p \in {"creating", "loop", "entry", "begin", "leaving"},
         dir.pc \in {"directories", "creating", "loop", "entry"},
         dir' = [dir EXCEPT !.pc = p],
         p \in {"entry", "begin"} => dir.next <= Len(Files),
         p = "leaving" =>
           Root \in cancelled \/ (dir.active = {} /\ (dir.stop \/ dir.next > Len(Files))),
         p = "creating" => dir.pc = "directories",
         UNCHANGED <<reserved, path, stage, outcome, promoted, workspace, noted, paused, cancelled,
                     session, worker, queue, request>>
  PROVE  SchedulerInv'
<1>0. Types /\ ChildrenKnown /\ EntriesKnown /\ MarksLeft
  BY DEF SchedulerInv
<1>1. /\ dir' \in DirType /\ dir'.pc = p
      /\ dir'.next = dir.next /\ dir'.active = dir.active /\ dir'.completed = dir.completed
      /\ dir'.checkpoint = dir.checkpoint /\ dir'.failed = dir.failed /\ dir'.stop = dir.stop
  BY <1>0 DEF Types, DirType, Pcs, Before, Looping, After
<1>2. ChildrenKnown'
  BY <1>0, <1>1 DEF ChildrenKnown, Done, Looping, After
<1>3. EntriesKnown'
  BY <1>0, <1>1 DEF EntriesKnown, Done
<1>4. MarksLeft'
  <2>1. dir.next > Len(Files) => dir.next = Len(Files) + 1
    BY <1>0, Manifest DEF Types, DirType
  <2> QED
    BY <1>0, <1>1, <2>1 DEF MarksLeft, Done, After
<1> QED
  BY <1>0, <1>1, <1>2, <1>3, <1>4, RootKeeps DEF Types

\* A directory may end before its loop, without success.
LEMMA EndsEarlyKeeps ==
  ASSUME SchedulerAssumption, SchedulerInv, dir.pc \in Before,
         NEW e \in {"Failed", "Cancelled"}, RootEndsEarly(e)
  PROVE  SchedulerInv'
<1>0. Types /\ ChildrenKnown /\ EntriesKnown /\ MarksLeft
  BY DEF SchedulerInv
<1>1. /\ dir' = [dir EXCEPT !.pc = "reported"]
      /\ UNCHANGED <<reserved, path, stage, promoted, workspace, noted, paused, cancelled,
                     session, worker, queue, request>>
  BY DEF RootEndsEarly, control, rest, task
<1>2. /\ outcome' \in [Transfers -> {<<>>} \cup {<<x>> : x \in Events}]
      /\ \A t \in FileTransfers : outcome'[t] = outcome[t]
      /\ outcome'[Root] = <<e>>
  <2>1. outcome[Root] = <<>> /\ Root \in Transfers /\ Root \notin FileTransfers
        /\ FileTransfers \subseteq Transfers
    BY <1>0, Manifest DEF MarksLeft, Before, Transfers
  <2>2. outcome' = [outcome EXCEPT ![Root] = <<e>>]
    <3>1. Append(<<>>, e) = <<e>>
      OBVIOUS
    <3> QED
      BY <2>1, <3>1 DEF RootEndsEarly, Emit
  <2> QED
    BY <1>0, <2>1, <2>2 DEF Types, Events
<1>3. /\ dir' \in DirType /\ dir'.pc = "reported"
      /\ dir'.next = dir.next /\ dir'.active = dir.active /\ dir'.completed = dir.completed
      /\ dir'.checkpoint = dir.checkpoint /\ dir'.failed = dir.failed /\ dir'.stop = dir.stop
  BY <1>0, <1>1 DEF Types, DirType, Pcs
<1>4. dir.active = {}
  BY <1>0 DEF ChildrenKnown, Before, Looping, After
<1>5. ChildrenKnown'
  BY <1>0, <1>1, <1>3, <1>4 DEF ChildrenKnown, Done, Before
<1>6. EntriesKnown'
  <2>1. \A n \in dir.completed : Files[n] \in FileTransfers
    BY <1>0, Manifest DEF Types, DirType, FileTransfers
  <2> QED
    BY <1>0, <1>1, <1>2, <1>3, <2>1 DEF EntriesKnown, Done
<1>7. MarksLeft'
  <2>1. <<e>> # <<>> /\ <<e>> # <<"Completed">>
    OBVIOUS
  <2> QED
    BY <1>0, <1>1, <1>2, <1>3, <2>1 DEF MarksLeft, Done, After
<1> QED
  BY <1>0, <1>1, <1>2, <1>3, <1>5, <1>6, <1>7, RootKeeps DEF Types, Before

\* A scan finds the entries that an earlier run has completed.
LEMMA ScanKeeps ==
  ASSUME SchedulerAssumption, SchedulerInv, Scan
  PROVE  SchedulerInv'
<1>0. Types /\ ChildrenKnown /\ EntriesKnown /\ MarksLeft /\ dir.pc = "scanning"
  BY DEF SchedulerInv, Scan
<1>1. ASSUME NEW n \in 0 .. Len(Files),
             dir' = [dir EXCEPT !.pc = "directories", !.checkpoint = n, !.next = n + 1,
                                !.completed = 1 .. n],
             UNCHANGED <<reserved, outcome, control, rest, task>>
      PROVE  SchedulerInv'
  <2>1. /\ UNCHANGED <<reserved, path, stage, outcome, promoted, workspace, noted, paused,
                       cancelled, session, worker, queue, request>>
        /\ Len(Files) \in Nat
    BY <1>1, Manifest DEF control, rest, task
  <2>2. /\ dir' \in DirType /\ dir'.pc = "directories" /\ dir'.next = n + 1
        /\ dir'.completed = 1 .. n /\ dir'.checkpoint = n
        /\ dir'.active = dir.active /\ dir'.failed = dir.failed /\ dir'.stop = dir.stop
    <3>1. n + 1 \in 1 .. Len(Files) + 1 /\ 1 .. n \in SUBSET (1 .. Len(Files))
      BY <2>1
    <3> DEFINE k == n + 1
               s == 1 .. n
    <3> HIDE DEF k, s
    <3>2. dir' = [dir EXCEPT !.pc = "directories", !.checkpoint = n, !.next = k, !.completed = s]
      BY <1>1 DEF k, s
    <3>3. k \in 1 .. Len(Files) + 1 /\ s \in SUBSET (1 .. Len(Files))
      BY <3>1 DEF k, s
    <3>4. /\ dir' \in DirType /\ dir'.pc = "directories" /\ dir'.next = k
          /\ dir'.completed = s /\ dir'.checkpoint = n
          /\ dir'.active = dir.active /\ dir'.failed = dir.failed /\ dir'.stop = dir.stop
      BY <1>0, <3>2, <3>3 DEF Types, DirType, Pcs, Before
    <3> QED
      BY <3>4 DEF k, s
  <2>3. /\ dir.active = {} /\ dir.next = 1
        /\ \A m \in 1 .. Len(Files) : stage[Files[m]] = "none"
    BY <1>0 DEF ChildrenKnown, EntriesKnown, Looping, After
  <2>4. ChildrenKnown'
    BY <2>1, <2>2, <2>3 DEF ChildrenKnown, Quiet, Over
  <2>5. EntriesKnown'
    BY <2>1, <2>2, <2>3 DEF EntriesKnown, Done
  <2>6. MarksLeft'
    <3>1. \A m \in 1 .. (n + 1) - 1 : m \in 1 .. n
      BY <2>1
    <3>2. outcome[Root] = <<>> /\ <<>> # <<"Completed">>
      BY <1>0 DEF MarksLeft
    <3> QED
      BY <1>0, <2>1, <2>2, <3>1, <3>2 DEF MarksLeft, Done, After
  <2> QED
    BY <1>0, <2>1, <2>2, <2>4, <2>5, <2>6, RootKeeps DEF Types
<1>2. ASSUME NEW e \in {"Failed", "Cancelled"}, RootEndsEarly(e)
      PROVE  SchedulerInv'
  BY <1>0, <1>2, EndsEarlyKeeps DEF Before
<1> QED
  BY <1>1, <1>2 DEF Scan

\* The directories are created, and the loop goes from entry to entry.
LEMMA PlaceKeeps ==
  ASSUME SchedulerAssumption, SchedulerInv,
         \/ CreateDirectories \/ DirectoriesCreated \/ TakeEntry \/ EntryCancelled \/ LeaveLoop
  PROVE  SchedulerInv'
<1> DEFINE Frame == UNCHANGED <<reserved, path, stage, outcome, promoted, workspace, noted, paused,
                                cancelled, session, worker, queue, request>>
<1>1. ASSUME NEW e \in {"Failed", "Cancelled"}, RootEndsEarly(e),
             dir.pc \in {"directories", "creating"}
      PROVE  SchedulerInv'
  BY <1>1, EndsEarlyKeeps DEF Before
<1>2. CASE CreateDirectories
  <2>1. CASE Frame /\ dir.pc = "directories" /\ dir' = [dir EXCEPT !.pc = "creating"]
    BY <2>1, PcMoves
  <2> QED
    BY <1>1, <1>2, <2>1 DEF CreateDirectories, control, rest, task
<1>3. CASE DirectoriesCreated
  <2>1. CASE Frame /\ dir.pc = "creating" /\ dir' = [dir EXCEPT !.pc = "loop"]
    BY <2>1, PcMoves
  <2> QED
    BY <1>1, <1>3, <2>1 DEF DirectoriesCreated, control, rest, task
<1>4. CASE TakeEntry
  <2>1. Frame /\ dir.pc = "loop" /\ dir' = [dir EXCEPT !.pc = "entry"] /\ dir.next <= Len(Files)
    BY <1>4 DEF TakeEntry, control, rest, task
  <2> QED
    BY <2>1, PcMoves
<1>5. CASE EntryCancelled
  <2>1. Frame /\ dir.pc = "entry" /\ dir' = [dir EXCEPT !.pc = "loop"]
    BY <1>5 DEF EntryCancelled, control, rest, task
  <2> QED
    BY <2>1, PcMoves
<1>6. CASE LeaveLoop
  <2>1. /\ Frame /\ dir.pc = "loop" /\ dir' = [dir EXCEPT !.pc = "leaving"]
        /\ Root \in cancelled \/ (dir.active = {} /\ (dir.stop \/ dir.next > Len(Files)))
    BY <1>6 DEF LeaveLoop, control, rest, task
  <2> QED
    BY <2>1, PcMoves
<1> QED
  BY <1>2, <1>3, <1>4, <1>5, <1>6

-----------------------------------------------------------------------------
(* The checkpoint.                                                         *)

\* A set of numbers that is not empty has a least member.
LEMMA LeastNumber ==
  ASSUME NEW N, N \subseteq Nat, N # {}
  PROVE  \E n \in N : \A m \in N : n <= m
<1>1. PICK n \in N : \A m \in N : ~(<<m, n>> \in OpToRel(<, Nat))
  BY WFMin, NatLessThanWellFounded, Zenon
<1>2. \A m \in N : ~(m < n)
  BY <1>1 DEF OpToRel
<1> QED
  BY <1>2

\* advance_directory_checkpoint finds the longest prefix: it passes completed entries only
\* and stops at the first that is not.
LEMMA AdvanceIsLongest ==
  ASSUME SchedulerAssumption, NEW completed \in SUBSET (1 .. Len(Files)),
         NEW from \in 0 .. Len(Files)
  PROVE  /\ Advance(completed, from) \in from .. Len(Files)
         /\ \A m \in from + 1 .. Advance(completed, from) : m \in completed
         /\ Advance(completed, from) + 1 \notin completed
<1>0. Len(Files) \in Nat
  BY Manifest
<1> DEFINE N == {n \in Nat : from <= n /\ n + 1 \notin completed}
<1>1. Len(Files) \in N
  BY <1>0
<1>2. PICK n \in N : \A m \in N : n <= m
  <2>1. N \subseteq Nat /\ N # {}
    BY <1>1
  <2> HIDE DEF N
  <2> QED
    BY <2>1, LeastNumber
<1>3. n \in from .. Len(Files) /\ n + 1 \notin completed
  BY <1>0, <1>1, <1>2
<1>4. ASSUME NEW m \in from + 1 .. n, m \notin completed
      PROVE  FALSE
  <2>1. m - 1 \in Nat /\ from <= m - 1 /\ (m - 1) + 1 = m /\ m - 1 < n
    BY <1>3, <1>4
  <2>2. m - 1 \in N
    BY <1>4, <2>1
  <2> QED
    BY <1>2, <2>1, <2>2
<1> QED
  BY <1>3, <1>4 DEF Advance

\* An entry that is completed extends the checkpoint as far as the others allow.
LEMMA CompletesEntry ==
  ASSUME SchedulerAssumption, NEW d \in DirType, NEW n \in 1 .. Len(Files),
         1 .. d.checkpoint \subseteq d.completed
  PROVE  LET e == Completes(d, n) IN
         /\ e \in DirType
         /\ e.pc = d.pc /\ e.next = d.next /\ e.active = d.active /\ e.failed = d.failed
         /\ e.stop = d.stop
         /\ e.completed = d.completed \cup {n}
         /\ 1 .. e.checkpoint \subseteq e.completed /\ e.checkpoint + 1 \notin e.completed
<1> DEFINE completed == d.completed \cup {n}
           a == Advance(completed, d.checkpoint)
<1>1. completed \in SUBSET (1 .. Len(Files)) /\ d.checkpoint \in 0 .. Len(Files)
  BY DEF DirType
<1>2. /\ a \in d.checkpoint .. Len(Files) /\ \A m \in d.checkpoint + 1 .. a : m \in completed
      /\ a + 1 \notin completed
  <2> HIDE DEF completed
  <2> QED
    BY <1>1, AdvanceIsLongest
<1>3. Completes(d, n) = [d EXCEPT !.completed = completed, !.checkpoint = a]
  BY DEF Completes
<1> HIDE DEF a
<1>4. a \in 0 .. Len(Files) /\ Len(Files) \in Nat
  BY <1>1, <1>2, Manifest
<1>5. 1 .. a \subseteq completed
  BY <1>1, <1>2, <1>4
<1>6. completed \subseteq 1 .. Len(Files)
  BY <1>1
<1>7. /\ Completes(d, n).completed = completed /\ Completes(d, n).checkpoint = a
      /\ Completes(d, n).pc = d.pc /\ Completes(d, n).next = d.next
      /\ Completes(d, n).active = d.active /\ Completes(d, n).failed = d.failed
      /\ Completes(d, n).stop = d.stop
  <2> HIDE DEF completed
  <2> QED
    BY <1>3 DEF DirType
<1>8. Completes(d, n) \in DirType
  <2> HIDE DEF completed
  <2> QED
    BY <1>3, <1>4, <1>6 DEF DirType
<1> QED
  BY <1>2, <1>5, <1>7, <1>8

\* An entry that is up to date is complete; one that cannot be sent fails the directory.
LEMMA ExamineKeeps ==
  ASSUME SchedulerAssumption, SchedulerInv, ExamineEntry
  PROVE  SchedulerInv'
<1>0. Types /\ ChildrenKnown /\ EntriesKnown /\ MarksLeft
  BY DEF SchedulerInv
<1> DEFINE d == [dir EXCEPT !.pc = "loop", !.next = @ + 1]
<1>1. /\ UNCHANGED <<reserved, path, stage, outcome, promoted, workspace, noted, paused,
                     cancelled, session, worker, queue, request>>
      /\ dir.pc = "entry" /\ dir \in DirType /\ Len(Files) \in Nat /\ dir.next \in 1 .. Len(Files)
  <2>1. dir.pc = "entry" /\ dir \in DirType /\ Len(Files) \in Nat /\ dir.next <= Len(Files)
    BY <1>0, Manifest DEF ExamineEntry, Types, EntriesKnown
  <2> QED
    BY <2>1 DEF ExamineEntry, control, rest, task, DirType
<1>2. /\ d \in DirType /\ d.pc = "loop" /\ d.next = dir.next + 1 /\ d.active = dir.active
      /\ d.completed = dir.completed /\ d.checkpoint = dir.checkpoint
      /\ d.failed = dir.failed /\ d.stop = dir.stop
  <2>1. dir.next + 1 \in 1 .. Len(Files) + 1
    BY <1>1
  <2> QED
    BY <1>1, <2>1 DEF DirType, Pcs, Looping
<1>3. CASE dir' = [dir EXCEPT !.pc = "begin"]
  BY <1>1, <1>3, PcMoves
<1>4. CASE dir' = Completes(d, dir.next) \/ dir' = [d EXCEPT !.failed = TRUE]
  <2>1. /\ dir' \in DirType /\ dir'.pc = "loop" /\ dir'.next = dir.next + 1
        /\ dir'.active = dir.active /\ (dir.failed => dir'.failed) /\ dir'.stop = dir.stop
        /\ 1 .. dir'.checkpoint \subseteq dir'.completed
        /\ dir'.checkpoint + 1 \notin dir'.completed
        /\ \/ dir'.completed = dir.completed \cup {dir.next}
           \/ dir'.completed = dir.completed /\ dir'.failed
    <3>0. 1 .. dir.checkpoint \subseteq dir.completed /\ dir.checkpoint + 1 \notin dir.completed
      BY <1>0 DEF EntriesKnown
    <3>1. CASE dir' = Completes(d, dir.next)
      <4> HIDE DEF d
      <4> QED
        BY <1>1, <1>2, <3>0, <3>1, CompletesEntry
    <3>2. CASE dir' = [d EXCEPT !.failed = TRUE]
      <4> HIDE DEF d
      <4>1. /\ dir' \in DirType /\ dir'.pc = d.pc /\ dir'.next = d.next /\ dir'.active = d.active
            /\ dir'.completed = d.completed /\ dir'.checkpoint = d.checkpoint
            /\ dir'.failed = TRUE /\ dir'.stop = d.stop
        BY <1>2, <3>2 DEF DirType
      <4> QED
        BY <1>2, <3>0, <4>1
    <3> QED
      BY <1>4, <3>1, <3>2
  <2>2. Done' = Done \cup {dir.next}
    BY <1>1, <2>1 DEF Done
  <2>3. stage[Files[dir.next]] = "none"
    BY <1>0, <1>1 DEF ChildrenKnown
  <2>4. ChildrenKnown'
    <3>1. \A n \in 1 .. Len(Files) : n >= dir.next + 1 => n > dir.next
      BY <1>1
    <3>2. \A n \in 1 .. Len(Files) : stage[Files[n]] \in Quiet \/ Files[n] \in dir.active
      BY <1>0, <1>1 DEF ChildrenKnown
    <3>3. \A n \in 1 .. Len(Files) :
            (n > dir.next + 1 \/ n = dir.next + 1) => stage[Files[n]] = "none"
      BY <1>0, <1>1, <3>1 DEF ChildrenKnown
    <3> QED
      BY <1>0, <1>1, <2>1, <2>2, <3>2, <3>3 DEF ChildrenKnown, Looping
  <2>5. EntriesKnown'
    BY <1>0, <1>1, <2>1, <2>2, <2>3 DEF EntriesKnown
  <2>6. MarksLeft'
    <3>1. outcome[Root] = <<>> /\ <<>> # <<"Completed">>
      BY <1>0, <1>1 DEF MarksLeft
    <3> QED
      BY <1>0, <1>1, <2>1, <2>2, <3>1 DEF MarksLeft, After
  <2> QED
    BY <1>0, <1>1, <2>1, <2>4, <2>5, <2>6, RootKeeps DEF Types
<1> QED
  BY <1>3, <1>4 DEF ExamineEntry

\* What is done are entries.
LEMMA DoneEntries ==
  ASSUME SchedulerAssumption, dir \in DirType
  PROVE  \A n \in Done : n \in 1 .. Len(Files)
<1>1. dir.next \in 1 .. Len(Files) + 1 /\ Len(Files) \in Nat
  BY Manifest DEF DirType
<1> QED
  BY <1>1 DEF Done

\* A child that is joined is quiet, and leaves its entry complete or a mark.
LEMMA JoinKeeps ==
  ASSUME SchedulerAssumption, SchedulerInv, NEW c \in Children, c \in dir.active, Reported(c),
         dir.pc \in {"loop", "joining"},
         UNCHANGED <<reserved, path, stage, outcome, promoted, workspace, noted, paused, cancelled,
                     session, worker, queue, request>>,
         \/ Completed(c) /\ dir' = Completes([dir EXCEPT !.active = @ \ {c}], Entry(c))
         \/ \E f, s \in BOOLEAN :
              /\ dir' = [dir EXCEPT !.active = @ \ {c}, !.failed = f, !.stop = s]
              /\ (dir.failed => f) /\ (dir.stop => s) /\ (Root \in cancelled \/ f)
  PROVE  SchedulerInv'
<1>0. Types /\ ChildrenKnown /\ EntriesKnown /\ MarksLeft /\ Results
  BY DEF SchedulerInv
<1>1. PICK k \in 1 .. Len(Files) : Files[k] = c
  BY Manifest
<1>2. Entry(c) = k
  BY <1>1, Manifest DEF Entry
<1>3. stage[c] \in Quiet
  BY <1>0 DEF Reported, Results, Quiet, Over, FileTransfers
<1>t. \A n \in Done : n \in 1 .. Len(Files)
  BY <1>0, DoneEntries DEF Types
<1>4. k \in Done
  <2>1. PICK n \in Done : Files[n] = c
    <3>1. c \in {Files[n] : n \in Done}
      BY <1>0 DEF ChildrenKnown
    <3> QED
      BY <3>1
  <2> QED
    BY <1>1, <1>t, <2>1, Manifest
<1>5. Completed(c) => outcome[c] = <<"Completed">>
  <2>1. outcome[c] \in {<<>>} \cup {<<e>> : e \in Events}
    BY <1>0 DEF Types, Transfers, FileTransfers
  <2>2. \A e \in Events : <<e>>[1] = e
    OBVIOUS
  <2>3. ASSUME NEW e \in Events, outcome[c] = <<e>>, Completed(c)
        PROVE  outcome[c] = <<"Completed">>
    BY <2>2, <2>3 DEF Completed
  <2>4. Completed(c) => outcome[c] # <<>>
    BY DEF Completed
  <2> QED
    BY <2>1, <2>3, <2>4
<1>6. /\ dir' \in DirType /\ dir'.pc = dir.pc /\ dir'.next = dir.next
      /\ dir'.active = dir.active \ {c}
      /\ (dir.failed => dir'.failed) /\ (dir.stop => dir'.stop)
      /\ 1 .. dir'.checkpoint \subseteq dir'.completed
      /\ dir'.checkpoint + 1 \notin dir'.completed
      /\ \/ dir'.completed = dir.completed \cup {k} /\ outcome[c] = <<"Completed">>
         \/ dir'.completed = dir.completed /\ (Root \in cancelled \/ dir'.failed)
  <2>0. /\ dir \in DirType
        /\ 1 .. dir.checkpoint \subseteq dir.completed /\ dir.checkpoint + 1 \notin dir.completed
    BY <1>0 DEF EntriesKnown, Types
  <2>1. CASE Completed(c) /\ dir' = Completes([dir EXCEPT !.active = @ \ {c}], Entry(c))
    <3> DEFINE d == [dir EXCEPT !.active = @ \ {c}]
    <3>1. /\ d \in DirType /\ d.pc = dir.pc /\ d.next = dir.next /\ d.active = dir.active \ {c}
          /\ d.completed = dir.completed /\ d.checkpoint = dir.checkpoint
          /\ d.failed = dir.failed /\ d.stop = dir.stop
      BY <2>0 DEF DirType
    <3> HIDE DEF d
    <3>2. dir' = Completes(d, k)
      BY <1>2, <2>1 DEF d
    <3>3. 1 .. d.checkpoint \subseteq d.completed
      BY <2>0, <3>1
    <3>4. outcome[c] = <<"Completed">>
      BY <1>5, <2>1
    <3>5. /\ dir' \in DirType
          /\ dir'.pc = d.pc /\ dir'.next = d.next /\ dir'.active = d.active
          /\ dir'.failed = d.failed /\ dir'.stop = d.stop
          /\ dir'.completed = d.completed \cup {k}
          /\ 1 .. dir'.checkpoint \subseteq dir'.completed
          /\ dir'.checkpoint + 1 \notin dir'.completed
      BY <3>1, <3>2, <3>3, CompletesEntry
    <3> QED
      BY <3>1, <3>4, <3>5
  <2>2. ASSUME NEW f \in BOOLEAN, NEW s \in BOOLEAN,
               dir' = [dir EXCEPT !.active = @ \ {c}, !.failed = f, !.stop = s],
               dir.failed => f, dir.stop => s, Root \in cancelled \/ f
        PROVE  <1>6!1 /\ <1>6!2 /\ <1>6!3 /\ <1>6!4 /\ <1>6!5 /\ <1>6!6
    <3>1. /\ dir' \in DirType /\ dir'.pc = dir.pc /\ dir'.next = dir.next
          /\ dir'.active = dir.active \ {c}
          /\ dir'.completed = dir.completed /\ dir'.checkpoint = dir.checkpoint
          /\ dir'.failed = f /\ dir'.stop = s
      BY <2>0, <2>2 DEF DirType
    <3> QED
      BY <2>0, <2>2, <3>1
  <2> QED
    BY <2>1, <2>2
<1>7. Done' = Done
  BY <1>6 DEF Done
<1>8. ChildrenKnown'
  BY <1>0, <1>1, <1>3, <1>6, <1>7 DEF ChildrenKnown
<1>9. EntriesKnown'
  BY <1>0, <1>1, <1>4, <1>6, <1>7 DEF EntriesKnown
<1>10. MarksLeft'
  <2>1. outcome[Root] = <<>> /\ <<>> # <<"Completed">>
    BY <1>0 DEF MarksLeft
  <2>3. \A n \in Done : Files[n] = c => n = k
    BY <1>1, <1>t, Manifest
  <2>4. \/ Root \in cancelled \/ dir'.failed \/ dir'.stop
        \/ \A n \in Done : n \in dir'.completed \/ Files[n] \in dir'.active
    BY <1>0, <1>6, <2>3 DEF MarksLeft
  <2>5. dir.pc \in After => Root \in cancelled
    BY <1>0 DEF MarksLeft
  <2> QED
    BY <1>6, <1>7, <2>1, <2>4, <2>5 DEF MarksLeft
<1> QED
  BY <1>0, <1>6, <1>8, <1>9, <1>10, RootKeeps DEF Types

\* A cancellation of a child is a failure of the directory unless it was cancelled itself.
LEMMA JoinChildKeeps ==
  ASSUME SchedulerAssumption, SchedulerInv, NEW c \in Children, JoinChild(c) \/ JoinRemaining(c)
  PROVE  SchedulerInv'
<1>0. Types /\ MarksLeft /\ dir \in DirType /\ dir.failed \in BOOLEAN /\ dir.stop \in BOOLEAN
  BY DEF SchedulerInv, Types, DirType
<1>1. /\ c \in dir.active /\ Reported(c) /\ dir.pc \in {"loop", "joining"}
      /\ UNCHANGED <<reserved, path, stage, outcome, promoted, workspace, noted, paused, cancelled,
                     session, worker, queue, request>>
  BY DEF JoinChild, JoinRemaining, control, rest, task
<1> DEFINE d == [dir EXCEPT !.active = @ \ {c}]
           With(f, s) == [dir EXCEPT !.active = @ \ {c}, !.failed = f, !.stop = s]
<1>2. CASE Completed(c)
  <2>1. dir' = Completes(d, Entry(c))
    BY <1>2 DEF JoinChild, JoinRemaining
  <2> QED
    BY <1>1, <1>2, <2>1, JoinKeeps
<1>3. CASE ~Completed(c)
  <2>1. \E f, s \in BOOLEAN :
          /\ dir' = With(f, s)
          /\ (dir.failed => f) /\ (dir.stop => s) /\ (Root \in cancelled \/ f)
    <3>1. CASE JoinChild(c)
      <4>1. CASE outcome[c] = <<"Cancelled">>
        <5>1. dir' = [d EXCEPT !.failed = @ \/ Root \notin cancelled]
          BY <1>3, <3>1, <4>1 DEF JoinChild
        <5>2. dir' = With(dir.failed \/ Root \notin cancelled, dir.stop)
          BY <1>0, <5>1 DEF DirType
        <5> QED
          BY <1>0, <5>2
      <4>2. CASE outcome[c] # <<"Cancelled">>
        <5>1. dir' = [d EXCEPT !.failed = TRUE, !.stop = @ \/ worker = "removed"]
          BY <1>3, <3>1, <4>2 DEF JoinChild
        <5>2. dir' = With(TRUE, dir.stop \/ worker = "removed")
          BY <1>0, <5>1 DEF DirType
        <5> QED
          BY <1>0, <5>2
      <4> QED
        BY <4>1, <4>2
    <3>2. CASE JoinRemaining(c)
      <4>1. CASE outcome[c] = <<"Cancelled">>
        <5>1. dir' = d /\ dir.pc = "joining"
          BY <1>3, <3>2, <4>1 DEF JoinRemaining
        <5>2. dir' = With(dir.failed, dir.stop)
          BY <1>0, <5>1 DEF DirType
        <5>3. Root \in cancelled
          BY <1>0, <1>1, <5>1 DEF MarksLeft, After
        <5> QED
          BY <1>0, <5>2, <5>3
      <4>2. CASE outcome[c] # <<"Cancelled">>
        <5>1. dir' = [d EXCEPT !.failed = TRUE]
          BY <1>3, <3>2, <4>2 DEF JoinRemaining
        <5>2. dir' = With(TRUE, dir.stop)
          BY <1>0, <5>1 DEF DirType
        <5> QED
          BY <1>0, <5>2
      <4> QED
        BY <4>1, <4>2
    <3> QED
      BY <3>1, <3>2
  <2> QED
    BY <1>1, <2>1, JoinKeeps
<1> QED
  BY <1>2, <1>3

-----------------------------------------------------------------------------
(* Children begin and are submitted by the directory's task.               *)

\* A child that could not be reserved is skipped with a mark.
LEMMA BeginChildKeeps ==
  ASSUME SchedulerAssumption, SchedulerInv, BeginChild
  PROVE  SchedulerInv'
<1>0. Types /\ ChildrenKnown /\ EntriesKnown /\ MarksLeft
  BY DEF SchedulerInv
<1>1. /\ UNCHANGED <<outcome, promoted, noted, paused, cancelled, session, worker, queue, request>>
      /\ dir.pc = "begin" /\ dir \in DirType /\ Len(Files) \in Nat /\ dir.next \in 1 .. Len(Files)
      /\ Child \in Children /\ Child \in FileTransfers
      /\ Reserve(Child, Append(RootPath, Child))
  <2>1. /\ dir.pc = "begin" /\ dir \in DirType /\ Len(Files) \in Nat /\ dir.next <= Len(Files)
    BY <1>0, Manifest DEF BeginChild, Types, EntriesKnown
  <2>2. dir.next \in 1 .. Len(Files)
    BY <2>1 DEF DirType
  <2>3. Child \in Children /\ Child \in FileTransfers
    BY <2>2, Manifest DEF Child, FileTransfers
  <2> QED
    BY <2>1, <2>2, <2>3 DEF BeginChild, control
<1> DEFINE p == Append(RootPath, Child)
<1> HIDE DEF p
<1>2. /\ dir' \in DirType /\ dir'.active = dir.active /\ dir'.completed = dir.completed
      /\ dir'.checkpoint = dir.checkpoint /\ dir'.stop = dir.stop
      /\ \/ MayReserve(Child, p) /\ dir'.pc = "submit" /\ dir'.next = dir.next
              /\ dir'.failed = dir.failed
         \/ ~MayReserve(Child, p) /\ dir'.pc = "loop" /\ dir'.next = dir.next + 1 /\ dir'.failed
  <2>1. CASE MayReserve(Child, p)
    <3>1. dir' = [dir EXCEPT !.pc = "submit"]
      BY <2>1 DEF BeginChild, p
    <3> QED
      BY <1>1, <2>1, <3>1 DEF DirType, Pcs, Looping
  <2>2. CASE ~MayReserve(Child, p)
    <3>1. dir' = [dir EXCEPT !.pc = "loop", !.next = dir.next + 1, !.failed = TRUE]
      BY <2>2 DEF BeginChild, p
    <3>2. dir.next + 1 \in 1 .. Len(Files) + 1
      BY <1>1
    <3> QED
      BY <1>1, <2>2, <3>1, <3>2 DEF DirType, Pcs, Looping
  <2> QED
    BY <2>1, <2>2
<1>3. dir'.pc \in Looping /\ dir'.pc \notin {"none", "over"}
  BY <1>2 DEF Looping
<1>4. /\ Reservations' /\ Queued' /\ Results' /\ SlotsHeld'
      /\ reserved' \subseteq Transfers /\ workspace' \subseteq FileTransfers
      /\ path' = [u \in Transfers |-> path'[u]]
      /\ stage' \in [FileTransfers -> Stages]
      /\ stage[Child] = "none"
      /\ \A u \in FileTransfers \ {Child} : stage'[u] = stage[u]
      /\ IF MayReserve(Child, p) THEN stage'[Child] = "reserved" ELSE stage'[Child] = "rejected"
  BY <1>1, <1>3, ReserveFiles DEF p
<1>5. Types'
  BY <1>0, <1>1, <1>2, <1>4 DEF Types
<1>6. /\ \A n \in 1 .. Len(Files) : n # dir.next => stage'[Files[n]] = stage[Files[n]]
      /\ stage'[Files[dir.next]] = stage'[Child]
  BY <1>1, <1>4, Manifest DEF Child, FileTransfers
<1>7. Done \subseteq Done' /\ \A n \in Done' : n \in Done \/ (n = dir.next /\ dir'.failed)
  <2>1. \A x \in 1 .. Len(Files) :
          1 .. x - 1 \subseteq 1 .. (x + 1) - 1 /\ \A n \in 1 .. (x + 1) - 1 : n \in 1 .. x - 1 \/ n = x
    BY <1>1
  <2> QED
    BY <1>1, <1>2, <2>1 DEF Done
<1>8. ChildrenKnown'
  <2>1. dir'.active \subseteq {Files[n] : n \in Done'}
    BY <1>0, <1>2, <1>7 DEF ChildrenKnown
  <2>2. ASSUME NEW n \in 1 .. Len(Files), n > dir'.next \/ (n = dir'.next /\ dir'.pc # "submit")
        PROVE  stage'[Files[n]] = "none"
    <3>1. n > dir.next
      BY <1>1, <1>2, <2>2
    <3>2. stage[Files[n]] = "none" /\ n # dir.next
      BY <1>0, <1>1, <3>1 DEF ChildrenKnown
    <3> QED
      BY <1>6, <3>2
  <2>3. ASSUME NEW n \in 1 .. Len(Files)
        PROVE  \/ stage'[Files[n]] \in Quiet \/ Files[n] \in dir'.active
               \/ dir'.pc = "submit" /\ n = dir'.next
    <3>1. CASE n = dir.next
      BY <1>2, <1>4, <1>6, <3>1 DEF Quiet, Over
    <3>2. CASE n # dir.next
      BY <1>0, <1>1, <1>2, <1>6, <3>2 DEF ChildrenKnown
    <3> QED
      BY <3>1, <3>2
  <2> QED
    BY <1>3, <2>1, <2>2, <2>3 DEF ChildrenKnown
<1>9. EntriesKnown'
  <2>1. dir.completed \subseteq Done /\ dir.next \notin Done
    BY <1>0, <1>1 DEF EntriesKnown, Done
  <2>2. \A n \in dir.completed : n \in 1 .. Len(Files) /\ n # dir.next
    BY <1>1, <2>1 DEF DirType
  <2> QED
    BY <1>0, <1>1, <1>2, <1>6, <1>7, <2>1, <2>2 DEF EntriesKnown
<1>10. MarksLeft'
  <2>1. outcome[Root] = <<>> /\ <<>> # <<"Completed">>
    BY <1>0, <1>1 DEF MarksLeft
  <2> QED
    BY <1>0, <1>1, <1>2, <1>7, <2>1 DEF MarksLeft, After
<1> QED
  BY <1>4, <1>5, <1>8, <1>9, <1>10 DEF SchedulerInv

\* A child that was queued is waited for; one that was not is skipped with a mark.
LEMMA SubmitChildKeeps ==
  ASSUME SchedulerAssumption, SchedulerInv, SubmitChild
  PROVE  SchedulerInv'
<1>0. Types /\ ChildrenKnown /\ EntriesKnown /\ MarksLeft
  BY DEF SchedulerInv
<1>1. /\ UNCHANGED <<path, outcome, promoted, noted, paused, session, worker, request>>
      /\ dir.pc = "submit" /\ dir \in DirType /\ Len(Files) \in Nat /\ dir.next \in 1 .. Len(Files)
      /\ Child \in Children /\ Child \in FileTransfers
      /\ Submit(Child)
  <2>1. /\ dir.pc = "submit" /\ dir \in DirType /\ Len(Files) \in Nat /\ dir.next <= Len(Files)
    BY <1>0, Manifest DEF SubmitChild, Types, EntriesKnown
  <2>2. dir.next \in 1 .. Len(Files)
    BY <2>1 DEF DirType
  <2>3. Child \in Children /\ Child \in FileTransfers
    BY <2>2, Manifest DEF Child, FileTransfers
  <2> QED
    BY <2>1, <2>2, <2>3 DEF SubmitChild
<1>2. /\ dir' \in DirType /\ dir'.pc = "loop" /\ dir'.next = dir.next + 1
      /\ dir'.completed = dir.completed /\ dir'.checkpoint = dir.checkpoint
      /\ (dir.failed => dir'.failed) /\ (dir.stop => dir'.stop)
      /\ \/ Accepts /\ dir'.active = dir.active \cup {Child}
         \/ ~Accepts /\ dir'.active = dir.active /\ dir'.failed
      /\ cancelled \subseteq cancelled' /\ cancelled' \subseteq cancelled \cup {Child}
  <2>0. dir.next + 1 \in 1 .. Len(Files) + 1
    BY <1>1
  <2>1. CASE Accepts
    <3>1. /\ dir' = [dir EXCEPT !.pc = "loop", !.next = dir.next + 1,
                                !.active = dir.active \cup {Child}]
          /\ cancelled' = IF Root \in cancelled THEN cancelled \cup {Child} ELSE cancelled
      BY <1>1, <2>1 DEF SubmitChild, DirType
    <3> QED
      BY <1>1, <2>0, <2>1, <3>1 DEF DirType, Pcs, Looping
  <2>2. CASE ~Accepts
    <3>1. /\ dir' = [dir EXCEPT !.pc = "loop", !.next = dir.next + 1, !.failed = TRUE,
                                !.stop = dir.stop \/ worker \in {"gone", "removed"}]
          /\ cancelled' = cancelled
      BY <1>1, <2>2 DEF SubmitChild, DirType
    <3> QED
      BY <1>1, <2>0, <2>2, <3>1 DEF DirType, Pcs, Looping
  <2> QED
    BY <2>1, <2>2
<1>4. /\ Reservations' /\ Queued' /\ Results' /\ SlotsHeld'
      /\ reserved' \subseteq Transfers /\ workspace' \subseteq FileTransfers
      /\ stage' \in [FileTransfers -> Stages]
      /\ stage[Child] = "reserved"
      /\ \A u \in FileTransfers \ {Child} : stage'[u] = stage[u]
      /\ IF Accepts THEN stage'[Child] = "queued" ELSE stage'[Child] = "rejected"
  BY <1>1, <1>2, SubmitFiles
<1>5. Types'
  <2>1. cancelled' \subseteq Transfers
    BY <1>0, <1>1, <1>2 DEF Types, Transfers
  <2> QED
    BY <1>0, <1>1, <1>2, <1>4, <2>1 DEF Types
<1>6. /\ \A n \in 1 .. Len(Files) : n # dir.next => stage'[Files[n]] = stage[Files[n]]
      /\ Files[dir.next] = Child
  BY <1>1, <1>4, Manifest DEF Child, FileTransfers
<1>7. Done' = Done \cup {dir.next}
  <2>1. \A x \in 1 .. Len(Files) : 1 .. (x + 1) - 1 = (1 .. x - 1) \cup {x}
    BY <1>1
  <2> QED
    BY <1>1, <1>2, <2>1 DEF Done
<1>8. ChildrenKnown'
  <2>1. dir'.active \subseteq {Files[n] : n \in Done'}
    BY <1>0, <1>2, <1>6, <1>7 DEF ChildrenKnown
  <2>2. ASSUME NEW n \in 1 .. Len(Files), n > dir'.next \/ n = dir'.next
        PROVE  stage'[Files[n]] = "none"
    <3>1. n > dir.next
      BY <1>1, <1>2, <2>2
    <3>2. stage[Files[n]] = "none" /\ n # dir.next
      BY <1>0, <1>1, <3>1 DEF ChildrenKnown
    <3> QED
      BY <1>6, <3>2
  <2>3. ASSUME NEW n \in 1 .. Len(Files)
        PROVE  stage'[Files[n]] \in Quiet \/ Files[n] \in dir'.active
    <3>1. CASE n = dir.next
      BY <1>2, <1>4, <1>6, <3>1 DEF Quiet, Over
    <3>2. CASE n # dir.next
      BY <1>0, <1>1, <1>2, <1>6, <3>2 DEF ChildrenKnown
    <3> QED
      BY <3>1, <3>2
  <2> QED
    BY <1>2, <2>1, <2>2, <2>3 DEF ChildrenKnown, Looping
<1>9. EntriesKnown'
  <2>1. dir.completed \subseteq Done /\ dir.next \notin Done
    BY <1>0, <1>1 DEF EntriesKnown, Done
  <2>2. \A n \in dir.completed : n \in 1 .. Len(Files) /\ n # dir.next
    BY <1>1, <2>1 DEF DirType
  <2> QED
    BY <1>0, <1>1, <1>2, <1>6, <1>7, <2>1, <2>2 DEF EntriesKnown
<1>10. MarksLeft'
  <2>1. outcome[Root] = <<>> /\ <<>> # <<"Completed">>
    BY <1>0, <1>1 DEF MarksLeft
  <2>2. \/ Root \in cancelled \/ dir'.failed \/ dir'.stop
        \/ \A n \in Done' : n \in dir'.completed \/ Files[n] \in dir'.active
    BY <1>0, <1>2, <1>6, <1>7 DEF MarksLeft
  <2> QED
    BY <1>1, <1>2, <2>1, <2>2 DEF MarksLeft, After
<1> QED
  BY <1>4, <1>5, <1>8, <1>9, <1>10 DEF SchedulerInv

-----------------------------------------------------------------------------
(* The end of a directory.                                                 *)

\* A cancelled directory cancels its children.
LEMMA CancelFamilyKeeps ==
  ASSUME SchedulerAssumption, SchedulerInv, CancelFamily
  PROVE  SchedulerInv'
<1>0. Types /\ ChildrenKnown /\ EntriesKnown /\ MarksLeft
  BY DEF SchedulerInv
<1>1. /\ dir.pc = "leaving" /\ dir' = [dir EXCEPT !.pc = "joining"]
      /\ UNCHANGED <<reserved, path, stage, outcome, promoted, workspace, noted, paused, session,
                     worker, queue, request>>
      /\ cancelled \subseteq cancelled' /\ cancelled' \subseteq cancelled \cup reserved
  BY DEF CancelFamily, AlsoCancelled, rest, task
<1>2. /\ dir' \in DirType /\ dir'.pc = "joining"
      /\ dir'.next = dir.next /\ dir'.active = dir.active /\ dir'.completed = dir.completed
      /\ dir'.checkpoint = dir.checkpoint /\ dir'.failed = dir.failed /\ dir'.stop = dir.stop
  BY <1>0, <1>1 DEF Types, DirType, Pcs, After
<1>3. ChildrenKnown'
  BY <1>0, <1>1, <1>2 DEF ChildrenKnown, Done, Looping, After
<1>4. EntriesKnown'
  BY <1>0, <1>1, <1>2 DEF EntriesKnown, Done
<1>5. MarksLeft'
  BY <1>0, <1>1, <1>2 DEF MarksLeft, Done, After
<1> QED
  BY <1>0, <1>1, <1>2, <1>3, <1>4, <1>5, RootKeeps DEF Types

\* A directory succeeds when it was not cancelled, nothing has failed and its checkpoint is
\* at the end.
LEMMA ReportRootKeeps ==
  ASSUME SchedulerAssumption, SchedulerInv, ReportRoot
  PROVE  SchedulerInv'
<1>0. Types /\ ChildrenKnown /\ EntriesKnown /\ MarksLeft
  BY DEF SchedulerInv
<1>1. /\ dir.pc = "joining" /\ dir.active = {} /\ dir' = [dir EXCEPT !.pc = "reported"]
      /\ UNCHANGED <<reserved, path, stage, promoted, workspace, noted, paused, cancelled,
                     session, worker, queue, request>>
  BY DEF ReportRoot, NoneLeft, control, rest, task
<1> DEFINE e == DirectoryResult
<1>2. /\ outcome' \in [Transfers -> {<<>>} \cup {<<x>> : x \in Events}]
      /\ \A t \in FileTransfers : outcome'[t] = outcome[t]
      /\ outcome'[Root] = <<e>>
  <2>1. outcome[Root] = <<>> /\ Root \in Transfers /\ Root \notin FileTransfers
        /\ FileTransfers \subseteq Transfers
    BY <1>0, <1>1, Manifest DEF MarksLeft, Transfers
  <2>2. outcome' = [outcome EXCEPT ![Root] = <<e>>]
    <3>1. Append(<<>>, e) = <<e>>
      OBVIOUS
    <3> QED
      BY <2>1, <3>1 DEF ReportRoot, Emit
  <2>3. e \in Events
    BY DEF DirectoryResult, Events
  <2> HIDE DEF e
  <2> QED
    BY <1>0, <2>1, <2>2, <2>3 DEF Types
<1>3. /\ dir' \in DirType /\ dir'.pc = "reported"
      /\ dir'.next = dir.next /\ dir'.active = {} /\ dir'.completed = dir.completed
      /\ dir'.checkpoint = dir.checkpoint /\ dir'.failed = dir.failed /\ dir'.stop = dir.stop
  BY <1>0, <1>1 DEF Types, DirType, Pcs
<1>4. e = "Completed" => dir.checkpoint = Len(Files)
  <2> SUFFICES ASSUME e = "Completed"
               PROVE  dir.checkpoint = Len(Files)
    OBVIOUS
  <2>1. Root \notin cancelled /\ ~dir.failed /\ ~dir.stop
    BY DEF DirectoryResult
  <2>2. dir.next = Len(Files) + 1 /\ \A n \in Done : n \in dir.completed
    BY <1>0, <1>1, <2>1 DEF MarksLeft, After
  <2>3. Len(Files) \in Nat /\ dir.checkpoint \in 0 .. Len(Files)
    BY <1>0, Manifest DEF Types, DirType
  <2>4. \A n \in 1 .. Len(Files) : n \in dir.completed
    BY <2>2, <2>3 DEF Done
  <2>5. dir.checkpoint + 1 \notin dir.completed
    BY <1>0 DEF EntriesKnown
  <2> QED
    BY <2>3, <2>4, <2>5
<1>5. ChildrenKnown'
  BY <1>0, <1>1, <1>3 DEF ChildrenKnown, Done
<1>6. EntriesKnown'
  <2>1. \A n \in dir.completed : Files[n] \in FileTransfers
    BY <1>0, Manifest DEF Types, DirType, FileTransfers
  <2> QED
    BY <1>0, <1>1, <1>2, <1>3, <2>1 DEF EntriesKnown, Done
<1>7. MarksLeft'
  <2>1. <<e>> # <<>> /\ (<<e>> = <<"Completed">> => e = "Completed")
    OBVIOUS
  <2> HIDE DEF e
  <2> QED
    BY <1>0, <1>1, <1>2, <1>3, <1>4, <2>1 DEF MarksLeft, Done, After
<1> QED
  BY <1>0, <1>1, <1>2, <1>3, <1>5, <1>6, <1>7, RootKeeps DEF Types

\* The reservation of a directory is forgotten after its last event.
LEMMA ForgetRootKeeps ==
  ASSUME SchedulerAssumption, SchedulerInv, ForgetRoot
  PROVE  SchedulerInv'
<1>0. /\ Types /\ Reservations /\ Queued /\ Results /\ SlotsHeld
      /\ ChildrenKnown /\ EntriesKnown /\ MarksLeft
  BY DEF SchedulerInv
<1>1. /\ dir.pc = "reported" /\ dir' = [dir EXCEPT !.pc = "over"] /\ reserved' = reserved \ {Root}
      /\ UNCHANGED <<path, stage, outcome, promoted, workspace, noted, paused, cancelled, session,
                     worker, queue, request>>
  BY DEF ForgetRoot, control, rest, task
<1>2. /\ dir' \in DirType /\ dir'.pc = "over"
      /\ dir'.next = dir.next /\ dir'.active = dir.active /\ dir'.completed = dir.completed
      /\ dir'.checkpoint = dir.checkpoint /\ dir'.failed = dir.failed /\ dir'.stop = dir.stop
  BY <1>0, <1>1 DEF Types, DirType, Pcs
<1>3. Types'
  BY <1>0, <1>1, <1>2 DEF Types
<1>4. Reservations'
  <2>1. \A u, v \in reserved' : u # v => Apart(u, v)'
    BY <1>0, <1>1 DEF Reservations, Apart
  <2> QED
    BY <1>0, <1>1, <1>2, <2>1, Manifest DEF Reservations
<1>5. Queued' /\ Results' /\ SlotsHeld'
  BY <1>0, <1>1 DEF Queued, Results, SlotsHeld, SlotHolders
<1>6. ChildrenKnown'
  BY <1>0, <1>1, <1>2 DEF ChildrenKnown, Done, Looping, After
<1>7. EntriesKnown'
  BY <1>0, <1>1, <1>2 DEF EntriesKnown, Done
<1>8. MarksLeft'
  BY <1>0, <1>1, <1>2 DEF MarksLeft, Done, After
<1> QED
  BY <1>3, <1>4, <1>5, <1>6, <1>7, <1>8 DEF SchedulerInv

-----------------------------------------------------------------------------
(* The theorems.                                                           *)

\* Nothing is reserved, queued or known at first.
LEMMA SchedulerInit == ASSUME SchedulerAssumption, Init PROVE SchedulerInv
<1>1. /\ reserved = {} /\ path = [t \in Transfers |-> RootPath]
      /\ stage = [t \in FileTransfers |-> "none"] /\ outcome = [t \in Transfers |-> <<>>]
      /\ promoted = {} /\ workspace = {} /\ noted = {} /\ paused = {} /\ cancelled = {}
      /\ session = "live" /\ worker = "running" /\ queue = <<>>
      /\ request = [c \in Clients |-> Idle]
      /\ dir = [pc |-> "none", next |-> 1, active |-> {}, completed |-> {}, checkpoint |-> 0,
                failed |-> FALSE, stop |-> FALSE]
      /\ Len(Files) \in Nat /\ Root \notin FileTransfers /\ Root \in Transfers
      /\ \A n \in 1 .. Len(Files) : Files[n] \in FileTransfers
  BY Manifest DEF Init, Transfers, FileTransfers
<1>2. dir \in DirType
  BY <1>1 DEF DirType, Pcs
<1>3. /\ dir.pc = "none" /\ dir.next = 1 /\ dir.active = {} /\ dir.completed = {}
      /\ dir.checkpoint = 0
  BY <1>1
<1>4. Types
  <2>1. stage \in [FileTransfers -> Stages] /\ outcome \in [Transfers -> {<<>>} \cup {<<e>> : e \in Events}]
    BY <1>1 DEF Stages, Over
  <2>2. request \in [Clients -> [kind : RequestKinds,
                                 left : SUBSET Transfers]]
    BY <1>1 DEF Idle, RequestKinds
  <2> QED
    BY <1>1, <1>2, <2>1, <2>2 DEF Types
<1>5. Reservations
  BY <1>1, <1>3 DEF Reservations, Running, Holding, Writing
<1>6. Queued
  <2>1. <<>> \in Seq(FileTransfers) /\ Len(<<>>) = 0 /\ QueueSize \in Nat
    BY DEF SchedulerAssumption
  <2> QED
    BY <1>1, <2>1 DEF Queued
<1>7. Results
  <2>1. <<>> # <<"Completed">> /\ <<>> # <<"Cancelled">>
    OBVIOUS
  <2> QED
    BY <1>1, <2>1 DEF Results, Transfers
<1>8. SlotsHeld
  <2>1. SlotHolders = {}
    BY <1>1 DEF SlotHolders, Holding, Writing
  <2> QED
    BY <2>1, FS_EmptySet DEF SlotsHeld, SchedulerAssumption
<1>9. ChildrenKnown
  BY <1>1, <1>3 DEF ChildrenKnown, Quiet, Over, Looping, After
<1>10. EntriesKnown
  BY <1>1, <1>3 DEF EntriesKnown, Done
<1>11. MarksLeft
  <2>1. <<>> # <<"Completed">> /\ Done = {}
    BY <1>3 DEF Done
  <2> QED
    BY <1>1, <1>3, <2>1 DEF MarksLeft, After
<1> QED
  BY <1>4, <1>5, <1>6, <1>7, <1>8, <1>9, <1>10, <1>11 DEF SchedulerInv

\* A step of somebody else.
LEMMA SchedulerStutter ==
  ASSUME SchedulerAssumption, SchedulerInv, UNCHANGED vars
  PROVE  SchedulerInv'
<1>1. /\ UNCHANGED <<reserved, path, stage, outcome, promoted, workspace, noted, paused, cancelled>>
      /\ UNCHANGED <<session, worker, queue, request, dir>>
  BY DEF vars, control
<1>2. Types'
  BY <1>1 DEF SchedulerInv, Types
<1> QED
  BY <1>1, <1>2, ControlsKeep

\* The invariant holds in every state of every behaviour.
LEMMA SchedulerInvAlways == ASSUME SchedulerAssumption PROVE Spec => []SchedulerInv
<1>1. Init => SchedulerInv
  BY SchedulerInit
<1>2. SchedulerInv /\ [Next]_vars => SchedulerInv'
  <2> SUFFICES ASSUME SchedulerInv, [Next]_vars PROVE SchedulerInv'
    OBVIOUS
  <2>1. ASSUME NEW t \in Singles, SubmitSingle(t) \/ \E p \in Paths : BeginSingle(t, p)
        PROVE  SchedulerInv'
    BY <2>1, SubmitSingleKeeps, BeginSingleKeeps
  <2>2. ASSUME NEW t \in FileTransfers, FileStep(t) \/ AcquireSlot(t) \/ Refuse(t)
        PROVE  SchedulerInv'
    BY <2>2, TaskStep, ReportKeeps, TaskEndsKeeps, ForgetKeeps DEF FileStep
  <2>3. CASE BeginRoot  BY <2>3, BeginRootKeeps
  <2>4. CASE Scan  BY <2>4, ScanKeeps
  <2>5. CASE CreateDirectories \/ DirectoriesCreated \/ TakeEntry \/ EntryCancelled \/ LeaveLoop
    BY <2>5, PlaceKeeps
  <2>6. CASE ExamineEntry  BY <2>6, ExamineKeeps
  <2>7. CASE BeginChild  BY <2>7, BeginChildKeeps
  <2>8. CASE SubmitChild  BY <2>8, SubmitChildKeeps
  <2>9. CASE \E c \in Children : JoinChild(c) \/ JoinRemaining(c)
    BY <2>9, JoinChildKeeps
  <2>10. CASE CancelFamily  BY <2>10, CancelFamilyKeeps
  <2>11. CASE ReportRoot  BY <2>11, ReportRootKeeps
  <2>12. CASE ForgetRoot  BY <2>12, ForgetRootKeeps
  <2>13. CASE EndSession \/ StopWorker \/ SessionRemoved  BY <2>13, SessionKeeps
  <2>14. CASE Accept  BY <2>14, AcceptKeeps
  <2>15. CASE WorkerGone  BY <2>15, WorkerGoneKeeps
  <2>16. ASSUME NEW c \in Clients,
                \/ \E t \in Singles \cup {Root}, k \in {"pause", "resume", "cancel"} : Request(c, k, t)
                \/ CancelSession(c) \/ CollectControls(c)
                \/ \E t \in Transfers : Reach(c, t)
         PROVE  SchedulerInv'
    BY <2>16, RequestKeeps, ReachKeeps
  <2>17. CASE UNCHANGED vars  BY <2>17, SchedulerStutter
  <2>18. CASE RootStep
    BY <2>18, <2>4, <2>5, <2>6, <2>7, <2>8, <2>9, <2>10, <2>11, <2>12 DEF RootStep
  <2>19. CASE WorkerStep
    BY <2>19, <2>13, <2>14, <2>15 DEF WorkerStep
  <2> QED
    BY <2>1, <2>2, <2>3, <2>13, <2>16, <2>17, <2>18, <2>19 DEF Next
<1> QED
  BY <1>1, <1>2, PTL DEF Spec

\* The slots and the queue of the worker keep their limits, whatever is reserved,
\* accepted, paused and dropped.
THEOREM LimitsAreKept == ASSUME SchedulerAssumption PROVE Spec => []TypeOK
<1>1. SchedulerInv => TypeOK
  <2> SUFFICES ASSUME SchedulerInv PROVE TypeOK
    OBVIOUS
  <2>1. \A t \in Transfers : outcome[t] \in Seq({"Completed", "Cancelled", "Failed"})
    <3>1. \A t \in Transfers : outcome[t] \in {<<>>} \cup {<<e>> : e \in Events}
      BY DEF SchedulerInv, Types
    <3>2. <<>> \in Seq(Events) /\ \A e \in Events : <<e>> \in Seq(Events)
      OBVIOUS
    <3>3. \A t \in Transfers : outcome[t] \in Seq(Events)
      BY <3>1, <3>2
    <3> QED
      BY <3>3 DEF Events
  <2>2. promoted \cup workspace \cup noted \cup paused \cup cancelled \subseteq Transfers
    BY DEF SchedulerInv, Types, Transfers
  <2>3. stage \in [FileTransfers -> Stages]
    BY DEF SchedulerInv, Types
  <2>4. Cardinality({t \in FileTransfers : stage[t] \in Holding}) <= Slots
    BY DEF SchedulerInv, SlotsHeld, SlotHolders
  <2>5. \A c \in Clients : request[c].left \subseteq Transfers
    BY DEF SchedulerInv, Types
  <2>6. dir.next \in 1 .. Len(Files) + 1 /\ dir.checkpoint \in 0 .. Len(Files)
    BY DEF SchedulerInv, Types, DirType
  <2> QED
    BY <2>1, <2>2, <2>3, <2>4, <2>5, <2>6 DEF SchedulerInv, Types, Queued, TypeOK, Stages
<1> QED
  BY <1>1, SchedulerInvAlways, PTL

\* No two running transfers write to one file, and none writes below a directory that
\* another transfer fills, except its children: the reservations in the map are pairwise
\* without conflict, and a transfer keeps its own until it has reported.
THEOREM WritesAreExclusive == ASSUME SchedulerAssumption PROVE Spec => []WriteExclusive
<1>1. SchedulerInv => WriteExclusive
  <2> SUFFICES ASSUME SchedulerInv, NEW t \in FileTransfers, NEW u \in FileTransfers,
                      stage[t] \in Writing
               PROVE  /\ t # u /\ stage[u] \in Writing /\ SameEndpoint(t, u) => path[t] # path[u]
                      /\ t \in Singles /\ SameEndpoint(t, Root) /\ dir.pc \notin {"none", "over"}
                           => ~IsPrefix(RootPath, path[t])
    BY DEF WriteExclusive
  <2>1. Reservations
    BY DEF SchedulerInv
  <2>2. \A v \in FileTransfers : stage[v] \in Writing => v \in reserved
    <3>1. Writing \subseteq Running
      BY DEF Writing, Holding, Running
    <3> QED
      BY <2>1, <3>1 DEF Reservations
  <2>3. Root \notin FileTransfers /\ Root \notin Children /\ Singles \cap Children = {}
    BY Manifest DEF FileTransfers
  <2>4. ASSUME t # u, stage[u] \in Writing, SameEndpoint(t, u)
        PROVE  path[t] # path[u]
    <3>1. Apart(t, u)
      BY <2>1, <2>2, <2>4 DEF Reservations
    <3> QED
      BY <2>3, <2>4, <3>1 DEF Apart, Parent, Conflict
  <2>5. ASSUME t \in Singles, SameEndpoint(t, Root), dir.pc \notin {"none", "over"}
        PROVE  ~IsPrefix(RootPath, path[t])
    <3>1. Root \in reserved /\ t \in reserved /\ t # Root /\ path[Root] = RootPath
      BY <2>1, <2>2, <2>3, <2>5 DEF Reservations
    <3>2. Apart(t, Root)
      BY <2>1, <3>1 DEF Reservations
    <3>3. ~Conflict(path[t], FALSE, RootPath, TRUE)
      BY <2>3, <2>5, <3>1, <3>2 DEF Apart, Parent
    <3> QED
      BY <3>3 DEF Conflict, IsStrictPrefix
  <2> QED
    BY <2>4, <2>5
<1> QED
  BY <1>1, SchedulerInvAlways, PTL

\* What is reported of a transfer is true of its files, none of the children of a directory
\* outlives its report, and its checkpoint passes complete entries only: whatever order the
\* children end in, and whatever is cancelled, refused or dropped on the way.
THEOREM TransfersAreTruthful == ASSUME SchedulerAssumption PROVE Spec => []TransfersTruthful
<1>1. SchedulerInv => TransfersTruthful
  <2> SUFFICES ASSUME SchedulerInv PROVE TransfersTruthful
    OBVIOUS
  <2>0. Types /\ Results /\ ChildrenKnown /\ EntriesKnown /\ MarksLeft
    BY DEF SchedulerInv
  <2>1. OutcomeTruthful
    <3>1. \A t \in FileTransfers : outcome[t] \in {<<>>} \cup {<<e>> : e \in Events}
      BY <2>0 DEF Types, Transfers
    <3>2. Len(<<>>) <= 1 /\ \A e \in Events : Len(<<e>>) <= 1
      OBVIOUS
    <3>3. \A t \in FileTransfers : Len(outcome[t]) <= 1
      BY <3>1, <3>2
    <3> QED
      BY <2>0, <3>3 DEF Results, OutcomeTruthful
  <2>2. NoChildOutlivesRoot
    <3> SUFFICES ASSUME dir.pc \in {"reported", "over"}, NEW c \in Children
                 PROVE  stage[c] \in Quiet
      BY DEF NoChildOutlivesRoot, Quiet
    <3>1. PICK n \in 1 .. Len(Files) : Files[n] = c
      BY Manifest
    <3>2. dir.active = {}
      BY <2>0 DEF ChildrenKnown, Looping, After
    <3> QED
      BY <2>0, <3>1, <3>2 DEF ChildrenKnown
  <2>3. CheckpointTruthful
    <3>1. /\ dir.next \in 1 .. Len(Files) + 1 /\ dir.checkpoint \in 0 .. Len(Files)
          /\ Len(Files) \in Nat
      BY <2>0, Manifest DEF Types, DirType
    <3>2. 1 .. dir.checkpoint \subseteq dir.completed /\ 1 .. dir.checkpoint \subseteq 1 .. dir.next - 1
      BY <2>0 DEF EntriesKnown, Done
    <3>3. dir.checkpoint < dir.next
      BY <3>1, <3>2
    <3> QED
      BY <2>0, <3>2, <3>3 DEF EntriesKnown, MarksLeft, CheckpointTruthful
  <2> QED
    BY <2>1, <2>2, <2>3 DEF TransfersTruthful
<1> QED
  BY <1>1, SchedulerInvAlways, PTL

\* A workspace on disk belongs to a download that runs, that failed, or that can be resumed,
\* or to a command that was dropped with the worker.
THEOREM NoWorkspaceIsOrphaned == ASSUME SchedulerAssumption PROVE Spec => []NoOrphanWorkspace
<1>1. SchedulerInv => NoOrphanWorkspace
  BY DEF SchedulerInv, Types, Results, NoOrphanWorkspace
<1> QED
  BY <1>1, SchedulerInvAlways, PTL
==============================================================================
