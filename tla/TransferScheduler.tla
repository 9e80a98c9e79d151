--------------------------- MODULE TransferScheduler ---------------------------
(***************************************************************************)
(* SFTP transfers of one session: the map of reservations, the worker with *)
(* its two slots, the task of each file transfer, the task of a directory  *)
(* transfer that starts one child per file, and the requests to pause,     *)
(* resume and cancel that reach a family of transfers one control at a     *)
(* time.                                                                   *)
(***************************************************************************)
EXTENDS Naturals, Sequences, FiniteSets, SequencesExt

CONSTANTS
  Singles,    \* transfers of one file that a window starts
  Root,       \* the directory transfer
  Files,      \* its children, in the order of the manifest
  Downloads,  \* the transfers whose destination is local
  Paths,      \* destinations of the singles, as sequences of names
  RootPath,   \* destination of the directory transfer
  Clients,    \* callers of pause, resume and cancel
  MaxRequests,\* bound on their requests
  Slots,      \* SFTP_TRANSFER_CONCURRENCY
  QueueSize   \* SFTP_COMMAND_BUFFER_SIZE

Children == Range(Files)
FileTransfers == Singles \cup Children
Transfers == FileTransfers \cup {Root}

\* What a model must choose.
SchedulerAssumption ==
  /\ Slots \in Nat \ {0} /\ QueueSize \in Nat \ {0} /\ MaxRequests \in Nat
  /\ Root \notin FileTransfers /\ Singles \cap Children = {} /\ IsFiniteSet(Singles)
  /\ Files \in Seq(Children) /\ IsInjective(Files)
  /\ Downloads \subseteq Transfers

VARIABLES
  reserved,   \* the transfers in the map
  path,       \* destination of a transfer
  stage,      \* where the task of a file transfer is
  outcome,    \* history: terminal events of a transfer
  promoted,   \* history: transfers that published their file
  workspace,  \* downloads whose local workspace is on disk
  noted,      \* controls with a checkpoint
  paused,
  cancelled,
  session,    \* live, cancelled, or ended with the worker's token set
  worker,
  queue,      \* transfer commands the worker has not received
  request,    \* controls a caller still has to reach
  requests,   \* number of requests so far
  dir         \* the task of the directory transfer

control == <<paused, cancelled>>
vars == <<reserved, path, stage, outcome, promoted, workspace, noted, control,
          session, worker, queue, request, requests, dir>>

\* Stages in which a transfer owns a slot, and in which it writes.
Writing == {"streaming", "staged", "promoting"}
Holding == Writing \cup {"permitted", "opening", "promoted", "failed", "cancelled", "reported"}
Over == {"none", "rejected", "over", "dropped"}

Idle == [kind |-> "none", left |-> {}]

TypeOK ==
  /\ reserved \subseteq Transfers
  /\ stage \in [FileTransfers -> Over \cup Holding
                  \cup {"reserved", "queued", "waiting", "acquiring", "refused"}]
  /\ \A t \in Transfers : outcome[t] \in Seq({"Completed", "Cancelled", "Failed"})
  /\ promoted \cup workspace \cup noted \cup paused \cup cancelled \subseteq Transfers
  /\ session \in {"live", "cancelled", "ended"}
  /\ worker \in {"running", "stopping", "gone", "removed"}
  /\ Len(queue) <= QueueSize
  /\ Cardinality({t \in FileTransfers : stage[t] \in Holding}) <= Slots
  /\ \A c \in Clients : request[c].left \subseteq Transfers
  /\ dir.next \in 1 .. Len(Files) + 1
  /\ dir.checkpoint \in 0 .. Len(Files)

Init ==
  /\ reserved = {}
  /\ path = [t \in Transfers |-> RootPath]
  /\ stage = [t \in FileTransfers |-> "none"]
  /\ outcome = [t \in Transfers |-> <<>>]
  /\ promoted = {}
  /\ workspace = {}
  /\ noted = {}
  /\ paused = {}
  /\ cancelled = {}
  /\ session = "live"
  /\ worker = "running"
  /\ queue = <<>>
  /\ request = [c \in Clients |-> Idle]
  /\ requests = 0
  /\ dir = [pc |-> "none", next |-> 1, active |-> {}, completed |-> {},
            checkpoint |-> 0, failed |-> FALSE, stop |-> FALSE]

Goto(t, s) == stage' = [stage EXCEPT ![t] = s]
Emit(t, e) == outcome' = [outcome EXCEPT ![t] = Append(@, e)]

-----------------------------------------------------------------------------
(* Reservations.                                                           *)

\* Mutant: a directory is only compared with what lies below the candidate.
ConflictUpwards(p, pIsDir, q, qIsDir) == p = q \/ (qIsDir /\ IsStrictPrefix(q, p))

\* transfer_destinations_conflict on one endpoint, p existing, q the candidate.
Conflict(p, pIsDir, q, qIsDir) ==
  \/ p = q
  \/ (pIsDir \/ qIsDir) /\ (IsStrictPrefix(p, q) \/ IsStrictPrefix(q, p))

SameEndpoint(t, u) == (t \in Downloads) <=> (u \in Downloads)

Parent(t, u) == t \in Children /\ u = Root

MayReserve(t, p) ==
  \A u \in reserved :
    Parent(t, u) \/ ~SameEndpoint(t, u) \/ ~Conflict(path[u], u = Root, p, t = Root)

\* A refused download removes the workspace it had prepared.
WorkspaceIfRefused(t) == workspace \ {t}

\* begin_sftp_upload_with_parent and begin_sftp_download_with_parent, up to the
\* reservation.  A download has prepared its workspace before.
Reserve(t, p) ==
  /\ stage[t] = "none"
  /\ IF MayReserve(t, p)
       THEN /\ reserved' = reserved \cup {t}
            /\ Goto(t, "reserved")
            /\ workspace' = workspace \cup ({t} \cap Downloads)
       ELSE /\ UNCHANGED reserved
            /\ Goto(t, "rejected")
            /\ workspace' = WorkspaceIfRefused(t)
  /\ path' = [path EXCEPT ![t] = p]

Accepts == worker \in {"running", "stopping"} /\ Len(queue) < QueueSize

\* send_sftp_command: when the queue is full or the session gone, the
\* reservation is taken back.
Submit(t) ==
  /\ stage[t] = "reserved"
  /\ IF Accepts
       THEN /\ queue' = Append(queue, t)
            /\ Goto(t, "queued")
            /\ UNCHANGED <<reserved, workspace>>
       ELSE /\ reserved' = reserved \ {t}
            /\ Goto(t, "rejected")
            /\ workspace' = WorkspaceIfRefused(t)
            /\ UNCHANGED queue

BeginSingle(t, p) ==
  /\ worker # "removed"
  /\ Reserve(t, p)
  /\ UNCHANGED <<outcome, promoted, noted, control, session, worker, queue, request, requests, dir>>

SubmitSingle(t) ==
  /\ Submit(t)
  /\ UNCHANGED <<path, outcome, promoted, noted, control, session, worker, request, requests, dir>>

\* Mutant: the forwarder only ends when it is told to.
MayForgetTold(t) == t \in FileTransfers /\ stage[t] \in {"reported", "over"}

\* The forwarder ends when the transfer has dropped its progress channel, which
\* is after its last event.
MayForget(t) == t \in FileTransfers /\ stage[t] \in {"reported", "over", "dropped"}

Forget(t) ==
  /\ t \in reserved
  /\ MayForget(t)
  /\ reserved' = reserved \ {t}
  /\ UNCHANGED <<path, stage, outcome, promoted, workspace, noted, control, session,
                 worker, queue, request, requests, dir>>

-----------------------------------------------------------------------------
(* The worker.                                                             *)

\* run_sftp_worker hands a transfer to a task of its own.
Accept ==
  /\ worker = "running"
  /\ queue # <<>>
  /\ Goto(Head(queue), "waiting")
  /\ queue' = Tail(queue)
  /\ UNCHANGED <<reserved, path, outcome, promoted, workspace, noted, control, session,
                 worker, request, requests, dir>>

\* The session's loop ends, cancelled or for a reason of its own, and tells the
\* worker.
EndSession ==
  /\ session # "ended"
  /\ session' = "ended"
  /\ UNCHANGED <<reserved, path, stage, outcome, promoted, workspace, noted, control,
                 worker, queue, request, requests, dir>>

StopWorker ==
  /\ worker = "running"
  /\ session = "ended"
  /\ worker' = "stopping"
  /\ UNCHANGED <<reserved, path, stage, outcome, promoted, workspace, noted, control,
                 session, queue, request, requests, dir>>

AllJoined ==
  \A t \in FileTransfers : stage[t] \in Over \cup {"reserved", "queued"}

\* The worker returns once its transfers have; commands still in the queue are
\* dropped with it.
WorkerGone ==
  /\ worker = "stopping"
  /\ AllJoined
  /\ worker' = "gone"
  /\ queue' = <<>>
  /\ stage' = [t \in FileTransfers |->
                 IF stage[t] = "queued" THEN "dropped" ELSE stage[t]]
  /\ UNCHANGED <<reserved, path, outcome, promoted, workspace, noted, control, session,
                 request, requests, dir>>

SessionRemoved ==
  /\ worker = "gone"
  /\ worker' = "removed"
  /\ UNCHANGED <<reserved, path, stage, outcome, promoted, workspace, noted, control,
                 session, queue, request, requests, dir>>

-----------------------------------------------------------------------------
(* The task of a file transfer, run_sftp_transfer.                         *)

GateCancelled(t) == t \in Children /\ Root \in cancelled
GatePaused(t) == t \in Children /\ Root \in paused
Stopped(t) == session = "ended" \/ t \in cancelled

other == <<reserved, path, promoted, noted, control, session, worker, queue, request, requests, dir>>

\* wait_for_transfer_start returns true.
PassGate(t) ==
  /\ stage[t] = "waiting"
  /\ ~Stopped(t) /\ ~GateCancelled(t)
  /\ t \notin paused /\ ~GatePaused(t)
  /\ Goto(t, "acquiring")
  /\ UNCHANGED <<outcome, workspace, other>>

FreeSlot == Cardinality({t \in FileTransfers : stage[t] \in Holding}) < Slots

AcquireSlot(t) ==
  /\ stage[t] = "acquiring"
  /\ FreeSlot
  /\ Goto(t, "permitted")
  /\ UNCHANGED <<outcome, workspace, other>>

MayStart(t) == t \notin paused /\ ~GatePaused(t)

\* With the permit in hand the controls are looked at again; a paused transfer
\* gives the permit back and starts over.
Recheck(t) ==
  /\ stage[t] = "permitted"
  /\ Goto(t, IF Stopped(t) \/ GateCancelled(t) THEN "refused"
             ELSE IF MayStart(t) THEN "opening" ELSE "waiting")
  /\ UNCHANGED <<outcome, workspace, other>>

\* acquire_transfer_slot returns None.
Refuse(t) ==
  /\ \/ stage[t] = "waiting" /\ (Stopped(t) \/ GateCancelled(t))
     \/ stage[t] = "acquiring" /\ Stopped(t)
  /\ Goto(t, "refused")
  /\ UNCHANGED <<outcome, workspace, other>>

Open(t) ==
  /\ stage[t] = "opening"
  /\ \/ Goto(t, "streaming")
     \/ Goto(t, "failed")
     \/ Stopped(t) /\ Goto(t, "cancelled")
  /\ UNCHANGED <<outcome, workspace, other>>

\* A chunk is copied and the checkpoint recorded; it may be the last.
Stream(t) ==
  /\ stage[t] = "streaming"
  /\ t \notin paused
  /\ t \notin cancelled
  /\ noted' = noted \cup {t}
  /\ \/ Goto(t, "staged")
     \/ Goto(t, "failed")
     \/ UNCHANGED stage
  /\ UNCHANGED <<reserved, path, outcome, promoted, workspace, control, session, worker,
                 queue, request, requests, dir>>

\* A stop of the session also cancels the control.
StreamStopped(t) ==
  /\ stage[t] = "streaming"
  /\ Stopped(t)
  /\ Goto(t, "cancelled")
  /\ cancelled' = cancelled \cup {t}
  /\ UNCHANGED <<reserved, path, outcome, promoted, workspace, noted, paused, session,
                 worker, queue, request, requests, dir>>

CancelledAtLast(t) == Stopped(t)

\* The source is compared, the modification time set and the controls read
\* for the last time; a source that has changed is a failure, cancelled or not.
Finalize(t) ==
  /\ stage[t] = "staged"
  /\ \/ Goto(t, "failed")
     \/ Goto(t, IF CancelledAtLast(t) THEN "cancelled" ELSE "promoting")
  /\ UNCHANGED <<outcome, workspace, other>>

Promote(t) ==
  /\ stage[t] = "promoting"
  /\ \/ promoted' = promoted \cup {t} /\ Goto(t, "promoted")
     \/ UNCHANGED promoted /\ Goto(t, "failed")
  /\ UNCHANGED <<reserved, path, outcome, workspace, noted, control, session, worker,
                 queue, request, requests, dir>>

\* Mutant: a cancellation that arrives during the promotion is reported.
PromotedResultsLate(t) == IF Stopped(t) THEN {"Cancelled"} ELSE {"Completed", "Failed"}

\* An upload closes its client after the promotion, a download removes its
\* workspace; a failure to do so is reported as a failure of the transfer.
PromotedResults(t) == {"Completed", "Failed"}

\* Mutant: a cancelled download always leaves its workspace.
KeepWorkspaceAlways(t) == TRUE

\* cleanup_on_cancel or no checkpoint to resume from.
KeepWorkspace(t) == t \notin Children /\ t \in noted

\* The terminal event.
Report(t) ==
  /\ \/ /\ stage[t] = "promoted"
        /\ \E e \in PromotedResults(t) :
             /\ Emit(t, e)
             /\ workspace' = IF e = "Failed" THEN workspace ELSE workspace \ {t}
     \/ /\ stage[t] \in {"refused", "cancelled"}
        /\ Emit(t, "Cancelled")
        /\ workspace' = IF KeepWorkspace(t) THEN workspace ELSE workspace \ {t}
     \/ /\ stage[t] = "failed"
        /\ Emit(t, "Failed")
        /\ UNCHANGED workspace
  /\ Goto(t, IF stage[t] = "refused" THEN "over" ELSE "reported")
  /\ UNCHANGED other

\* The task returns and its permit is dropped.
TaskEnds(t) ==
  /\ stage[t] = "reported"
  /\ Goto(t, "over")
  /\ UNCHANGED <<outcome, workspace, other>>

-----------------------------------------------------------------------------
(* Requests.                                                               *)

Family(t) == {t} \cup (IF t = Root THEN Children \cap reserved ELSE {})

\* The controls are collected under the lock of the map ...
Request(c, kind, t) ==
  /\ request[c] = Idle /\ requests < MaxRequests
  /\ requests' = requests + 1
  /\ t \in reserved
  /\ request' = [request EXCEPT ![c] = [kind |-> kind, left |-> Family(t)]]
  /\ UNCHANGED <<reserved, path, stage, outcome, promoted, workspace, noted, control,
                 session, worker, queue, dir>>

\* ... and so are those of a cancelled session, which will end, once the lock
\* of the sessions has been given back.
CancelSession(c) ==
  /\ request[c] = Idle /\ requests < MaxRequests
  /\ requests' = requests + 1
  /\ worker # "removed"
  /\ session' = IF session = "live" THEN "cancelled" ELSE session
  /\ request' = [request EXCEPT ![c] = [kind |-> "collect", left |-> {}]]
  /\ UNCHANGED <<reserved, path, stage, outcome, promoted, workspace, noted, control,
                 worker, queue, dir>>

CollectControls(c) ==
  /\ request[c].kind = "collect"
  /\ request' = [request EXCEPT ![c] =
                  IF reserved = {} THEN Idle ELSE [kind |-> "cancelAll", left |-> reserved]]
  /\ UNCHANGED <<reserved, path, stage, outcome, promoted, workspace, noted, control, session,
                 worker, queue, requests, dir>>

\* The requested transfer comes first, its children follow in any order.
NextControls(r) == IF Root \in r.left /\ r.kind # "cancelAll" THEN {Root} ELSE r.left

\* They are reached one by one, without the lock.
Reach(c, t) ==
  /\ t \in NextControls(request[c])
  /\ LET kind == request[c].kind
         left == request[c].left \ {t}
     IN
     /\ paused' = IF kind = "pause" THEN paused \cup {t}
                  ELSE IF kind = "resume" THEN paused \ {t} ELSE paused
     /\ cancelled' = IF kind \in {"cancel", "cancelAll"} THEN cancelled \cup {t} ELSE cancelled
     /\ request' = [request EXCEPT ![c] =
                     IF left = {} THEN Idle ELSE [kind |-> kind, left |-> left]]
  /\ UNCHANGED <<reserved, path, stage, outcome, promoted, workspace, noted, session,
                 worker, queue, requests, dir>>

-----------------------------------------------------------------------------
(* The task of a directory transfer, run_sftp_upload_directory and          *)
(* run_sftp_download_directory.                                            *)

rest == <<path, promoted, noted, session, worker, request, requests>>
task == <<stage, queue, workspace>>

BeginRoot ==
  /\ dir.pc = "none"
  /\ worker # "removed"
  /\ MayReserve(Root, RootPath)
  /\ reserved' = reserved \cup {Root}
  /\ dir' = [dir EXCEPT !.pc = "scanning"]
  /\ UNCHANGED <<outcome, control, rest, task>>

\* A terminal event before any child was started.
RootEndsEarly(e) ==
  /\ Emit(Root, e)
  /\ dir' = [dir EXCEPT !.pc = "reported"]
  /\ UNCHANGED <<reserved, control, rest, task>>

\* The scan; a checkpoint of an earlier run gives the prefix that is skipped.
Scan ==
  /\ dir.pc = "scanning"
  /\ \/ \E n \in 0 .. Len(Files) :
          /\ dir' = [dir EXCEPT !.pc = "directories", !.checkpoint = n, !.next = n + 1,
                                !.completed = 1 .. n]
          /\ UNCHANGED <<reserved, outcome, control, rest, task>>
     \/ RootEndsEarly("Failed")
     \/ Root \in cancelled /\ RootEndsEarly("Cancelled")

\* wait_until_resumed before each directory is created.
CreateDirectories ==
  /\ dir.pc = "directories"
  /\ \/ Root \in cancelled /\ RootEndsEarly("Cancelled")
     \/ /\ Root \notin cancelled \cup paused
        /\ dir' = [dir EXCEPT !.pc = "creating"]
        /\ UNCHANGED <<reserved, outcome, control, rest, task>>

DirectoriesCreated ==
  /\ dir.pc = "creating"
  /\ \/ /\ dir' = [dir EXCEPT !.pc = "loop"]
        /\ UNCHANGED <<reserved, outcome, control, rest, task>>
     \/ RootEndsEarly("Failed")
     \/ Root \in cancelled /\ RootEndsEarly("Cancelled")

\* Mutant: the checkpoint counts the finished files.
AdvanceCounting(completed, from) == Cardinality(completed)

\* advance_directory_checkpoint: the longest completed prefix.
Advance(completed, from) ==
  CHOOSE n \in from .. Len(Files) :
    /\ \A m \in from + 1 .. n : m \in completed
    /\ n + 1 \notin completed

Completes(d, n) ==
  LET completed == d.completed \cup {n} IN
  [d EXCEPT !.completed = completed, !.checkpoint = Advance(completed, d.checkpoint)]

\* The inner loop takes the next entry.
TakeEntry ==
  /\ dir.pc = "loop"
  /\ ~dir.stop
  /\ Root \notin cancelled \cup paused
  /\ Cardinality(dir.active) < Slots
  /\ dir.next <= Len(Files)
  /\ dir' = [dir EXCEPT !.pc = "entry"]
  /\ UNCHANGED <<reserved, outcome, control, rest, task>>

\* Source and target are examined, then wait_until_resumed: the file is up to
\* date, cannot be sent, or a child is begun.
ExamineEntry ==
  /\ dir.pc = "entry"
  /\ Root \notin cancelled \cup paused
  /\ LET d == [dir EXCEPT !.pc = "loop", !.next = @ + 1] IN
     \/ dir' = Completes(d, dir.next)
     \/ dir' = [d EXCEPT !.failed = TRUE]
     \/ dir' = [dir EXCEPT !.pc = "begin"]
  /\ UNCHANGED <<reserved, outcome, control, rest, task>>

EntryCancelled ==
  /\ dir.pc = "entry"
  /\ Root \in cancelled
  /\ dir' = [dir EXCEPT !.pc = "loop"]
  /\ UNCHANGED <<reserved, outcome, control, rest, task>>

Child == Files[dir.next]

BeginChild ==
  /\ dir.pc = "begin"
  /\ Reserve(Child, Append(RootPath, Child))
  /\ dir' = IF MayReserve(Child, Append(RootPath, Child))
              THEN [dir EXCEPT !.pc = "submit"]
              ELSE [dir EXCEPT !.pc = "loop", !.next = @ + 1, !.failed = TRUE]
  /\ UNCHANGED <<outcome, promoted, noted, control, session, worker, queue, request, requests>>

\* A lost session stops the loop; a cancelled directory cancels the child that
\* it has just started.
SubmitChild ==
  /\ dir.pc = "submit"
  /\ Submit(Child)
  /\ LET d == [dir EXCEPT !.pc = "loop", !.next = @ + 1] IN
     IF Accepts
       THEN /\ dir' = [d EXCEPT !.active = @ \cup {Child}]
            /\ cancelled' = IF Root \in cancelled THEN cancelled \cup {Child} ELSE cancelled
       ELSE /\ dir' = [d EXCEPT !.failed = TRUE,
                                !.stop = @ \/ worker \in {"gone", "removed"}]
            /\ UNCHANGED cancelled
  /\ UNCHANGED <<path, outcome, promoted, noted, paused, session, worker, request, requests>>

Entry(c) == CHOOSE n \in DOMAIN Files : Files[n] = c

\* Mutant: the monitor waits for an event that never comes.
ReportedByEvent(c) == outcome[c] # <<>>

\* The monitor of a child returns with its terminal event, or when the event
\* stream is closed because the command was dropped.
Reported(c) == outcome[c] # <<>> \/ (stage[c] = "dropped" /\ c \notin reserved)

Completed(c) == outcome[c] # <<>> /\ outcome[c][1] = "Completed"

\* join_next inside the loop.
JoinChild(c) ==
  /\ dir.pc = "loop"
  /\ c \in dir.active
  /\ Reported(c)
  /\ LET d == [dir EXCEPT !.active = @ \ {c}] IN
     dir' = IF Completed(c) THEN Completes(d, Entry(c))
            ELSE IF outcome[c] = <<"Cancelled">>
              THEN [d EXCEPT !.failed = @ \/ Root \notin cancelled]
              ELSE [d EXCEPT !.failed = TRUE, !.stop = @ \/ worker = "removed"]
  /\ UNCHANGED <<reserved, outcome, control, rest, task>>

LeaveLoop ==
  /\ dir.pc = "loop"
  /\ \/ Root \in cancelled
     \/ dir.active = {} /\ (dir.stop \/ dir.next > Len(Files))
  /\ dir' = [dir EXCEPT !.pc = "leaving"]
  /\ UNCHANGED <<reserved, outcome, control, rest, task>>

AlsoCancelled == Family(Root) \cap reserved

\* A cancelled directory cancels the children it has started since.
CancelFamily ==
  /\ dir.pc = "leaving"
  /\ cancelled' = IF Root \in cancelled THEN cancelled \cup AlsoCancelled ELSE cancelled
  /\ dir' = [dir EXCEPT !.pc = "joining"]
  /\ UNCHANGED <<reserved, outcome, paused, rest, task>>

JoinRemaining(c) ==
  /\ dir.pc = "joining"
  /\ c \in dir.active
  /\ Reported(c)
  /\ LET d == [dir EXCEPT !.active = @ \ {c}] IN
     dir' = IF Completed(c) THEN Completes(d, Entry(c))
            ELSE IF outcome[c] = <<"Cancelled">> THEN d ELSE [d EXCEPT !.failed = TRUE]
  /\ UNCHANGED <<reserved, outcome, control, rest, task>>

NoneLeft == dir.active = {}

DirectoryResult ==
  IF Root \in cancelled THEN "Cancelled"
  ELSE IF dir.failed \/ dir.stop THEN "Failed" ELSE "Completed"

ReportRoot ==
  /\ dir.pc = "joining"
  /\ NoneLeft
  /\ Emit(Root, DirectoryResult)
  /\ dir' = [dir EXCEPT !.pc = "reported"]
  /\ UNCHANGED <<reserved, control, rest, task>>

ForgetRoot ==
  /\ dir.pc = "reported"
  /\ reserved' = reserved \ {Root}
  /\ dir' = [dir EXCEPT !.pc = "over"]
  /\ UNCHANGED <<outcome, control, rest, task>>

-----------------------------------------------------------------------------
FileStep(t) ==
  \/ PassGate(t) \/ Recheck(t) \/ Open(t) \/ Stream(t) \/ StreamStopped(t)
  \/ Finalize(t) \/ Promote(t) \/ Report(t) \/ TaskEnds(t) \/ Forget(t)

RootStep ==
  \/ Scan \/ CreateDirectories \/ DirectoriesCreated \/ TakeEntry \/ ExamineEntry
  \/ EntryCancelled \/ BeginChild \/ SubmitChild
  \/ \E c \in Children : JoinChild(c) \/ JoinRemaining(c)
  \/ LeaveLoop \/ CancelFamily \/ ReportRoot \/ ForgetRoot

WorkerStep == Accept \/ StopWorker \/ WorkerGone \/ SessionRemoved

Next ==
  \/ \E t \in Singles : SubmitSingle(t) \/ \E p \in Paths : BeginSingle(t, p)
  \/ \E t \in FileTransfers : FileStep(t) \/ AcquireSlot(t) \/ Refuse(t)
  \/ BeginRoot \/ RootStep
  \/ EndSession \/ WorkerStep
  \/ \E c \in Clients :
       \/ \E t \in Singles \cup {Root}, k \in {"pause", "resume", "cancel"} : Request(c, k, t)
       \/ CancelSession(c) \/ CollectControls(c)
       \/ \E t \in Transfers : Reach(c, t)

\* While a transfer waits for its own resumption it does not see that its
\* directory was cancelled.
SeesStop(t) == ~(stage[t] = "waiting" /\ t \in paused /\ ~Stopped(t))

Spec == Init /\ [][Next]_vars

-----------------------------------------------------------------------------
(* Properties.                                                             *)

\* No two transfers write to the same file at a time, and nothing is written
\* below a directory that another transfer is filling, except by its children.
WriteExclusive ==
  \A t, u \in FileTransfers :
    /\ t # u /\ stage[t] \in Writing /\ stage[u] \in Writing /\ SameEndpoint(t, u)
         => path[t] # path[u]
    /\ stage[t] \in Writing /\ t \in Singles /\ SameEndpoint(t, Root)
         /\ dir.pc \notin {"none", "over"}
         => ~IsPrefix(RootPath, path[t])

\* When a directory transfer reports, none of its children is still running:
\* none will write afterwards.
NoChildOutlivesRoot ==
  dir.pc \in {"reported", "over"} =>
    \A c \in Children : stage[c] \in Over \cup {"reported"}

\* A transfer reports one outcome, a file that was published is never reported
\* as cancelled, and Completed means that it was published.
OutcomeTruthful ==
  \A t \in FileTransfers :
    /\ Len(outcome[t]) <= 1
    /\ outcome[t] = <<"Completed">> => t \in promoted
    /\ outcome[t] = <<"Cancelled">> => t \notin promoted

\* What a later transfer may skip was transferred: the checkpoint of a
\* directory never passes an entry that failed, was cancelled or is in
\* progress, and a completed directory has every entry.
CheckpointTruthful ==
  /\ \A n \in 1 .. dir.checkpoint :
       stage[Files[n]] # "none" => outcome[Files[n]] = <<"Completed">>
  /\ outcome[Root] = <<"Completed">> => dir.checkpoint = Len(Files)
  /\ dir.checkpoint < dir.next

\* What is reported of a transfer is true of the files: of one file, of the
\* children of a directory, and of the entries that a later transfer may skip.
TransfersTruthful == OutcomeTruthful /\ NoChildOutlivesRoot /\ CheckpointTruthful

\* A local workspace belongs to a download that is under way, or to one that
\* failed or can be resumed.  Commands dropped with the worker are the
\* exception.
NoOrphanWorkspace ==
  \A t \in workspace :
    \/ stage[t] \notin {"none", "rejected", "over"}
    \/ outcome[t] = <<"Failed">>
    \/ outcome[t] = <<"Cancelled">> /\ t \in noted /\ t \in Singles

\* What the liveness properties speak of.
RootTold == Root \in cancelled
SessionEnding == session # "live"
NothingReserved == reserved = {}
RootPaused == Root \in paused
SomePaused == paused # {}

\* The session's task sees that it was cancelled.
SessionSeesCancel == EndSession /\ session = "cancelled"
===============================================================================
