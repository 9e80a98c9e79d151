------------------------------ MODULE SshSession ------------------------------
(***************************************************************************)
(* SessionManager: the map of SSH sessions, the task that runs each of     *)
(* them, and the authenticated transports that several sessions share.  A  *)
(* transport counts its sessions; the one that lets go last disconnects    *)
(* it.  A transport is named after the session that connected it.          *)
(***************************************************************************)
EXTENDS Naturals, Sequences, FiniteSets, SequencesExt

CONSTANTS
  Sessions,       \* session ids
  MaxPerTransport,\* MAX_SESSIONS_PER_TRANSPORT
  QueueSize       \* COMMAND_BUFFER_SIZE

None == "none"

\* What a model must choose.
SessionAssumption ==
  /\ MaxPerTransport \in Nat \ {0} /\ QueueSize \in Nat \ {0}
  /\ IsFiniteSet(Sessions)
  /\ None \notin Sessions

VARIABLES
  pc,         \* where the task of a session is
  via,        \* the transport a session uses
  inMap,      \* the sessions in the map
  known,      \* ManagedSession::transport
  cancelled,  \* sessions whose cancellation token is set
  queue,      \* commands accepted and not yet taken
  sftp,       \* whether the SFTP worker is inside an operation
  events,     \* lifecycle events sent to subscribers
  count,      \* session_count of a transport
  disconnected,
  closes      \* history: how often a transport's connection was disconnected

task == <<pc, via, events>>
transport == <<count, disconnected, closes>>
vars == <<pc, via, inMap, known, cancelled, queue, sftp, events, transport>>

Running == {"opening", "opened", "connected", "writing", "stopping"}
Holding == Running \cup {"acquired", "release", "failRelease"}

TypeOK ==
  /\ pc \in [Sessions -> {"none", "connecting", "acquired", "opening", "opened", "connected",
                          "writing", "stopping", "release", "failRelease", "swap",
                          "failSwap", "failed", "ending", "gone"}]
  /\ via \in [Sessions -> Sessions \cup {None}]
  /\ inMap \subseteq Sessions
  /\ known \in [Sessions -> Sessions \cup {None}]
  /\ cancelled \subseteq Sessions
  /\ queue \in [Sessions -> Seq({"Input", "Close"})]
  /\ \A s \in Sessions : Len(queue[s]) <= QueueSize
  /\ sftp \in [Sessions -> {"idle", "busy"}]
  /\ events \in [Sessions -> Seq({"Connecting", "Connected", "Error", "Closed"})]
  /\ count \in [Sessions -> 0 .. MaxPerTransport]
  /\ disconnected \in [Sessions -> BOOLEAN]
  /\ closes \in [Sessions -> Nat]

Init ==
  /\ pc = [s \in Sessions |-> "none"]
  /\ via = [s \in Sessions |-> None]
  /\ inMap = {}
  /\ known = [s \in Sessions |-> None]
  /\ cancelled = {}
  /\ queue = [s \in Sessions |-> <<>>]
  /\ sftp = [s \in Sessions |-> "idle"]
  /\ events = [s \in Sessions |-> <<>>]
  /\ count = [s \in Sessions |-> 0]
  /\ disconnected = [s \in Sessions |-> FALSE]
  /\ closes = [s \in Sessions |-> 0]

Goto(s, l) == pc' = [pc EXCEPT ![s] = l]
Emit(s, es) == events' = [events EXCEPT ![s] = @ \o es]

-----------------------------------------------------------------------------
(* Starting a session.                                                     *)

\* begin, begin_chain and the first step of run_session.
Begin(s) ==
  /\ pc[s] = "none"
  /\ Goto(s, "connecting")
  /\ inMap' = inMap \cup {s}
  /\ Emit(s, <<"Connecting">>)
  /\ UNCHANGED <<via, known, cancelled, queue, sftp, transport>>

MayAcquire(t) == count[t] # 0 /\ ~disconnected[t] /\ count[t] < MaxPerTransport

\* begin_reuse under the lock of the map: the source must have a transport and
\* the lease is taken there.
Acquire(s, source) ==
  LET t == known[source] IN
  /\ pc[s] = "none"
  /\ source \in inMap
  /\ t # None
  /\ MayAcquire(t)
  /\ count' = [count EXCEPT ![t] = @ + 1]
  /\ via' = [via EXCEPT ![s] = t]
  /\ Goto(s, "acquired")
  /\ UNCHANGED <<inMap, known, cancelled, queue, sftp, events, disconnected, closes>>

\* The second half of begin_reuse, after the lock was given up and taken again.
InsertReuse(s) ==
  /\ pc[s] = "acquired"
  /\ Goto(s, "opening")
  /\ inMap' = inMap \cup {s}
  /\ Emit(s, <<"Connecting">>)
  /\ UNCHANGED <<via, known, cancelled, queue, sftp, transport>>

\* Mutant: a lease has no Drop.
DropReuseLeaks(s) ==
  /\ pc[s] = "acquired"
  /\ Goto(s, "gone")
  /\ UNCHANGED <<via, inMap, known, cancelled, queue, sftp, events, transport>>

\* The caller of begin_reuse is dropped while it waits for the map: Drop of
\* the lease lets go of the transport.
DropReuse(s) ==
  /\ pc[s] = "acquired"
  /\ Goto(s, "release")
  /\ UNCHANGED <<via, inMap, known, cancelled, queue, sftp, events, transport>>

\* The connect succeeds: a new transport with one session.
ConnectOk(s) ==
  /\ pc[s] = "connecting"
  /\ via' = [via EXCEPT ![s] = s]
  /\ count' = [count EXCEPT ![s] = 1]
  /\ Goto(s, "opening")
  /\ UNCHANGED <<inMap, known, cancelled, queue, sftp, events, disconnected, closes>>

\* A failure, a time-out of the connect, or its cancellation.
ConnectFail(s) ==
  /\ pc[s] = "connecting"
  /\ Emit(s, <<"Error", "Closed">>)
  /\ Goto(s, "ending")
  /\ UNCHANGED <<via, inMap, known, cancelled, queue, sftp, transport>>

\* Mutant: subscribers are told before the map is changed.
ShellOkToldFirst(s) ==
  /\ pc[s] = "opening"
  /\ Emit(s, <<"Connected">>)
  /\ Goto(s, "opened")
  /\ UNCHANGED <<via, inMap, known, cancelled, queue, sftp, transport>>

\* The shell is open: under the lock of the map the transport becomes known,
\* and from then on other sessions may reuse it ...
ShellOk(s) ==
  /\ pc[s] = "opening"
  /\ known' = [known EXCEPT ![s] = via[s]]
  /\ Goto(s, "opened")
  /\ UNCHANGED <<via, inMap, cancelled, queue, sftp, events, transport>>

\* ... and after the lock is given up subscribers are told.
TellConnected(s) ==
  /\ pc[s] = "opened"
  /\ Emit(s, <<"Connected">>)
  /\ Goto(s, "connected")
  /\ UNCHANGED <<via, inMap, known, cancelled, queue, sftp, transport>>

ShellFail(s) ==
  /\ pc[s] = "opening"
  /\ Emit(s, <<"Error">>)
  /\ Goto(s, "failRelease")
  /\ UNCHANGED <<via, inMap, known, cancelled, queue, sftp, transport>>

\* Only a session on a shared transport listens to its token while the shell
\* is opened; the others notice it once connected.
ReuseCancelled(s) ==
  /\ pc[s] = "opening"
  /\ via[s] # s
  /\ s \in cancelled
  /\ Goto(s, "failRelease")
  /\ UNCHANGED <<via, inMap, known, cancelled, queue, sftp, events, transport>>

-----------------------------------------------------------------------------
(* Requests of the windows.                                                *)

Cancel(s) ==
  /\ s \in inMap
  /\ cancelled' = cancelled \cup {s}
  /\ UNCHANGED <<pc, via, inMap, known, queue, sftp, events, transport>>

\* The receiver lives until run_session returns.
Listening(s) ==
  pc[s] \in Running \cup {"connecting", "failRelease", "failSwap", "failed"}

HasRoom(s) == Len(queue[s]) < QueueSize

\* send_command: try_send, refused when the queue is full or its receiver gone.
Send(s, c) ==
  /\ s \in inMap
  /\ Listening(s)
  /\ HasRoom(s)
  /\ queue' = [queue EXCEPT ![s] = Append(@, c)]
  /\ UNCHANGED <<pc, via, inMap, known, cancelled, sftp, events, transport>>

-----------------------------------------------------------------------------
(* run_connected_session.                                                  *)

\* The receive branch: Close ends the loop, the others go to the shell.
TakeCommand(s) ==
  /\ pc[s] = "connected"
  /\ queue[s] # <<>>
  /\ queue' = [queue EXCEPT ![s] = Tail(@)]
  /\ Goto(s, IF Head(queue[s]) = "Close" THEN "stopping" ELSE "writing")
  /\ UNCHANGED <<via, inMap, known, cancelled, sftp, events, transport>>

\* write and resize are awaited inside the branch: nothing else is polled.
Written(s) ==
  /\ pc[s] = "writing"
  /\ \/ /\ Goto(s, "connected")
        /\ UNCHANGED events
     \/ /\ Goto(s, "stopping")
        /\ Emit(s, <<"Error">>)
  /\ UNCHANGED <<via, inMap, known, cancelled, queue, sftp, transport>>

\* Mutant: the loop does not listen to its token.
SeeCancelNever(s) == FALSE

SeeCancel(s) ==
  /\ pc[s] = "connected"
  /\ s \in cancelled
  /\ Goto(s, "stopping")
  /\ UNCHANGED <<via, inMap, known, cancelled, queue, sftp, events, transport>>

\* The shell ends or its channel fails; output leaves the state unchanged.
ShellEnds(s) ==
  /\ pc[s] = "connected"
  /\ Goto(s, "stopping")
  /\ \/ UNCHANGED events
     \/ Emit(s, <<"Error">>)
  /\ UNCHANGED <<via, inMap, known, cancelled, queue, sftp, transport>>

SftpStart(s) ==
  /\ pc[s] \in {"connected", "writing"}
  /\ sftp[s] = "idle"
  /\ sftp' = [sftp EXCEPT ![s] = "busy"]
  /\ UNCHANGED <<pc, via, inMap, known, cancelled, queue, events, transport>>

SftpDone(s) ==
  /\ sftp[s] = "busy"
  /\ sftp' = [sftp EXCEPT ![s] = "idle"]
  /\ UNCHANGED <<pc, via, inMap, known, cancelled, queue, events, transport>>

\* The worker is told to stop and awaited, so an operation in progress is
\* finished first; then Closed, and the queue goes with its receiver.
Stop(s) ==
  /\ pc[s] = "stopping"
  /\ sftp[s] = "idle"
  /\ Emit(s, <<"Closed">>)
  /\ queue' = [queue EXCEPT ![s] = <<>>]
  /\ Goto(s, "release")
  /\ UNCHANGED <<via, inMap, known, cancelled, sftp, transport>>

-----------------------------------------------------------------------------
(* Letting go of the transport.                                            *)

\* Mutant: every session that ends disconnects the transport.
LastOutAnyone(s) == TRUE

\* fetch_sub returned 1.
LastOut(s) == count[via[s]] = 1

\* release and Drop: the decrement ...
Release(s) ==
  /\ pc[s] \in {"release", "failRelease"}
  /\ count' = [count EXCEPT ![via[s]] = @ - 1]
  /\ Goto(s, CASE LastOut(s) /\ pc[s] = "release" -> "swap"
               [] LastOut(s) /\ pc[s] # "release" -> "failSwap"
               [] ~LastOut(s) /\ pc[s] = "release" -> "ending"
               [] OTHER -> "failed")
  /\ UNCHANGED <<via, inMap, known, cancelled, queue, sftp, events, disconnected, closes>>

\* ... and the swap that lets one of them disconnect.
Disconnect(s) ==
  /\ pc[s] \in {"swap", "failSwap"}
  /\ disconnected' = [disconnected EXCEPT ![via[s]] = TRUE]
  /\ closes' = [closes EXCEPT ![via[s]] = IF disconnected[via[s]] THEN @ ELSE @ + 1]
  /\ Goto(s, IF pc[s] = "swap" THEN "ending" ELSE "failed")
  /\ UNCHANGED <<via, inMap, known, cancelled, queue, sftp, events, count>>

FailureEvents == <<"Closed">>

\* Closed of the early returns of run_session comes after the release.
EmitClosed(s) ==
  /\ pc[s] = "failed"
  /\ Emit(s, FailureEvents)
  /\ queue' = [queue EXCEPT ![s] = <<>>]
  /\ Goto(s, "ending")
  /\ UNCHANGED <<via, inMap, known, cancelled, sftp, transport>>

RemoveFromMap(s) ==
  /\ pc[s] = "ending"
  /\ inMap' = inMap \ {s}
  /\ known' = [known EXCEPT ![s] = None]
  /\ queue' = [queue EXCEPT ![s] = <<>>]
  /\ Goto(s, "gone")
  /\ UNCHANGED <<via, cancelled, sftp, events, transport>>

-----------------------------------------------------------------------------
TaskStep(s) ==
  \/ ConnectOk(s) \/ ConnectFail(s) \/ ShellOk(s) \/ TellConnected(s) \/ ShellFail(s)
  \/ TakeCommand(s) \/ Written(s) \/ Stop(s) \/ Release(s)
  \/ Disconnect(s) \/ EmitClosed(s) \/ RemoveFromMap(s)

Next ==
  \E s \in Sessions :
    \/ Begin(s) \/ InsertReuse(s) \/ DropReuse(s)
    \/ \E source \in Sessions : Acquire(s, source)
    \/ TaskStep(s) \/ ReuseCancelled(s) \/ SeeCancel(s) \/ ShellEnds(s)
    \/ Cancel(s) \/ \E c \in {"Input", "Close"} : Send(s, c)
    \/ SftpStart(s) \/ SftpDone(s)

Spec == Init /\ [][Next]_vars

-----------------------------------------------------------------------------
(* Properties.                                                             *)

\* The counter of a transport is the number of sessions that have not let go
\* of it: no path through run_session, begin_reuse or Drop loses or doubles a
\* lease.
CountMatchesLeases ==
  \A t \in Sessions :
    count[t] = Cardinality({s \in Sessions : via[s] = t /\ pc[s] \in Holding})

\* No session, not even one whose shell is still being opened, has its
\* transport disconnected by another session that ends.
InUseStaysConnected ==
  \A s \in Sessions : via[s] # None /\ pc[s] \in Holding => ~disconnected[via[s]]

\* A transport is disconnected once, and when every session on it is gone it
\* has been.
DisconnectedOnce ==
  \A t \in Sessions :
    /\ closes[t] <= 1
    /\ via[t] = t /\ (\A s \in Sessions : via[s] = t => pc[s] = "gone")
         => closes[t] = 1

\* Subscribers see Connecting first, Closed exactly once and nothing after it.
\* A session that has left the map has told them.
ClosedIsLast ==
  \A s \in Sessions :
    LET e == events[s] IN
    /\ \A n \in DOMAIN e : e[n] = "Closed" => n = Len(e)
    /\ pc[s] = "gone" /\ e # <<>> => Last(e) = "Closed"

\* A session that was told to be connected and has not ended can be reused: its
\* transport was known before, and stays known until the session leaves the map.
\* The other way round there is one gap, between the two steps of the task.
ToldIsKnown ==
  \A s \in Sessions :
    LET told == Contains(events[s], "Connected") IN
    /\ told => known[s] # None \/ pc[s] = "gone"
    /\ known[s] # None => known[s] = via[s] /\ (told \/ pc[s] = "opened")

\* A shared transport lives exactly as long as the sessions on it, and what is
\* told of a session is true.
TransportSound ==
  /\ TypeOK
  /\ CountMatchesLeases
  /\ InUseStaysConnected
  /\ DisconnectedOnce
  /\ ClosedIsLast
  /\ ToldIsKnown

\* What the liveness properties speak of: a session that is told to end, the
\* Close that is queued for it, and its absence.
Told(s) == s \in cancelled
CloseQueued(s) == \E n \in DOMAIN queue[s] : queue[s][n] = "Close"
Absent(s) == s \notin inMap
=============================================================================
