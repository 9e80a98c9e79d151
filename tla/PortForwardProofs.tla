-------------------------- MODULE PortForwardProofs --------------------------
(***************************************************************************)
(* Proofs about PortForward, for any number of starts, stops and edits of  *)
(* the rule.  Taking off the entry, cancelling it and disconnecting are    *)
(* separate steps of a stop; connecting, storing the connection and        *)
(* looking at the cancellation are separate steps of a start.  The         *)
(* invariant says who answers for a connection at each of them.            *)
(***************************************************************************)
EXTENDS PortForward, TLAPS

\* A stop has taken the entry of i off the list and is not through with it.
Taking(i) == \E p \in Stoppers : stop[p].entry = i /\ stop[p].at # "done"

\* Where the connection exists only in the hands of its start.
Unstored == {"new", "register", "connect", "connected", "store"}

\* Where the start still looks at the cancellation before it goes on.
StillLooks == {"connect", "connected", "store", "open", "opened"}

\* Where it does not, and leaves the connection to others.
LeftToOthers == {"watch", "publish", "withdraw", "running", "failed"}

\* A stop knows its entry from the first step on, and has cancelled it before
\* it disconnects it; a start stops the rule only to withdraw.  An edit in
\* progress has found the rule, and nobody else can delete it.
Stopping ==
  /\ lock # None => config # None
  /\ \A p \in Stoppers :
       /\ stop[p].at \in {"idle", "entry"} => stop[p].entry = None
       /\ stop[p].at \in {"disconnect", "done"} /\ stop[p].entry # None
            => stop[p].entry \in cancelled
  /\ \A i \in Starts : pc[i] \notin {"withdraw", "failed"} => stop[i] = Idle

\* How far a start, its connection and its watcher are.
Progress ==
  \A i \in Starts :
    /\ i \in open => pc[i] \notin {"new", "register", "connect"}
    /\ i \in failed => pc[i] = "failed" /\ i \notin open
    /\ pc[i] \in {"connected", "store"} => i \in open
    /\ pc[i] \in Unstored => i \notin stored
    /\ i \in open /\ pc[i] \notin Unstored => i \in stored
    /\ watch[i] # "none" => pc[i] \in {"publish", "withdraw", "running", "failed"}
    /\ watch[i] \in {"remove", "done"} => i \notin open

\* A start that looks at the cancellation again is listed, being stopped or
\* cancelled; one that does not is listed or being stopped, or its connection
\* is closed.
Owned ==
  \A i \in Starts :
    /\ pc[i] \in StillLooks => entry = i \/ Taking(i) \/ i \in cancelled
    /\ i \in open /\ pc[i] \in LeftToOthers => entry = i \/ Taking(i)

ConnectionInv ==
  TypeOK /\ Stopping /\ Progress /\ Owned

LEMMA ConnectionInit == PortForwardAssumption /\ Init => ConnectionInv
BY DEF PortForwardAssumption, Init, ConnectionInv, TypeOK, Stopping, Progress, Owned, Stoppers, Idle,
       Labels, Unstored, StillLooks, LeftToOthers


\* Only a stop changes who takes an entry.
LEMMA TakingKept ==
  ASSUME stop' = stop
  PROVE  \A i : Taking(i)' <=> Taking(i)
BY DEF Taking

LEMMA StartSteps ==
  ASSUME PortForwardAssumption, ConnectionInv, NEW i \in Starts,
         Prepare(i) \/ Register(i) \/ Connect(i) \/ Connected(i) \/ Store(i) \/ OpenTunnel(i) \/ Opened(i) \/ GiveUp(i) \/ SpawnWatcher(i) \/ Withdrawn(i) \/ TaskCancelled(i) \/ TaskFails(i) \/ WatcherStops(i) \/ WatcherDisconnects(i) \/ WatcherRemoves(i)
  PROVE  ConnectionInv'
<1> USE DEF PortForwardAssumption, ConnectionInv, TypeOK, Stoppers, Idle, Labels, Goto, catalog,
        request, manager, tunnel, watcher
<1>1. CASE Prepare(i)
  <2>t. \A j : Taking(j)' <=> Taking(j)
    BY <1>1, TakingKept DEF Prepare
  <2>1. TypeOK'
    BY <1>1 DEF Prepare
  <2>2. Stopping'
    BY <1>1 DEF Prepare, Stopping
  <2>3. Progress'
    BY <1>1 DEF Prepare, Progress, Unstored
  <2>4. Owned'
    BY <1>1, <2>t DEF Prepare, Owned, Progress, StillLooks, LeftToOthers, Unstored
  <2> QED
    BY <2>1, <2>2, <2>3, <2>4
<1>2. CASE Register(i)
  <2>t. \A j : Taking(j)' <=> Taking(j)
    BY <1>2, TakingKept DEF Register
  <2>1. TypeOK'
    BY <1>2 DEF Register
  <2>2. Stopping'
    BY <1>2 DEF Register, Stopping
  <2>3. Progress'
    BY <1>2 DEF Register, Progress, Unstored
  <2>4. Owned'
    BY <1>2, <2>t DEF Register, Owned, Progress, StillLooks, LeftToOthers, Unstored
  <2> QED
    BY <2>1, <2>2, <2>3, <2>4
<1>3. CASE Connect(i)
  <2>t. \A j : Taking(j)' <=> Taking(j)
    BY <1>3, TakingKept DEF Connect
  <2>1. TypeOK'
    BY <1>3 DEF Connect
  <2>2. Stopping'
    BY <1>3 DEF Connect, Stopping
  <2>3. Progress'
    BY <1>3 DEF Connect, Progress, Unstored
  <2>4. Owned'
    BY <1>3, <2>t DEF Connect, Owned, Progress, StillLooks, LeftToOthers, Unstored
  <2> QED
    BY <2>1, <2>2, <2>3, <2>4
<1>4. CASE Connected(i)
  <2>t. \A j : Taking(j)' <=> Taking(j)
    BY <1>4, TakingKept DEF Connected, Cancelled, RemovedIfCurrent
  <2>1. TypeOK'
    BY <1>4 DEF Connected, Cancelled, RemovedIfCurrent, Progress, Unstored
  <2>2. Stopping'
    BY <1>4 DEF Connected, Cancelled, RemovedIfCurrent, Stopping
  <2>3. Progress'
    BY <1>4 DEF Connected, Cancelled, RemovedIfCurrent, Progress, Unstored
  <2>4. Owned'
    BY <1>4, <2>t DEF Connected, Cancelled, RemovedIfCurrent, Owned, Progress, StillLooks, LeftToOthers, Unstored
  <2> QED
    BY <2>1, <2>2, <2>3, <2>4
<1>5. CASE Store(i)
  <2>t. \A j : Taking(j)' <=> Taking(j)
    BY <1>5, TakingKept DEF Store
  <2>1. TypeOK'
    BY <1>5 DEF Store, Progress
  <2>2. Stopping'
    BY <1>5 DEF Store, Stopping
  <2>3. Progress'
    BY <1>5 DEF Store, Progress, Unstored
  <2>4. Owned'
    BY <1>5, <2>t DEF Store, Owned, Progress, StillLooks, LeftToOthers, Unstored
  <2> QED
    BY <2>1, <2>2, <2>3, <2>4
<1>6. CASE OpenTunnel(i)
  <2>t. \A j : Taking(j)' <=> Taking(j)
    BY <1>6, TakingKept DEF OpenTunnel, Free, Forgotten
  <2>1. TypeOK'
    BY <1>6 DEF OpenTunnel, Free, Forgotten
  <2>2. Stopping'
    BY <1>6 DEF OpenTunnel, Free, Forgotten, Stopping
  <2>3. Progress'
    BY <1>6 DEF OpenTunnel, Free, Forgotten, Progress, Unstored
  <2>4. Owned'
    BY <1>6, <2>t DEF OpenTunnel, Free, Forgotten, Owned, Progress, StillLooks, LeftToOthers, Unstored
  <2> QED
    BY <2>1, <2>2, <2>3, <2>4
<1>7. CASE Opened(i)
  <2>t. \A j : Taking(j)' <=> Taking(j)
    BY <1>7, TakingKept DEF Opened, Cancelled
  <2>1. TypeOK'
    <3>1. pc' \in [Starts -> Labels]
      BY <1>7 DEF Opened
    <3>2. forward' \in Starts \cup {None} /\ ending' \subseteq Starts
      BY <1>7 DEF Opened
    <3> QED
      BY <1>7, <3>1, <3>2 DEF Opened
  <2>2. Stopping'
    BY <1>7 DEF Opened, Cancelled, Stopping
  <2>3. Progress'
    BY <1>7 DEF Opened, Cancelled, Progress, Unstored
  <2>4. Owned'
    BY <1>7, <2>t DEF Opened, Cancelled, Owned, Progress, StillLooks, LeftToOthers, Unstored
  <2> QED
    BY <2>1, <2>2, <2>3, <2>4
<1>8. CASE GiveUp(i)
  <2>t. \A j : Taking(j)' <=> Taking(j)
    BY <1>8, TakingKept DEF GiveUp, Forgotten, RemovedIfCurrent
  <2>1. TypeOK'
    BY <1>8 DEF GiveUp, Forgotten, RemovedIfCurrent
  <2>2. Stopping'
    BY <1>8 DEF GiveUp, Forgotten, RemovedIfCurrent, Stopping
  <2>3. Progress'
    BY <1>8 DEF GiveUp, Forgotten, RemovedIfCurrent, Progress, Unstored
  <2>4. Owned'
    BY <1>8, <2>t DEF GiveUp, Forgotten, RemovedIfCurrent, Owned, Progress, StillLooks, LeftToOthers, Unstored
  <2> QED
    BY <2>1, <2>2, <2>3, <2>4
<1>9. CASE SpawnWatcher(i)
  <2>t. \A j : Taking(j)' <=> Taking(j)
    BY <1>9, TakingKept DEF SpawnWatcher
  <2>1. TypeOK'
    BY <1>9 DEF SpawnWatcher
  <2>2. Stopping'
    BY <1>9 DEF SpawnWatcher, Stopping
  <2>3. Progress'
    BY <1>9 DEF SpawnWatcher, Progress, Unstored
  <2>4. Owned'
    BY <1>9, <2>t DEF SpawnWatcher, Owned, Progress, StillLooks, LeftToOthers, Unstored
  <2> QED
    BY <2>1, <2>2, <2>3, <2>4
<1>10. CASE Withdrawn(i)
  <2>t. \A j : Taking(j)' <=> Taking(j)
    BY <1>10, TakingKept DEF Withdrawn
  <2>1. TypeOK'
    BY <1>10 DEF Withdrawn
  <2>2. Stopping'
    BY <1>10 DEF Withdrawn, Stopping
  <2>3. Progress'
    BY <1>10 DEF Withdrawn, Progress, Unstored
  <2>4. Owned'
    BY <1>10, <2>t DEF Withdrawn, Owned, Progress, StillLooks, LeftToOthers, Unstored
  <2> QED
    BY <2>1, <2>2, <2>3, <2>4
<1>11. CASE TaskCancelled(i)
  <2>t. \A j : Taking(j)' <=> Taking(j)
    BY <1>11, TakingKept DEF TaskCancelled
  <2>1. TypeOK'
    BY <1>11 DEF TaskCancelled
  <2>2. Stopping'
    BY <1>11 DEF TaskCancelled, Stopping
  <2>3. Progress'
    BY <1>11 DEF TaskCancelled, Progress, Unstored
  <2>4. Owned'
    BY <1>11, <2>t DEF TaskCancelled, Owned, Progress, StillLooks, LeftToOthers, Unstored
  <2> QED
    BY <2>1, <2>2, <2>3, <2>4
<1>12. CASE TaskFails(i)
  <2>t. \A j : Taking(j)' <=> Taking(j)
    BY <1>12, TakingKept DEF TaskFails
  <2>1. TypeOK'
    BY <1>12 DEF TaskFails
  <2>2. Stopping'
    BY <1>12 DEF TaskFails, Stopping
  <2>3. Progress'
    BY <1>12 DEF TaskFails, Progress, Unstored
  <2>4. Owned'
    BY <1>12, <2>t DEF TaskFails, Owned, Progress, StillLooks, LeftToOthers, Unstored
  <2> QED
    BY <2>1, <2>2, <2>3, <2>4
<1>13. CASE WatcherStops(i)
  <2>t. \A j : Taking(j)' <=> Taking(j)
    BY <1>13, TakingKept DEF WatcherStops
  <2>1. TypeOK'
    BY <1>13 DEF WatcherStops
  <2>2. Stopping'
    BY <1>13 DEF WatcherStops, Stopping
  <2>3. Progress'
    BY <1>13 DEF WatcherStops, Progress, Unstored
  <2>4. Owned'
    BY <1>13, <2>t DEF WatcherStops, Owned, Progress, StillLooks, LeftToOthers, Unstored
  <2> QED
    BY <2>1, <2>2, <2>3, <2>4
<1>14. CASE WatcherDisconnects(i)
  <2>t. \A j : Taking(j)' <=> Taking(j)
    BY <1>14, TakingKept DEF WatcherDisconnects, Taken
  <2>1. TypeOK'
    BY <1>14 DEF WatcherDisconnects, Taken
  <2>2. Stopping'
    BY <1>14 DEF WatcherDisconnects, Taken, Stopping
  <2>3. Progress'
    BY <1>14 DEF WatcherDisconnects, Taken, Progress, Unstored
  <2>4. Owned'
    BY <1>14, <2>t DEF WatcherDisconnects, Taken, Owned, Progress, StillLooks, LeftToOthers, Unstored
  <2> QED
    BY <2>1, <2>2, <2>3, <2>4
<1>15. CASE WatcherRemoves(i)
  <2>t. \A j : Taking(j)' <=> Taking(j)
    BY <1>15, TakingKept DEF WatcherRemoves, AfterWatcher, RemovedIfCurrent
  <2>1. TypeOK'
    BY <1>15 DEF WatcherRemoves, AfterWatcher, RemovedIfCurrent
  <2>2. Stopping'
    BY <1>15 DEF WatcherRemoves, AfterWatcher, RemovedIfCurrent, Stopping
  <2>3. Progress'
    BY <1>15 DEF WatcherRemoves, AfterWatcher, RemovedIfCurrent, Progress, Unstored
  <2>4. Owned'
    BY <1>15, <2>t DEF WatcherRemoves, AfterWatcher, RemovedIfCurrent, Owned, Progress, StillLooks, LeftToOthers, Unstored
  <2> QED
    BY <2>1, <2>2, <2>3, <2>4
<1> QED
  BY <1>1, <1>2, <1>3, <1>4, <1>5, <1>6, <1>7, <1>8, <1>9, <1>10, <1>11, <1>12, <1>13, <1>14, <1>15

LEMMA StopSteps ==
  ASSUME PortForwardAssumption, ConnectionInv,
         \/ \E i \in Starts : Publish(i)
         \/ \E c \in Stops : BeginStop(c)
         \/ \E e \in Edits : BeginEdit(e) \/ CommitEdit(e) \/ Relabel(e)
         \/ \E p \in Stoppers : StopStep(p)
  PROVE  ConnectionInv'
<1> USE DEF PortForwardAssumption, ConnectionInv, TypeOK, Stoppers, Idle, Labels, Goto, catalog,
        request, manager, tunnel, watcher
\* A stop that begins has no entry yet, and takes none from another.
<1>b. ASSUME NEW p \in Stoppers, stop[p].at = "idle", stop' = [stop EXCEPT ![p].at = "entry"]
      PROVE  \A j \in Starts : Taking(j) => Taking(j)'
  BY <1>b DEF Taking, Stopping
\* ... and it stays typed.
<1>c. ASSUME NEW p \in Stoppers, stop' = [stop EXCEPT ![p].at = "entry"]
      PROVE  stop' \in [Stoppers -> [at : {"idle", "entry", "forward", "wait", "disconnect",
                                           "done"}, entry : Starts \cup {None}]]
  BY <1>c
<1>1. ASSUME NEW i \in Starts, Publish(i)
      PROVE  ConnectionInv'
  <2>1. stop[i] = Idle
    BY <1>1 DEF Publish, Stopping
  <2>s. stop' = stop \/ stop' = [stop EXCEPT ![i].at = "entry"]
    BY <1>1 DEF Publish
  <2>2. \A j \in Starts : Taking(j) => Taking(j)'
    <3>1. CASE stop' = stop
      BY <3>1, TakingKept
    <3>2. CASE stop' = [stop EXCEPT ![i].at = "entry"]
      <4>1. i \in Stoppers /\ stop[i].at = "idle"
        BY <2>1
      <4> QED
        BY <3>2, <4>1, <1>b
    <3> QED
      BY <2>s, <3>1, <3>2
  <2>3. TypeOK'
    <3>1. stop' \in [Stoppers -> [at : {"idle", "entry", "forward", "wait", "disconnect",
                                        "done"}, entry : Starts \cup {None}]]
      BY <2>s, <1>c
    <3> QED
      BY <1>1, <3>1 DEF Publish
  <2>4. Stopping'
    <3>1. CASE stop' = stop /\ pc' = [pc EXCEPT ![i] = "running"]
      BY <1>1, <3>1, <2>1 DEF Publish, Stopping
    <3>2. CASE stop' = [stop EXCEPT ![i].at = "entry"] /\ pc' = [pc EXCEPT ![i] = "withdraw"]
      BY <1>1, <3>2, <2>1 DEF Publish, Stopping
    <3> QED
      BY <1>1, <3>1, <3>2 DEF Publish
  <2>5. Progress'
    BY <1>1 DEF Publish, Progress, Unstored
  <2>6. Owned'
    BY <1>1, <2>2 DEF Publish, Owned, StillLooks, LeftToOthers
  <2> QED
    BY <2>3, <2>4, <2>5, <2>6
<1>2. ASSUME NEW p \in Stops \cup Edits, BeginStop(p) \/ (p \in Edits /\ BeginEdit(p))
      PROVE  ConnectionInv'
  <2>1. /\ stop[p].at = "idle" /\ stop' = [stop EXCEPT ![p].at = "entry"]
        /\ UNCHANGED <<revision, config, request, manager, tunnel, watcher>>
        /\ lock' \in Edits \cup {None} /\ (lock' # None => config # None)
    BY <1>2 DEF BeginStop, BeginEdit, Stopping
  <2>2. \A j \in Starts : Taking(j) => Taking(j)'
    BY <1>b, <2>1
  <2>3. TypeOK'
    BY <1>c, <2>1
  <2>4. Stopping'
    BY <2>1 DEF Stopping
  <2>5. Progress' /\ Owned'
    BY <2>1, <2>2 DEF Progress, Owned
  <2> QED
    BY <2>3, <2>4, <2>5
<1>3. ASSUME NEW e \in Edits, CommitEdit(e)
      PROVE  ConnectionInv'
  <2>1. UNCHANGED <<request, manager, tunnel, watcher, stop>> /\ lock' = None
    BY <1>3 DEF CommitEdit
  <2>2. config \in Nat
    BY <1>3 DEF CommitEdit, Stopping
  <2>3. revision' \in Nat /\ config' \in Nat \cup {None}
    BY <1>3, <2>2 DEF CommitEdit
  <2>4. TypeOK'
    BY <2>1, <2>3
  <2>5. Stopping' /\ Progress' /\ Owned'
    BY <2>1, TakingKept DEF Stopping, Progress, Owned
  <2> QED
    BY <2>4, <2>5
<1>4. ASSUME NEW p \in Stoppers, StopEntry(p)
      PROVE  ConnectionInv'
  <2>1. stop[p].entry = None
    BY <1>4 DEF StopEntry, Stopping
  <2>2. \A j \in Starts : Taking(j) \/ entry = j => Taking(j)'
    BY <1>4, <2>1 DEF StopEntry, Taking
  <2>3. TypeOK'
    BY <1>4 DEF StopEntry
  <2>4. Stopping'
    BY <1>4 DEF StopEntry, Stopping
  <2>5. Progress' /\ Owned'
    BY <1>4, <2>2 DEF StopEntry, Progress, Owned
  <2> QED
    BY <2>3, <2>4, <2>5
<1>5. ASSUME NEW p \in Stoppers, StopForward(p)
      PROVE  ConnectionInv'
  <2>1. \A j \in Starts : Taking(j) => Taking(j)'
    BY <1>5 DEF StopForward, Taking
  <2>2. TypeOK'
    BY <1>5 DEF StopForward
  <2>3. Stopping'
    BY <1>5 DEF StopForward, Stopping
  <2>4. Progress' /\ Owned'
    BY <1>5, <2>1 DEF StopForward, Progress, Owned
  <2> QED
    BY <2>2, <2>3, <2>4
<1>6. ASSUME NEW p \in Stoppers, StopCancel(p)
      PROVE  ConnectionInv'
  <2>1. \A j \in Starts : Taking(j) => Taking(j)'
    BY <1>6 DEF StopCancel, Taking
  <2>2. TypeOK'
    BY <1>6 DEF StopCancel
  <2>3. Stopping'
    BY <1>6 DEF StopCancel, Stopping
  <2>4. Progress' /\ Owned'
    BY <1>6, <2>1 DEF StopCancel, Progress, Owned
  <2> QED
    BY <2>2, <2>3, <2>4
\* The stop lets go of its entry: the start has been cancelled, or the entry
\* held the connection, which is closed.
<1>7. ASSUME NEW p \in Stoppers, StopDisconnect(p)
      PROVE  ConnectionInv'
  <2>1. \A j \in Starts : Taking(j) => Taking(j)' \/ stop[p].entry = j
    BY <1>7 DEF StopDisconnect, Taking
  <2>2. TypeOK'
    BY <1>7 DEF StopDisconnect, Taken
  <2>3. Stopping'
    BY <1>7 DEF StopDisconnect, Stopping
  <2>4. Progress'
    BY <1>7 DEF StopDisconnect, Taken, Progress, Unstored
  <2>5. stop[p].entry \in Starts => stop[p].entry \in cancelled
    BY <1>7 DEF StopDisconnect, Stopping
  <2>6. Owned'
    BY <1>7, <2>1, <2>5
       DEF StopDisconnect, Taken, Owned, Progress, StillLooks, LeftToOthers, Unstored
  <2> QED
    BY <2>2, <2>3, <2>4, <2>6
<1>8. ASSUME NEW e \in Edits, Relabel(e)
      PROVE  ConnectionInv'
  <2>1. \A j \in Starts : Taking(j) => Taking(j)'
    <3>1. stop[e].entry = None
      BY <1>8 DEF Relabel, Stopping
    <3> QED
      BY <1>8, <3>1 DEF Relabel, Taking
  <2>s. stop' \in [Stoppers -> [at : {"idle", "entry", "forward", "wait", "disconnect",
                                     "done"}, entry : Starts \cup {None}]]
    BY <1>8 DEF Relabel
  <2>2. TypeOK'
    BY <1>8, <2>s DEF Relabel
  <2>3. Stopping'
    BY <1>8 DEF Relabel, Stopping
  <2>4. Progress' /\ Owned'
    BY <1>8, <2>1 DEF Relabel, Progress, Owned
  <2> QED
    BY <2>2, <2>3, <2>4
<1> QED
  BY <1>1, <1>2, <1>3, <1>4, <1>5, <1>6, <1>7, <1>8 DEF StopStep

LEMMA ConnectionNext ==
  ASSUME PortForwardAssumption
  PROVE  ConnectionInv /\ [Next]_vars => ConnectionInv'
<1> SUFFICES ASSUME ConnectionInv, [Next]_vars PROVE ConnectionInv'
  OBVIOUS
<1>1. CASE UNCHANGED vars
  BY <1>1 DEF vars, catalog, request, manager, tunnel, watcher, ConnectionInv, TypeOK, Stopping,
              Progress, Owned, Taking
<1>2. CASE Next
  BY <1>2, StartSteps, StopSteps DEF Next, StartStep, WatcherStep
<1> QED
  BY <1>1, <1>2

-----------------------------------------------------------------------------
(* The theorems.                                                           *)

\* A start that has not yet published has seen the rule as it was at its
\* revision, and the catalog only moves on.
Prepared ==
  \A i \in Starts : pc[i] # "new" =>
    seen[i] <= revision /\ (seen[i] = revision => used[i] = config)

\* An edit that has stopped the rule finds no tunnel of a successful start.
EditExcludes ==
  \A e \in Edits : lock = e /\ stop[e].at \in {"wait", "disconnect", "done"} =>
    \A i \in Starts : ~(pc[i] = "running" /\ Live(i))

TunnelInv == ConnectionInv /\ TunnelReachable /\ Prepared /\ EditExcludes /\ RunsWhatIsStored

LEMMA TunnelInit == PortForwardAssumption /\ Init => TunnelInv
<1> SUFFICES ASSUME PortForwardAssumption, Init PROVE TunnelInv
  OBVIOUS
<1>1. TunnelReachable /\ Prepared /\ EditExcludes /\ RunsWhatIsStored
  BY DEF Init, TunnelReachable, Prepared, EditExcludes, RunsWhatIsStored, Live
<1> QED
  BY <1>1, ConnectionInit DEF TunnelInv

\* What the invariant adds to ConnectionInv, kept by the steps of a start that
\* leave the catalog and the stops alone, of its task and of its watcher.
LEMMA TunnelStartSteps ==
  ASSUME PortForwardAssumption, TunnelInv, NEW i \in Starts,
         Prepare(i) \/ Register(i) \/ Connect(i) \/ Connected(i) \/ Store(i) \/ OpenTunnel(i) \/ Opened(i)
           \/ GiveUp(i) \/ SpawnWatcher(i) \/ Withdrawn(i) \/ TaskCancelled(i) \/ TaskFails(i)
           \/ WatcherStops(i) \/ WatcherDisconnects(i) \/ WatcherRemoves(i)
  PROVE  TunnelReachable' /\ Prepared' /\ EditExcludes' /\ RunsWhatIsStored'
<1> USE DEF PortForwardAssumption, TunnelInv, ConnectionInv, TypeOK, TunnelReachable, Prepared,
        EditExcludes, RunsWhatIsStored, Live, Stoppers, Labels, Goto, catalog, request, manager,
        tunnel, watcher
<1>1. CASE Prepare(i)
  BY <1>1 DEF Prepare
<1>2. CASE Register(i)
  BY <1>2 DEF Register
<1>3. CASE Connect(i)
  BY <1>3 DEF Connect
<1>4. CASE Connected(i)
  BY <1>4 DEF Connected, Cancelled
<1>5. CASE Store(i)
  BY <1>5 DEF Store
<1>6. CASE OpenTunnel(i)
  BY <1>6 DEF OpenTunnel, Free
<1>7. CASE Opened(i)
  BY <1>7 DEF Opened, Cancelled
<1>8. CASE GiveUp(i)
  BY <1>8 DEF GiveUp
<1>9. CASE SpawnWatcher(i)
  BY <1>9 DEF SpawnWatcher
<1>10. CASE Withdrawn(i)
  BY <1>10 DEF Withdrawn
<1>11. CASE TaskCancelled(i)
  BY <1>11 DEF TaskCancelled
<1>12. CASE TaskFails(i)
  BY <1>12 DEF TaskFails
<1>13. CASE WatcherStops(i)
  BY <1>13 DEF WatcherStops, Notified
<1>14. CASE WatcherDisconnects(i)
  BY <1>14 DEF WatcherDisconnects
<1>15. CASE WatcherRemoves(i)
  BY <1>15 DEF WatcherRemoves
<1> QED
  BY <1>1, <1>2, <1>3, <1>4, <1>5, <1>6, <1>7, <1>8, <1>9, <1>10, <1>11, <1>12, <1>13, <1>14, <1>15

\* And by the publication, the stops and the edits.
LEMMA TunnelOtherSteps ==
  ASSUME PortForwardAssumption, TunnelInv, NEW p \in Stoppers,
         \/ p \in Starts /\ Publish(p)
         \/ p \in Stops /\ BeginStop(p)
         \/ StopStep(p)
         \/ p \in Edits /\ (BeginEdit(p) \/ CommitEdit(p) \/ Relabel(p))
  PROVE  TunnelReachable' /\ Prepared' /\ EditExcludes' /\ RunsWhatIsStored'
<1> USE DEF PortForwardAssumption, TunnelInv, ConnectionInv, TypeOK, TunnelReachable, Prepared,
        EditExcludes, RunsWhatIsStored, Live, Stoppers, Labels, Goto, catalog, request, manager,
        tunnel, watcher
<1>1. CASE p \in Starts /\ Publish(p)
  BY <1>1 DEF Publish, Current
<1>2. CASE p \in Stops /\ BeginStop(p)
  BY <1>2 DEF BeginStop
<1>3. CASE StopEntry(p)
  BY <1>3 DEF StopEntry
<1>4. CASE StopForward(p)
  BY <1>4 DEF StopForward
<1>5. CASE StopCancel(p)
  BY <1>5 DEF StopCancel
<1>6. CASE StopDisconnect(p)
  BY <1>6 DEF StopDisconnect
<1>7. CASE p \in Edits /\ BeginEdit(p)
  BY <1>7 DEF BeginEdit
<1>8. CASE p \in Edits /\ CommitEdit(p)
  BY <1>8 DEF CommitEdit, Stopping
<1>9. CASE p \in Edits /\ Relabel(p)
  BY <1>9 DEF Relabel
<1> QED
  BY <1>1, <1>2, <1>3, <1>4, <1>5, <1>6, <1>7, <1>8, <1>9 DEF StopStep

LEMMA TunnelNext == PortForwardAssumption /\ TunnelInv /\ [Next]_vars => TunnelInv'
<1> SUFFICES ASSUME PortForwardAssumption, TunnelInv, [Next]_vars PROVE TunnelInv'
  OBVIOUS
<1>1. ConnectionInv'
  BY ConnectionNext DEF TunnelInv
<1>2. TunnelReachable' /\ Prepared' /\ EditExcludes' /\ RunsWhatIsStored'
  <2>1. CASE UNCHANGED vars
    BY <2>1 DEF vars, catalog, request, manager, tunnel, watcher, TunnelInv, TunnelReachable,
                Prepared, EditExcludes, RunsWhatIsStored, Live
  <2>2. ASSUME NEW i \in Starts,
               Prepare(i) \/ StartStep(i) \/ WatcherStep(i) \/ TaskCancelled(i) \/ TaskFails(i)
        PROVE  TunnelReachable' /\ Prepared' /\ EditExcludes' /\ RunsWhatIsStored'
    BY <2>2, TunnelStartSteps, TunnelOtherSteps DEF StartStep, WatcherStep, Stoppers
  <2>3. ASSUME NEW c \in Stops, BeginStop(c)
        PROVE  TunnelReachable' /\ Prepared' /\ EditExcludes' /\ RunsWhatIsStored'
    BY <2>3, TunnelOtherSteps DEF Stoppers
  <2>4. ASSUME NEW p \in Stoppers, StopStep(p)
        PROVE  TunnelReachable' /\ Prepared' /\ EditExcludes' /\ RunsWhatIsStored'
    BY <2>4, TunnelOtherSteps
  <2>5. ASSUME NEW e \in Edits, BeginEdit(e) \/ CommitEdit(e) \/ Relabel(e)
        PROVE  TunnelReachable' /\ Prepared' /\ EditExcludes' /\ RunsWhatIsStored'
    BY <2>5, TunnelOtherSteps DEF Stoppers
  <2> QED
    BY <2>1, <2>2, <2>3, <2>4, <2>5 DEF Next
<1> QED
  BY <1>1, <1>2 DEF TunnelInv

\* All of it together, for any number of starts, stops and edits of the rule:
\* no connection is leaked, a running tunnel is within reach of a stop and runs
\* the rule as it is stored, and its entry stays.
THEOREM TunnelsAreSound ==
  ASSUME PortForwardAssumption
  PROVE  Spec => []TunnelsSound
<1>1. Init => TunnelInv
  BY TunnelInit
<1>2. TunnelInv /\ [Next]_vars => TunnelInv'
  BY TunnelNext
<1>3. TunnelInv => TunnelsSound
  <2> SUFFICES ASSUME TunnelInv PROVE TunnelsSound
    OBVIOUS
  <2>1. TypeOK /\ TunnelReachable /\ RunsWhatIsStored
    BY DEF TunnelInv, ConnectionInv
  <2>2. ConnectionOwned
    BY DEF TunnelInv, ConnectionInv, TypeOK, Owned, LeftToOthers, Taking, ConnectionOwned, Returned
  <2>3. EntryIsNotTakenAway
    BY DEF TunnelInv, ConnectionInv, TypeOK, Owned, LeftToOthers, Taking, EntryIsNotTakenAway
  <2> QED
    BY <2>1, <2>2, <2>3 DEF TunnelsSound
<1> QED
  BY <1>1, <1>2, <1>3, PTL DEF Spec
=============================================================================
