----------------------------- MODULE PortForward -----------------------------
(***************************************************************************)
(* The life of one port-forward rule: ResolvedPortForwardManager and        *)
(* PortForwardManager (netcatty-ssh) and the commands of the desktop        *)
(* program that start, stop, update and delete the rule.                   *)
(*                                                                         *)
(* A start prepares itself under the saved-host lock, connects and opens   *)
(* its tunnel without it, and publishes the time of use with a             *)
(* compare-and-swap on the catalog revision it has seen.  A stop works on   *)
(* the two maps, entries and forwards, one after the other, and knows the   *)
(* tunnel by its rule only.  Each tunnel has a task and a watcher that     *)
(* cleans up when the task ends.  Everything runs on several threads.      *)
(*                                                                         *)
(* A start is identified by a number; its entry, connection, task and      *)
(* watcher carry the same one.                                             *)
(***************************************************************************)
EXTENDS Naturals

CONSTANTS
  None,
  Starts,      \* starts of the rule
  Stops,       \* stop commands
  Edits        \* updates and deletions of the rule

\* What a model must choose: requests are different from each other.
PortForwardAssumption ==
  /\ None \notin Starts \cup Stops \cup Edits
  /\ Starts \cap Stops = {} /\ Starts \cap Edits = {} /\ Stops \cap Edits = {}

VARIABLES
  revision,    \* of the catalog
  config,      \* number of changes to the rule, or None once it is deleted
  lock,        \* the edit that holds the saved-host lock, or None
  pc,          \* where each start is
  seen, used,  \* the revision and the rule it has prepared
  entry,       \* the rule's entry in ResolvedPortForwardManager
  cancelled,   \* entries that are cancelled
  failed,      \* entries whose phase is Error
  open,        \* connections that are open
  stored,      \* entries that hold their connection
  forward,     \* the rule's tunnel in PortForwardManager
  task,        \* each tunnel's task: none, running, ended
  ending,      \* tasks whose token is cancelled
  watch,       \* where each watcher is
  missed,      \* watchers that subscribed after the task had sent Stopped
  stop         \* each stop in progress: where it is and the entry it took

manager == <<entry, cancelled, failed, open, stored>>
tunnel == <<forward, task, ending>>
watcher == <<watch, missed>>
catalog == <<revision, config, lock>>
request == <<pc, seen, used>>
vars == <<catalog, request, manager, tunnel, watcher, stop>>

\* Who may be stopping the rule: a command, an edit, or a start that could not
\* publish.
Stoppers == Starts \cup Stops \cup Edits

Idle == [at |-> "idle", entry |-> None]

Init ==
  /\ revision = 0 /\ config = 0 /\ lock = None
  /\ pc = [i \in Starts |-> "new"]
  /\ seen = [i \in Starts |-> 0] /\ used = [i \in Starts |-> 0]
  /\ entry = None /\ cancelled = {} /\ failed = {} /\ open = {} /\ stored = {}
  /\ forward = None /\ task = [i \in Starts |-> "none"] /\ ending = {}
  /\ watch = [i \in Starts |-> "none"] /\ missed = {}
  /\ stop = [p \in Stoppers |-> Idle]

Goto(i, l) == pc' = [pc EXCEPT ![i] = l]

-----------------------------------------------------------------------------
\* start_port_forward.

\* prepare_port_forward_start, one step under the lock.
Prepare(i) ==
  /\ pc[i] = "new" /\ lock = None /\ config # None
  /\ seen' = [seen EXCEPT ![i] = revision] /\ used' = [used EXCEPT ![i] = config]
  /\ Goto(i, "register")
  /\ UNCHANGED <<catalog, manager, tunnel, watcher, stop>>

\* The first part of start_resolved: an entry that is not in error is a
\* duplicate; one in error is replaced and cancelled.
Register(i) ==
  /\ pc[i] = "register"
  /\ IF entry = None \/ entry \in failed
       THEN /\ entry' = i /\ Goto(i, "connect")
            /\ cancelled' = cancelled \cup ({entry} \ {None})
       ELSE Goto(i, "failed") /\ UNCHANGED <<entry, cancelled>>
  /\ UNCHANGED <<catalog, seen, used, failed, open, stored, tunnel, watcher, stop>>

Connect(i) ==
  /\ pc[i] = "connect"
  /\ \/ open' = open \cup {i} /\ Goto(i, "connected") /\ UNCHANGED failed
     \/ failed' = failed \cup {i} /\ Goto(i, "failed") /\ UNCHANGED open
  /\ UNCHANGED <<catalog, seen, used, entry, cancelled, stored, tunnel, watcher,
                 stop>>

\* remove_if_current.
RemovedIfCurrent(i) == IF entry = i THEN None ELSE entry

Cancelled(i) == i \in cancelled

\* The connection is there: give it up or keep it in the entry.
Connected(i) ==
  /\ pc[i] = "connected"
  /\ IF Cancelled(i)
       THEN open' = open \ {i} /\ entry' = RemovedIfCurrent(i) /\ Goto(i, "failed")
       ELSE Goto(i, "store") /\ UNCHANGED <<open, entry>>
  /\ UNCHANGED <<catalog, seen, used, cancelled, failed, stored, tunnel, watcher,
                 stop>>

Store(i) ==
  /\ pc[i] = "store" /\ stored' = stored \cup {i} /\ Goto(i, "open")
  /\ UNCHANGED <<catalog, seen, used, entry, cancelled, failed, open, tunnel,
                 watcher, stop>>

Forgotten(i) == stored \ {i}

\* Mutant: a registered tunnel is not looked for.
FreeAlways == TRUE
\* A rule has one tunnel.
Free == forward = None

\* PortForwardManager::start and start_remote; the address may be taken.
OpenTunnel(i) ==
  /\ pc[i] = "open"
  /\ \/ /\ Free
        /\ forward' = i /\ task' = [task EXCEPT ![i] = "running"]
        /\ Goto(i, "opened") /\ UNCHANGED <<open, stored, failed>>
     \/ /\ open' = open \ {i} /\ stored' = Forgotten(i)
        /\ failed' = failed \cup {i} /\ Goto(i, "failed")
        /\ UNCHANGED <<forward, task>>
  /\ UNCHANGED <<catalog, seen, used, entry, cancelled, ending, watcher, stop>>

\* Cancelled in the meantime: stop the tunnel the rule now has, then disconnect.
Opened(i) ==
  /\ pc[i] = "opened"
  /\ IF Cancelled(i)
       THEN /\ forward' = None /\ ending' = ending \cup ({forward} \ {None})
            /\ Goto(i, "give_up")
       ELSE Goto(i, "watch") /\ UNCHANGED <<forward, ending>>
  /\ UNCHANGED <<catalog, seen, used, manager, task, watcher, stop>>

GiveUp(i) ==
  /\ pc[i] = "give_up" /\ Goto(i, "failed")
  /\ open' = open \ {i} /\ stored' = Forgotten(i) /\ entry' = RemovedIfCurrent(i)
  /\ UNCHANGED <<catalog, seen, used, cancelled, failed, tunnel, watcher, stop>>

\* The entry becomes Active and its watcher subscribes: it sees what is sent
\* from now on, or that the channel is closed.
SpawnWatcher(i) ==
  /\ pc[i] = "watch" /\ Goto(i, "publish")
  /\ watch' = [watch EXCEPT ![i] = "waiting"]
  /\ missed' = IF task[i] = "ended" THEN missed \cup {i} ELSE missed
  /\ UNCHANGED <<catalog, seen, used, manager, tunnel, stop>>

\* Mutant: the time of use is published on whatever is current.
CurrentAny(i) == config # None
\* plan_graph_replacement compares the revision.
Current(i) == seen[i] = revision

\* commit_port_forward_graph; a failure of any kind stops the rule again.
Publish(i) ==
  /\ pc[i] = "publish" /\ lock = None
  /\ \/ Current(i) /\ revision' = revision + 1 /\ Goto(i, "running") /\ UNCHANGED stop
     \/ /\ Goto(i, "withdraw") /\ UNCHANGED revision
        /\ stop' = [stop EXCEPT ![i].at = "entry"]
  /\ UNCHANGED <<config, lock, seen, used, manager, tunnel, watcher>>

Withdrawn(i) ==
  /\ pc[i] = "withdraw" /\ stop[i].at = "done" /\ Goto(i, "failed")
  /\ UNCHANGED <<catalog, seen, used, manager, tunnel, watcher, stop>>

-----------------------------------------------------------------------------
\* ResolvedPortForwardManager::stop.

BeginStop(c) ==
  /\ stop[c].at = "idle" /\ stop' = [stop EXCEPT ![c].at = "entry"]
  /\ UNCHANGED <<catalog, request, manager, tunnel, watcher>>

StopEntry(p) ==
  /\ stop[p].at = "entry"
  /\ entry' = None
  /\ stop' = [stop EXCEPT ![p] = [at |-> "forward", entry |-> entry]]
  /\ UNCHANGED <<catalog, request, cancelled, failed, open, stored, tunnel, watcher>>

\* PortForwardManager::stop: remove the tunnel and cancel its task.
StopForward(p) ==
  /\ stop[p].at = "forward"
  /\ forward' = None /\ ending' = ending \cup ({forward} \ {None})
  /\ stop' = [stop EXCEPT ![p].at = "wait"]
  /\ UNCHANGED <<catalog, request, manager, task, watcher>>

\* The task has ended, or the time for it is over; cancel the entry.
StopCancel(p) ==
  /\ stop[p].at = "wait"
  /\ cancelled' = cancelled \cup ({stop[p].entry} \ {None})
  /\ stop' = [stop EXCEPT ![p].at = "disconnect"]
  /\ UNCHANGED <<catalog, request, entry, failed, open, stored, tunnel, watcher>>

\* Mutant: the connection is left to the start.
TakenNone(e) == {}
\* Only a connection the entry holds can be taken from it.
Taken(e) == {e} \cap stored

StopDisconnect(p) ==
  /\ stop[p].at = "disconnect"
  /\ open' = open \ Taken(stop[p].entry) /\ stored' = stored \ Taken(stop[p].entry)
  /\ stop' = [stop EXCEPT ![p].at = "done"]
  /\ UNCHANGED <<catalog, request, entry, cancelled, failed, tunnel, watcher>>

-----------------------------------------------------------------------------
\* update_port_forward_rule and delete_port_forward_rule: stop the rule, then
\* commit, all of it under the lock.

BeginEdit(e) ==
  /\ stop[e].at = "idle" /\ lock = None /\ config # None
  /\ lock' = e /\ stop' = [stop EXCEPT ![e].at = "entry"]
  /\ UNCHANGED <<revision, config, request, manager, tunnel, watcher>>

CommitEdit(e) ==
  /\ lock = e /\ stop[e].at = "done"
  /\ lock' = None
  /\ \/ config' \in {config + 1, None} /\ revision' = revision + 1
     \/ UNCHANGED <<config, revision>>
  /\ UNCHANGED <<request, manager, tunnel, watcher, stop>>

\* An update that leaves the connection as it is does not stop the rule; the
\* catalog gets a new revision all the same.
Relabel(e) ==
  /\ stop[e].at = "idle" /\ lock = None /\ config # None
  /\ stop' = [stop EXCEPT ![e].at = "done"]
  /\ revision' = revision + 1
  /\ UNCHANGED <<config, lock, request, manager, tunnel, watcher>>

-----------------------------------------------------------------------------
\* Tasks and watchers.

\* A task ends when it is cancelled, or on an error of its own.
TaskCancelled(i) ==
  /\ task[i] = "running" /\ i \in ending
  /\ task' = [task EXCEPT ![i] = "ended"]
  /\ UNCHANGED <<catalog, request, manager, forward, ending, watcher, stop>>

TaskFails(i) ==
  /\ task[i] = "running" /\ i \notin ending
  /\ task' = [task EXCEPT ![i] = "ended"]
  /\ UNCHANGED <<catalog, request, manager, forward, ending, watcher, stop>>

\* The watcher received Stopped; or every sender of the channel is gone, the
\* map's included.
Notified(i) == task[i] = "ended" /\ (i \notin missed \/ forward # i)

WatcherStops(i) ==
  /\ watch[i] = "waiting" /\ Notified(i)
  /\ forward' = None /\ ending' = ending \cup ({forward} \ {None})
  /\ watch' = [watch EXCEPT ![i] = "disconnect"]
  /\ UNCHANGED <<catalog, request, manager, task, missed, stop>>

WatcherDisconnects(i) ==
  /\ watch[i] = "disconnect"
  /\ open' = open \ Taken(i) /\ stored' = stored \ Taken(i)
  /\ watch' = [watch EXCEPT ![i] = "remove"]
  /\ UNCHANGED <<catalog, request, entry, cancelled, failed, tunnel, missed, stop>>

\* Mutant: the entry is left in the list.
AfterWatcherKept(i) == entry
AfterWatcher(i) == RemovedIfCurrent(i)

WatcherRemoves(i) ==
  /\ watch[i] = "remove"
  /\ entry' = AfterWatcher(i) /\ watch' = [watch EXCEPT ![i] = "done"]
  /\ UNCHANGED <<catalog, request, cancelled, failed, open, stored, tunnel, missed,
                 stop>>

StartStep(i) ==
  \/ Register(i) \/ Connect(i) \/ Connected(i) \/ Store(i) \/ OpenTunnel(i)
  \/ Opened(i) \/ GiveUp(i) \/ SpawnWatcher(i) \/ Publish(i) \/ Withdrawn(i)
StopStep(p) == StopEntry(p) \/ StopForward(p) \/ StopCancel(p) \/ StopDisconnect(p)
WatcherStep(i) == WatcherStops(i) \/ WatcherDisconnects(i) \/ WatcherRemoves(i)

Next ==
  \/ \E i \in Starts : Prepare(i) \/ StartStep(i) \/ WatcherStep(i)
                         \/ TaskCancelled(i) \/ TaskFails(i)
  \/ \E c \in Stops : BeginStop(c)
  \/ \E p \in Stoppers : StopStep(p)
  \/ \E e \in Edits : BeginEdit(e) \/ CommitEdit(e) \/ Relabel(e)

Spec == Init /\ [][Next]_vars

-----------------------------------------------------------------------------
Labels == {"new", "register", "connect", "connected", "store", "open", "opened",
           "give_up", "watch", "publish", "withdraw", "running", "failed"}

\* Types; a connection is held only by an entry that made one.
TypeOK ==
  /\ revision \in Nat /\ config \in Nat \cup {None} /\ lock \in Edits \cup {None}
  /\ pc \in [Starts -> Labels] /\ seen \in [Starts -> Nat] /\ used \in [Starts -> Nat]
  /\ {entry, forward} \subseteq Starts \cup {None}
  /\ cancelled \subseteq Starts /\ failed \subseteq Starts
  /\ stored \subseteq open /\ open \subseteq Starts
  /\ task \in [Starts -> {"none", "running", "ended"}] /\ ending \subseteq Starts
  /\ watch \in [Starts -> {"none", "waiting", "disconnect", "remove", "done"}]
  /\ missed \subseteq Starts
  /\ stop \in [Stoppers -> [at : {"idle", "entry", "forward", "wait", "disconnect",
                                  "done"}, entry : Starts \cup {None}]]

Live(i) == task[i] = "running" /\ i \notin ending
Returned(i) == pc[i] \in {"running", "failed"}

\* Updating and deleting a rule do not wait for a start that is connecting; the
\* compare-and-swap has to find it out.  A tunnel whose start was reported as
\* successful always runs for the rule as it is stored.
RunsWhatIsStored ==
  \A i \in Starts : pc[i] = "running" /\ Live(i) => used[i] = config

\* A tunnel that nobody has stopped is the one its rule is registered with, so
\* that a later stop, update or deletion reaches it.
TunnelReachable == \A i \in Starts : Live(i) => forward = i

\* "Stopping the tunnel disconnects its target": the connection of a start that
\* has returned is that of the current entry, or somebody is about to close it.
\* None is leaked, in whatever order a stop and a start meet.
ConnectionOwned ==
  \A i \in open :
    \/ ~Returned(i) \/ entry = i
    \/ \E p \in Stoppers : stop[p].entry = i /\ stop[p].at # "done"
    \/ watch[i] = "disconnect" \/ (watch[i] = "waiting" /\ (i \in ending \/ Notified(i)))

\* A rule that is shown as running or connecting has a start that still works
\* on it, or the tunnel of that very start: an older watcher does not remove
\* the entry of a newer start.
EntryIsNotTakenAway ==
  \A i \in open : pc[i] \in {"watch", "publish", "running"} /\ Live(i)
                    /\ i \notin cancelled =>
    entry = i \/ \E p \in Stoppers : stop[p].entry = i /\ stop[p].at # "done"

\* Nothing is leaked, out of reach or out of date in whatever order starts,
\* stops, edits and ends of a rule meet.
TunnelsSound ==
  /\ TypeOK
  /\ ConnectionOwned
  /\ TunnelReachable
  /\ RunsWhatIsStored
  /\ EntryIsNotTakenAway

\* What the liveness properties speak of: a start that is told to stop, a tunnel
\* whose end its watcher has not missed, and what is left of them.
Told(i) == i \in cancelled
TunnelEnded(i) == watch[i] = "waiting" /\ task[i] = "ended" /\ i \notin missed
Unconnected(i) == i \notin open
Unlisted(i) == entry # i
=============================================================================
