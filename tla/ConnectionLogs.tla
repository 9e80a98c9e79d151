--------------------------- MODULE ConnectionLogs ---------------------------
(***************************************************************************)
(* The history of connections: the catalog of logs in the Vault, the       *)
(* capture of a session's output in memory, and the encrypted replays on   *)
(* disk, with everything that writes to two of them: the forwarder of a    *)
(* session (forward_started_ssh_session, finalize_connection_log_replay),  *)
(* the commands that change the catalog, the reconciliation at startup and *)
(* the one that runs in the background.                                    *)
(*                                                                         *)
(* A session and its log are one number, which is also the start time.     *)
(* The coordinator (run_saved_host_operation) is one lock.  An operation    *)
(* of the replay store holds the store's own lock from its first step to    *)
(* its last, so it is one step here, with every point at which it can fail; *)
(* a crash inside of it is that failure, followed by the crash.             *)
(***************************************************************************)
EXTENDS Naturals, FiniteSets, FiniteSetsExt

CONSTANTS
  MaxSessions,   \* bound: sessions that are started
  MaxChunks,     \* bound: chunks of output of a session
  MaxEdits,      \* bound: commands that change the catalog
  MaxCrashes,    \* bound: crashes of the process
  MaxUnsaved,    \* MAX_UNSAVED_CONNECTION_LOGS
  MaxReplays,    \* MAX_PERSISTED_UNSAVED_CONNECTION_LOG_REPLAYS
  MaxAttempts,   \* attempts of a finalization: one more than RETRY_DELAYS_MILLIS has
  MaxFinishFailures, \* MAX_FINISH_FAILURES
  Commands,      \* the commands in use: replace, clear, read
  Faults         \* how a write can fail: fail, unsure, blob, nogc

\* What a model must choose.
ConnectionLogsAssumption ==
  /\ MaxSessions \in Nat \ {0} /\ MaxChunks \in Nat /\ MaxEdits \in Nat /\ MaxCrashes \in Nat
  /\ MaxUnsaved \in Nat \ {0} /\ MaxReplays \in Nat \ {0}
  /\ MaxAttempts \in Nat \ {0} /\ MaxFinishFailures \in Nat \ {0}
  /\ Commands \subseteq {"replace", "clear", "read"}
  /\ Faults \subseteq {"fail", "unsure", "blob", "nogc"}

Sessions == 1..MaxSessions

VARIABLES
  catalog,    \* the logs in the Vault: absent, or whether they ended and are bookmarked
  rev,        \* the inventory's revision
  index,      \* the replays the index names: their revision (0: none) and bookmark
  blobs,      \* the revisions of each replay on disk, and what they hold
  custody,    \* opening, ready, failed
  startup,    \* the reconciliation at startup is still to come
  lock,       \* who holds the coordinator: free, session, user
  session,    \* the forwarder of each session
  capture,    \* the output of each session in memory
  timers,     \* the failed captures that are to be dropped
  background, \* the catalogs that are reconciled in the background
  view,       \* the catalog the renderer has
  export,     \* the log whose export waits for a path, or 0
  started, edits, crashes,
  confirmed,  \* the logs whose start was confirmed
  removed,    \* the logs the user or the retention removed
  completed,  \* the logs whose finalization was complete
  reads       \* what was read of replays

disk == <<catalog, rev, index, blobs>>
memory == <<custody, startup, lock, session, capture, timers, background, view, export>>
bounds == <<started, edits, crashes>>
history == <<confirmed, removed, completed, reads>>
vars == <<disk, memory, bounds, history>>

NoLog == [here |-> FALSE, ended |-> FALSE, saved |-> FALSE]
NoEntry == [rev |-> 0, saved |-> FALSE]
NoCapture == [live |-> FALSE, chunks |-> 0, failures |-> 0]
NoSession == [phase |-> "none", start |-> "none", replay |-> FALSE, attempt |-> 0,
              logs |-> [l \in Sessions |-> NoLog]]
NoLogs == [l \in Sessions |-> NoLog]

Listed(logs) == {l \in Sessions : logs[l].here}

Init ==
  /\ catalog = NoLogs /\ rev = 0
  /\ index = [l \in Sessions |-> NoEntry] /\ blobs = [l \in Sessions |-> {}]
  /\ custody = "opening" /\ startup = TRUE /\ lock = "free"
  /\ session = [l \in Sessions |-> NoSession] /\ capture = [l \in Sessions |-> NoCapture]
  /\ timers = {} /\ background = {} /\ view = [rev |-> 0, logs |-> NoLogs] /\ export = 0
  /\ started = 0 /\ edits = 0 /\ crashes = 0
  /\ confirmed = {} /\ removed = {} /\ completed = {} /\ reads = {}

----------------------------------------------------------------------------
\* The Vault: a catalog is published with the newest of its unbookmarked logs.

\* The n newest members of a set of logs.
Newest(logs, n) == {l \in logs : Cardinality({k \in logs : k > l}) < n}

\* with_legacy_retention: every bookmarked log and the newest of the others.
WithLegacyRetention(logs) ==
  LET unsaved == {l \in Listed(logs) : ~logs[l].saved}
      kept == (Listed(logs) \ unsaved) \cup Newest(unsaved, MaxUnsaved)
  IN  [l \in Sessions |-> IF l \in kept THEN logs[l] ELSE NoLog]

\* "ok": published; "fail": not; "unsure": published, but its durability is not
\* confirmed, which is an error as well.  The user meant to remove `meant'.
Publish(logs, meant, outcome) ==
  LET kept == WithLegacyRetention(logs)
      written == outcome # "fail" /\ kept # catalog IN
  /\ catalog' = IF written THEN kept ELSE catalog
  /\ rev' = IF written THEN rev + 1 ELSE rev
  /\ removed' = IF outcome # "fail" THEN removed \cup meant \cup (Listed(logs) \ Listed(kept)) ELSE removed

VaultOutcomes == {"ok"} \cup (Faults \cap {"fail", "unsure"})

\* complete_open_connection_log
CompleteOpen(l) ==
  IF catalog[l].here /\ ~catalog[l].ended THEN [catalog EXCEPT ![l].ended = TRUE] ELSE catalog

----------------------------------------------------------------------------
\* The replay store.

InIndex(i) == {l \in Sessions : i[l].rev # 0}

ApplyReplayRetention(i) ==
  LET unsaved == {l \in InIndex(i) : ~i[l].saved}
      kept == (InIndex(i) \ unsaved) \cup Newest(unsaved, MaxReplays)
  IN  [l \in Sessions |-> IF l \in kept THEN i[l] ELSE NoEntry]

\* collect_locked: only what the index names stays.
Collect(b, i) == [l \in Sessions |-> {x \in b[l] : x.rev = i[l].rev}]

NextRevision(l) == Max({0} \cup {x.rev : x \in blobs[l]}) + 1

StoreOutcomes == {"ok"} \cup (Faults \cap {"fail", "blob", "nogc"})

\* Mutant: the index names the replay before it is written.
ReplaceIndexFirst(l, saved, data, outcome) ==
  LET r == NextRevision(l)
      entry == [rev |-> r, saved |-> saved]
      i == ApplyReplayRetention([index EXCEPT ![l] = entry])
      b == [blobs EXCEPT ![l] = @ \cup {[rev |-> r, data |-> data]}]
  IN  /\ index' = IF outcome = "fail" THEN index ELSE i
      /\ blobs' = CASE outcome \in {"fail", "blob"} -> blobs
                    [] outcome = "nogc" -> b
                    [] outcome = "ok" -> Collect(b, i)

\* replace_terminal_data: the replay, then the index, then the collection.  A
\* replay that its own retention drops is not written.
Replace(l, saved, data, outcome) ==
  LET r == NextRevision(l)
      i == ApplyReplayRetention([index EXCEPT ![l] = [rev |-> r, saved |-> saved]])
      b == IF i[l] = NoEntry THEN blobs
           ELSE [blobs EXCEPT ![l] = @ \cup {[rev |-> r, data |-> data]}]
  IN  /\ index' = IF outcome \in {"fail", "blob"} THEN index ELSE i
      /\ blobs' = CASE outcome = "fail" -> blobs
                    [] outcome \in {"blob", "nogc"} -> b
                    [] outcome = "ok" -> Collect(b, i)

\* reconcile: against a complete catalog.
Reconcile(logs, outcome) ==
  LET i == ApplyReplayRetention([l \in Sessions |->
             IF index[l].rev # 0 /\ logs[l].here THEN [index[l] EXCEPT !.saved = logs[l].saved]
             ELSE NoEntry])
  IN  /\ index' = IF outcome \in {"fail", "blob"} THEN index ELSE i
      /\ blobs' = IF outcome = "ok" THEN Collect(blobs, i) ELSE blobs

----------------------------------------------------------------------------
\* The custody of replays is opened once for a process, in the background.

OpenCustody ==
  /\ custody = "opening"
  /\ custody' \in {"ready"} \cup (IF "fail" \in Faults THEN {"failed"} ELSE {})
  /\ UNCHANGED <<disk, startup, lock, session, capture, timers, background, view, export, bounds,
                 history>>

StartupReconcile ==
  /\ startup /\ custody = "ready" /\ lock = "free"
  /\ startup' = FALSE
  /\ \E outcome \in StoreOutcomes : Reconcile(catalog, outcome)
  /\ UNCHANGED <<catalog, rev, custody, lock, session, capture, timers, background, view, export,
                 bounds, history>>

----------------------------------------------------------------------------
\* The forwarder of a session.

Step(l, phase) == session' = [session EXCEPT ![l].phase = phase]
Done(l) == session' = [session EXCEPT ![l] = [NoSession EXCEPT !.phase = "done"]]

\* manager_for_session: a session waits for the custody for some time, and then does
\* without a replay.
StartSession ==
  /\ started < MaxSessions
  /\ started' = started + 1
  /\ LET l == started + 1 IN
     /\ session' = [session EXCEPT ![l] = [NoSession EXCEPT
          !.phase = "live", !.start = "pending", !.replay = (custody = "ready")]]
     /\ capture' = [capture EXCEPT ![l] = [NoCapture EXCEPT !.live = (custody = "ready")]]
  /\ UNCHANGED <<disk, custody, startup, lock, timers, background, view, export, edits, crashes,
                 history>>

PersistStart(l) ==
  /\ session[l].start = "pending" /\ lock = "free"
  /\ \E outcome \in VaultOutcomes :
       /\ Publish([catalog EXCEPT ![l] = [NoLog EXCEPT !.here = TRUE]], {}, outcome)
       /\ session' = [session EXCEPT ![l].start = IF outcome = "ok" THEN "ok" ELSE "failed"]
       /\ confirmed' = IF outcome = "ok" THEN confirmed \cup {l} ELSE confirmed
  /\ UNCHANGED <<index, blobs, custody, startup, lock, capture, timers, background, view, export,
                 bounds, completed, reads>>

Output(l) ==
  /\ session[l].phase = "live" /\ session[l].replay /\ capture[l].chunks < MaxChunks
  /\ capture' = [capture EXCEPT ![l].chunks = @ + 1]
  /\ UNCHANGED <<disk, custody, startup, lock, session, timers, background, view, export, bounds,
                 history>>

SessionEnds(l) ==
  /\ session[l].phase = "live"
  /\ Step(l, "ended")
  /\ UNCHANGED <<disk, custody, startup, lock, capture, timers, background, view, export, bounds,
                 history>>

Discard(l) == capture' = [capture EXCEPT ![l] = NoCapture]

\* The end is written after the start has been.
JoinStart(l) ==
  /\ session[l].phase = "ended" /\ session[l].start # "pending"
  /\ \/ /\ session[l].start = "failed"
        /\ Done(l) /\ Discard(l)
     \/ /\ session[l].start = "ok"
        /\ session' = [session EXCEPT ![l].phase = IF session[l].replay THEN "attempt" ELSE "plain",
                                      ![l].attempt = 1]
        /\ UNCHANGED capture
  /\ UNCHANGED <<disk, custody, startup, lock, timers, background, view, export, bounds, history>>

\* persist_finished_connection_log
FinishPlain(l) ==
  /\ session[l].phase = "plain" /\ lock = "free"
  /\ \E outcome \in VaultOutcomes : Publish(CompleteOpen(l), {}, outcome)
  /\ Done(l)
  /\ UNCHANGED <<index, blobs, custody, startup, lock, capture, timers, background, view, export,
                 bounds, confirmed, completed, reads>>

\* The next attempt, after a delay, or the end.
\* Mutant: after the last attempt the capture stays.
RetryKeeping(l) ==
  IF session[l].attempt < MaxAttempts
  THEN /\ session' = [session EXCEPT ![l].phase = "attempt", ![l].attempt = @ + 1,
                                     ![l].logs = NoLogs]
       /\ UNCHANGED capture
  ELSE Done(l) /\ UNCHANGED capture

Retry(l) ==
  IF session[l].attempt < MaxAttempts
  THEN /\ session' = [session EXCEPT ![l].phase = "attempt", ![l].attempt = @ + 1,
                                     ![l].logs = NoLogs]
       /\ UNCHANGED capture
  ELSE Done(l) /\ Discard(l)

\* One attempt of finalize_connection_log_replay holds the coordinator from here
\* to the end of FinishReconcile; the end of the log is published first.
Attempt(l) ==
  /\ session[l].phase = "attempt" /\ lock = "free"
  /\ \/ /\ ~catalog[l].here
        /\ Done(l) /\ Discard(l)
        /\ UNCHANGED <<catalog, rev, lock, removed>>
     \/ /\ catalog[l].here
        /\ \E outcome \in VaultOutcomes :
             /\ Publish(CompleteOpen(l), {}, outcome)
             /\ IF outcome = "ok"
                THEN /\ lock' = "session"
                     /\ session' = [session EXCEPT ![l].phase = "finish", ![l].logs = catalog']
                     /\ UNCHANGED capture
                ELSE Retry(l) /\ UNCHANGED lock
  /\ UNCHANGED <<index, blobs, custody, startup, timers, background, view, export, bounds,
                 confirmed, completed, reads>>

\* The coordinator is not to be had, or the catalog cannot be read.
AttemptFails(l) ==
  /\ session[l].phase = "attempt" /\ "fail" \in Faults
  /\ Retry(l)
  /\ UNCHANGED <<disk, custody, startup, lock, timers, background, view, export, bounds, history>>

\* finish_session: the log that is written with the replay is the one of the
\* start, which is not bookmarked.  A failed capture is kept for another attempt
\* and for some time.
FinishStore(l) ==
  /\ session[l].phase = "finish"
  /\ \/ /\ ~capture[l].live
        /\ Retry(l) /\ lock' = "free"
        /\ UNCHANGED <<index, blobs, timers>>
     \/ /\ capture[l].live
        /\ \E outcome \in StoreOutcomes :
             /\ Replace(l, FALSE, capture[l].chunks, outcome)
             /\ \/ /\ outcome = "ok"
                   /\ Discard(l) /\ Step(l, "reconcile") /\ UNCHANGED <<lock, timers>>
                \/ /\ outcome # "ok"
                   /\ lock' = "free"
                   /\ LET failures == capture[l].failures + 1
                          over == session[l].attempt >= MaxAttempts IN
                      /\ capture' = [capture EXCEPT ![l] =
                           IF over \/ failures >= MaxFinishFailures THEN NoCapture
                           ELSE [@ EXCEPT !.failures = failures]]
                      /\ timers' = IF failures >= MaxFinishFailures THEN timers
                                   ELSE timers \cup {<<l, failures>>}
                      /\ IF over THEN Done(l)
                         ELSE session' = [session EXCEPT ![l].phase = "attempt",
                                ![l].attempt = @ + 1, ![l].logs = NoLogs]
  /\ UNCHANGED <<catalog, rev, custody, startup, background, view, export, bounds, history>>

FinishReconcile(l) ==
  /\ session[l].phase = "reconcile"
  /\ \E outcome \in StoreOutcomes : Reconcile(session[l].logs, outcome)
  /\ Done(l) /\ lock' = "free"
  /\ completed' = completed \cup {l}
  /\ UNCHANGED <<catalog, rev, custody, startup, capture, timers, background, view, export, bounds,
                 confirmed, removed, reads>>

\* FAILED_CAPTURE_RETENTION is over: the capture goes if it has not failed again.
Timer ==
  \E t \in timers :
    /\ timers' = timers \ {t}
    /\ capture' = [capture EXCEPT ![t[1]] = IF @.failures = t[2] THEN NoCapture ELSE @]
    /\ UNCHANGED <<disk, custody, startup, lock, session, background, view, export, bounds, history>>

----------------------------------------------------------------------------
\* The commands of the renderer.

List ==
  /\ edits < MaxEdits
  /\ lock = "free" /\ view # [rev |-> rev, logs |-> catalog]
  /\ view' = [rev |-> rev, logs |-> catalog]
  /\ UNCHANGED <<disk, custody, startup, lock, session, capture, timers, background, export, bounds,
                 history>>

\* The catalogs the renderer may send: a log removed, or a bookmark changed.
Edited(logs) ==
  {[logs EXCEPT ![l] = NoLog] : l \in Listed(logs)}
    \cup {[logs EXCEPT ![l].saved = ~@] : l \in Listed(logs)}

\* Mutant: the revision the renderer has read is not compared.
ReplaceLogsBlind ==
  /\ "replace" \in Commands /\ edits < MaxEdits /\ edits' = edits + 1
  /\ lock = "free"
  /\ \E logs \in Edited(view.logs), outcome \in VaultOutcomes :
       /\ Publish(logs, Listed(view.logs) \ Listed(logs), outcome)
       /\ lock' = IF outcome = "ok" /\ custody = "ready" THEN "user" ELSE "free"
  /\ UNCHANGED <<index, blobs, custody, startup, session, capture, timers, background, view, export,
                 started, crashes, confirmed, completed, reads>>

\* Mutant: the replays are reconciled in the background.
ReplaceLogsBackground ==
  /\ "replace" \in Commands /\ edits < MaxEdits /\ edits' = edits + 1
  /\ lock = "free" /\ view.rev = rev
  /\ \E logs \in Edited(view.logs), outcome \in VaultOutcomes :
       /\ Publish(logs, Listed(view.logs) \ Listed(logs), outcome)
       /\ background' = IF outcome = "ok" /\ custody = "ready" THEN background \cup {catalog'}
                        ELSE background
  /\ UNCHANGED <<index, blobs, custody, startup, lock, session, capture, timers, view, export,
                 started, crashes, confirmed, completed, reads>>

\* replace_connection_logs: the coordinator is held until the replays are
\* reconciled.
ReplaceLogs ==
  /\ "replace" \in Commands /\ edits < MaxEdits /\ edits' = edits + 1
  /\ lock = "free" /\ view.rev = rev
  /\ \E logs \in Edited(view.logs), outcome \in VaultOutcomes :
       /\ Publish(logs, Listed(view.logs) \ Listed(logs), outcome)
       /\ lock' = IF outcome = "ok" /\ custody = "ready" THEN "user" ELSE "free"
  /\ UNCHANGED <<index, blobs, custody, startup, session, capture, timers, background, view, export,
                 started, crashes, confirmed, completed, reads>>

ReplaceReconcile ==
  /\ lock = "user" /\ lock' = "free"
  /\ \E outcome \in StoreOutcomes : Reconcile(catalog, outcome)
  /\ UNCHANGED <<catalog, rev, custody, startup, session, capture, timers, background, view, export,
                 bounds, history>>

\* clear_unsaved_connection_logs: the replays are reconciled in the background.
ClearLogs ==
  /\ "clear" \in Commands /\ edits < MaxEdits /\ edits' = edits + 1
  /\ lock = "free" /\ view.rev = rev
  /\ \E outcome \in VaultOutcomes :
       /\ Publish([l \in Sessions |-> IF catalog[l].saved THEN catalog[l] ELSE NoLog],
                  {l \in Listed(view.logs) : ~view.logs[l].saved}, outcome)
       /\ background' = IF outcome = "ok" /\ custody = "ready" THEN background \cup {catalog'}
                        ELSE background
  /\ UNCHANGED <<index, blobs, custody, startup, lock, session, capture, timers, view, export,
                 started, crashes, confirmed, completed, reads>>

BackgroundReconcile ==
  \E logs \in background :
    /\ background' = background \ {logs}
    /\ \E outcome \in StoreOutcomes : Reconcile(logs, outcome)
    /\ UNCHANGED <<catalog, rev, custody, startup, lock, session, capture, timers, view, export,
                   bounds, history>>

\* What a read of the store returns: the replay the index names.
Stored(l) == {x.data : x \in {y \in blobs[l] : y.rev = index[l].rev}}

\* read_connection_log_replay, and the second part of an export.
Reads(l) ==
  \E data \in Stored(l) :
    reads' = reads \cup {[log |-> l, data |-> data, listed |-> catalog[l].here]}

ReadReplay(l) ==
  /\ "read" \in Commands
  /\ custody = "ready" /\ lock = "free"
  /\ catalog[l].here
  /\ Reads(l)
  /\ UNCHANGED <<disk, memory, bounds, confirmed, removed, completed>>

\* export_connection_log: the log is authorized before the dialog and again
\* after it.
ExportAsks(l) ==
  /\ "read" \in Commands
  /\ custody = "ready" /\ lock = "free" /\ export = 0
  /\ catalog[l].here
  /\ export' = l
  /\ UNCHANGED <<disk, custody, startup, lock, session, capture, timers, background, view, bounds,
                 history>>

ExportWrites ==
  /\ export # 0 /\ lock = "free"
  /\ export' = 0
  /\ IF catalog[export].here /\ Stored(export) # {} THEN Reads(export) ELSE UNCHANGED reads
  /\ UNCHANGED <<disk, custody, startup, lock, session, capture, timers, background, view, bounds,
                 confirmed, removed, completed>>

----------------------------------------------------------------------------
Crash ==
  /\ crashes < MaxCrashes /\ crashes' = crashes + 1
  /\ custody' = "opening" /\ startup' = TRUE /\ lock' = "free"
  /\ session' = [l \in Sessions |-> IF session[l].phase = "none" THEN NoSession
                                    ELSE [NoSession EXCEPT !.phase = "done"]]
  /\ capture' = [l \in Sessions |-> NoCapture]
  /\ timers' = {} /\ background' = {} /\ export' = 0
  /\ view' = [rev |-> 0, logs |-> NoLogs]
  /\ UNCHANGED <<disk, started, edits, history>>

Forward(l) ==
  \/ PersistStart(l) \/ JoinStart(l) \/ FinishPlain(l)
  \/ Attempt(l) \/ AttemptFails(l) \/ FinishStore(l) \/ FinishReconcile(l)

Next ==
  \/ OpenCustody \/ StartupReconcile \/ StartSession
  \/ \E l \in Sessions : Forward(l) \/ Output(l) \/ SessionEnds(l) \/ ReadReplay(l) \/ ExportAsks(l)
  \/ Timer \/ List \/ ReplaceLogs \/ ReplaceReconcile \/ ClearLogs \/ BackgroundReconcile
  \/ ExportWrites \/ Crash

Spec == Init /\ [][Next]_vars

----------------------------------------------------------------------------
\* The types of the variables; the limits of the catalog and of the replays hold.
TypeOK ==
  /\ \A l \in Sessions :
       /\ catalog[l].here \in BOOLEAN /\ catalog[l].ended \in BOOLEAN /\ catalog[l].saved \in BOOLEAN
       /\ session[l].phase \in {"none", "live", "ended", "plain", "attempt", "finish", "reconcile",
                                "done"}
       /\ session[l].attempt <= MaxAttempts
       /\ capture[l].failures < MaxFinishFailures /\ capture[l].chunks <= MaxChunks
  /\ custody \in {"opening", "ready", "failed"}
  /\ lock \in {"free", "session", "user"}
  /\ Cardinality({l \in Listed(catalog) : ~catalog[l].saved}) <= MaxUnsaved
  /\ Cardinality({l \in InIndex(index) : ~index[l].saved}) <= MaxReplays

\* What the index names is on disk, at whatever point a write failed.
IndexResolvable ==
  \A l \in InIndex(index) : \E x \in blobs[l] : x.rev = index[l].rev

\* A log whose start was confirmed stays in the catalog until the user or the
\* retention removes it: a catalog the renderer read earlier overwrites nothing.
NothingLost ==
  \A l \in confirmed : catalog[l].here \/ l \in removed

\* A log that has ended is never open again.
FinishedStaysFinishedStep ==
  \A l \in Sessions : catalog[l].ended => catalog'[l].ended \/ ~catalog'[l].here

\* The index gains a replay only for a log that is in the catalog: a log deleted
\* while its session was ending gets none.
NoOrphanReplayStep ==
  \A l \in InIndex(index') \ InIndex(index) : catalog[l].here

\* What is read or exported belongs to a log that is in the catalog at that time.
ReadsAuthorised == \A r \in reads : r.listed

\* The replay of a session that was finalized stays as long as its log.
ReplayKept ==
  \A l \in completed : catalog[l].here => index[l].rev # 0

\* What the liveness properties speak of: an ended session and its capture.
Over(l) == session[l].phase = "ended"
Captured(l) == capture[l].live
=============================================================================
