----------------------------- MODULE MCLiveness -----------------------------
(***************************************************************************)
(* What must eventually happen. Sessions and transfers: a cancelled or     *)
(* stopped session, forward or transfer ends, and both ends of a file      *)
(* transfer come to an end. Stores and brokers: a pending transaction and  *)
(* a key rotation are recovered, every prompt ends, expired secrets are    *)
(* removed, a captured log is released. A behaviour is one of one of these *)
(* instances, so the run explores one after the other.                     *)
(***************************************************************************)
EXTENDS Naturals, Sequences, FiniteSets, TLC

CONSTANTS NoStart, f1, c1, c2, r1, r2, NoSecret, o1, s1, s2, b1, w1

VARIABLES
  which,  \* the instance that a behaviour is one of
  \* its variables, in the order of its module
  v1, v2, v3, v4, v5, v6, v7, v8, v9, v10, v11, v12, v13, v14, v15, v16, v17, v18, v19, v20,
  v21, v22

AllFaults == {"lost", "damaged", "late", "cancel", "io"}

OneOfEach ==
  "crash" :> 1 @@ "powerLoss" :> 1 @@ "keyring" :> 1 @@ "vaultSync" :> 1 @@ "journal" :> 0
    @@ "damage" :> 0

KnownLists ==
  { <<[host |-> "h", port |-> 0, type |-> "ed", fp |-> "f1"]>> }
LiveKeys == { [type |-> "ed", fp |-> "f1"], [type |-> "unknown", fp |-> "f3"] }

Ssh == INSTANCE SshSession WITH
  Sessions <- {c1, c2}, MaxPerTransport <- 2, QueueSize <- 1, pc <- v1, via <- v2,
  inMap <- v3, known <- v4, cancelled <- v5, queue <- v6, sftp <- v7, events <- v8,
  count <- v9, disconnected <- v10, closes <- v11

Forwarding == INSTANCE PortForward WITH
  None <- NoStart, Starts <- {r1}, Stops <- {c1, c2}, Edits <- {}, revision <- v1,
  config <- v2, lock <- v3, pc <- v4, seen <- v5, used <- v6, entry <- v7, cancelled <- v8,
  failed <- v9, open <- v10, stored <- v11, forward <- v12, task <- v13, ending <- v14,
  watch <- v15, missed <- v16, stop <- v17

Transfer == INSTANCE TransferScheduler WITH
  Singles <- {}, Root <- "root", Files <- <<f1>>, Downloads <- {}, Paths <- {<<"d">>},
  RootPath <- <<"d">>, Clients <- {c1}, MaxRequests <- 1, Slots <- 1, QueueSize <- 1,
  reserved <- v1, path <- v2, stage <- v3, outcome <- v4, promoted <- v5, workspace <- v6,
  noted <- v7, paused <- v8, cancelled <- v9, session <- v10, worker <- v11, queue <- v12,
  request <- v13, requests <- v14, dir <- v15

Serial == INSTANCE SerialSession WITH
  MaxTokens <- 1, MaxReads <- 1, MaxInputs <- 0, EventCapacity <- 4, Reserve <- 2,
  CmdCapacity <- 1, RawCapacity <- 1, Required <- 2, Calls <- {"claim"}, actor <- v1,
  top <- v2, busy <- v3, stop <- v4, ui <- v5, reserved <- v6, detected <- v7, cans <- v8,
  drain <- v9, held <- v10, commands <- v11, driver <- v12, backlog <- v13, cancel <- v14,
  call <- v15, declining <- v16, device <- v17, tokens <- v18, reads <- v19, inputs <- v20,
  excused <- v21, residue <- v22

Telnet == INSTANCE TelnetSession WITH
  Options <- {"SGA"}, Lines <- {"text"}, MaxAsks <- 1, MaxTexts <- 1, MaxInputs <- 1,
  MaxResizes <- 0, MaxFrame <- 2, OutCapacity <- 1, CmdCapacity <- 1, Username <- FALSE,
  Password <- FALSE, Startup <- FALSE, actor <- v1, stop <- v2, listens <- v3,
  commands <- v4, codec <- v5, login <- v6, late <- v7, busy <- v8, toPeer <- v9,
  toUs <- v10, peer <- v11, shown <- v12, read <- v13, wrote <- v14, dropped <- v15,
  asks <- v16, texts <- v17, inputs <- v18

Ymodem == INSTANCE YmodemTransfer WITH
  Chunks <- 2, Modulus <- 4, RetryLimit <- 3, Faults <- AllFaults, MaxFaults <- 2, s <- v1,
  r <- v2, toReceiver <- v3, toSender <- v4, file <- v5, saved <- v6, faults <- v7

Zmodem == INSTANCE ZmodemTransfer WITH
  Sizes <- <<2>>, Escapes <- FALSE, RetryLimit <- 2, MaxRead <- 3, Faults <- AllFaults,
  MaxFaults <- 1, s <- v1, r <- v2, toReceiver <- v3, toSender <- v4, staged <- v5,
  saved <- v6, faults <- v7

Receive == INSTANCE ReceivePublish WITH
  Attempts <- 2, gate <- v1, stop <- v2, job <- v3, attempt <- v4, stage <- v5, names <- v6,
  linked <- v7, event <- v8, won <- v9, outcome <- v10, litter <- v11,
  others <- v12

Transaction == INSTANCE CredentialTransaction WITH
  Owners <- {o1}, Secrets <- {s1, s2}, Kinds <- {"identity", "host"}, MaxGraph <- 1,
  Graphs <- 0..1, Budgets <- {OneOfEach}, Reordered <- FALSE, vault <- v1, vaultRisk <- v2,
  blobs <- v3, target <- v4, backup <- v5, slot <- v6, slotRisk <- v7, handle <- v8,
  pc <- v9, mode <- v10, plan <- v11, previous <- v12, todo <- v13, goal <- v14,
  then <- v15, result <- v16, belongs <- v17, planned <- v18, faults <- v19

Secrets == INSTANCE SecretStore WITH
  Objects <- {b1}, MaxEpoch <- 2, Faults <- {"kill", "sync", "link"}, MaxFaults <- 1,
  seen <- v1, disk <- v2, keyring <- v3, stage <- v4, todo <- v5, proof <- v6, faults <- v7

Prompt == INSTANCE PromptBroker WITH
  Attempts <- {c1}, Windows <- {w1}, Buffer <- 1, Subscribed <- {"hostKey"}, Asks <- {TRUE},
  owner <- v1, stage <- v2, req <- v3, pending <- v4, slot <- v5, verdict <- v6, subs <- v7,
  seen <- v8, alive <- v9, cleanup <- v10, late <- v11, reply <- v12

Staged == INSTANCE StagedSecrets WITH
  Refs <- {r1}, Owners <- {w1}, Callers <- {c1}, Sizes <- {1}, MaxEntries <- 2,
  MaxPerOwner <- 1, MaxBytes <- 3, TTL <- 1, MaxTime <- 2, MaxSecrets <- 2, now <- v1,
  entries <- v2, gen <- v3, timers <- v4, call <- v5, taken <- v6, origin <- v7,
  handed <- v8, purged <- v9

Logs == INSTANCE ConnectionLogs WITH
  MaxSessions <- 1, MaxChunks <- 0, MaxEdits <- 1, MaxCrashes <- 1, MaxUnsaved <- 1,
  MaxReplays <- 1, Commands <- {"replace"}, Faults <- {"fail", "nogc"}, MaxAttempts <- 3,
  MaxFinishFailures <- 3, catalog <- v1, rev <- v2, index <- v3, blobs <- v4, custody <- v5,
  startup <- v6, lock <- v7, session <- v8, capture <- v9, timers <- v10, background <- v11,
  view <- v12, export <- v13, started <- v14, edits <- v15, crashes <- v16,
  confirmed <- v17, removed <- v18, completed <- v19, reads <- v20

ASSUME InstancesAreSound ==
  /\ Ssh!SessionAssumption
  /\ Forwarding!PortForwardAssumption
  /\ Transfer!SchedulerAssumption
  /\ Serial!SerialSessionAssumption
  /\ Telnet!TelnetSessionAssumption
  /\ Telnet!TelnetCodecAssumption
  /\ Ymodem!BoundsAssumption
  /\ Zmodem!BoundsAssumption
  /\ Receive!AttemptsAssumption
  /\ Secrets!BoundsAssumption
  /\ Prompt!PromptAssumption
  /\ Staged!StagedAssumption
  /\ Logs!ConnectionLogsAssumption

vars ==
  <<which, v1, v2, v3, v4, v5, v6, v7, v8, v9, v10, v11, v12, v13, v14, v15, v16, v17, v18,
    v19, v20, v21, v22>>

\* What an instance with fewer variables does not use.
rest20 == <<v21, v22>>
Unused20 ==
  /\ v21 = "" /\ v22 = ""

rest19 == <<v20, rest20>>
Unused19 ==
  /\ v20 = ""
  /\ Unused20

rest18 == <<v19, rest19>>
Unused18 ==
  /\ v19 = ""
  /\ Unused19

rest17 == <<v18, rest18>>
Unused17 ==
  /\ v18 = ""
  /\ Unused18

rest15 == <<v16, v17, rest17>>
Unused15 ==
  /\ v16 = "" /\ v17 = ""
  /\ Unused17

rest12 == <<v13, v14, v15, rest15>>
Unused12 ==
  /\ v13 = "" /\ v14 = "" /\ v15 = ""
  /\ Unused15

rest11 == <<v12, rest12>>
Unused11 ==
  /\ v12 = ""
  /\ Unused12

rest9 == <<v10, v11, rest11>>
Unused9 ==
  /\ v10 = "" /\ v11 = ""
  /\ Unused11

rest7 == <<v8, v9, rest9>>
Unused7 ==
  /\ v8 = "" /\ v9 = ""
  /\ Unused9

Init ==
  \/ which = "ssh" /\ Ssh!Init /\ Unused11
  \/ which = "forward" /\ Forwarding!Init /\ Unused17
  \/ which = "transfer" /\ Transfer!Init /\ Unused15
  \/ which = "serial" /\ Serial!Init
  \/ which = "telnet" /\ Telnet!Init /\ Unused18
  \/ which = "ymodem" /\ Ymodem!Init /\ Unused7
  \/ which = "zmodem" /\ Zmodem!Init /\ Unused7
  \/ which = "receive" /\ Receive!Init /\ Unused12
  \/ which = "transaction" /\ Transaction!Init /\ Unused19
  \/ which = "secrets" /\ Secrets!Init /\ Unused7
  \/ which = "prompt" /\ Prompt!Init /\ Unused12
  \/ which = "staged" /\ Staged!Init /\ Unused9
  \/ which = "logs" /\ Logs!Init /\ Unused20

\* A step of the instance x.
Moves(x) == which = x /\ UNCHANGED which

Next ==
  \/ Moves("ssh") /\ Ssh!Next /\ UNCHANGED rest11
  \/ Moves("forward") /\ Forwarding!Next /\ UNCHANGED rest17
  \/ Moves("transfer") /\ Transfer!Next /\ UNCHANGED rest15
  \/ Moves("serial") /\ Serial!Next
  \/ Moves("telnet") /\ Telnet!Next /\ UNCHANGED rest18
  \/ Moves("ymodem") /\ Ymodem!Next /\ UNCHANGED rest7
  \/ Moves("zmodem") /\ Zmodem!Next /\ UNCHANGED rest7
  \/ Moves("receive") /\ Receive!Next /\ UNCHANGED rest12
  \/ Moves("transaction") /\ Transaction!Next /\ UNCHANGED rest19
  \/ Moves("secrets") /\ Secrets!Next /\ UNCHANGED rest7
  \/ Moves("prompt") /\ Prompt!Next /\ UNCHANGED rest12
  \/ Moves("staged") /\ Staged!Next /\ UNCHANGED rest9
  \/ Moves("logs") /\ Logs!Next /\ UNCHANGED rest20

Spec == Init /\ [][Next]_vars

\* A behaviour is one of one instance, so that one condition on the steps of several
\* instances is a condition on each of them; every instance is as fair as its code is
\* scheduled. Connects, writes and SFTP requests end by their time limits, tasks that can
\* run do run, and a select! that is polled again and again does not for ever pick another
\* branch than the cancellation; the semaphore of the transfers is first come, first
\* served. The serial actor's select is biased towards deadlines and commands, and the
\* telnet actor's towards the stop; the telnet peer keeps reading. A line delivers what it
\* does not lose, timers run, and blocking jobs come to their end. Commands keep arriving,
\* so that an operation is driven to its end and recovery is entered again. A command that
\* holds the store's locks runs on. The executor runs ready futures and timers fire; nobody
\* has to answer a prompt. The log coordinator's lock is fair.
FairSpec ==
  /\ Spec
  /\ WF_vars(\/ Moves("ssh") /\ Ssh!TaskStep(c1) /\ UNCHANGED rest11
             \/ Moves("forward") /\ (Forwarding!StartStep(r1) \/ Forwarding!WatcherStep(r1) \/ Forwarding!TaskCancelled(r1)) /\ UNCHANGED rest17
             \/ Moves("transfer") /\ (Transfer!FileStep(f1) \/ Transfer!RootStep \/ Transfer!Accept \/ Transfer!StopWorker
                                   \/ Transfer!WorkerGone \/ Transfer!SessionRemoved) /\ UNCHANGED rest15
             \/ Moves("serial") /\ (Serial!Opens \/ Serial!OpenFails \/ Serial!LoopTop \/ Serial!Route \/ Serial!Detect)
             \/ Moves("telnet") /\ (Telnet!Connects \/ Telnet!Interrupt \/ Telnet!WriteOn) /\ UNCHANGED rest18
             \/ Moves("ymodem") /\ (Ymodem!SenderReceives \/ Ymodem!SenderTimesOut) /\ UNCHANGED rest7
             \/ Moves("zmodem") /\ (Zmodem!SenderActs \/ Zmodem!SenderReads \/ Zmodem!SenderTimesOut) /\ UNCHANGED rest7
             \/ Moves("receive") /\ Receive!Job /\ UNCHANGED rest12
             \/ Moves("transaction") /\ Transaction!Step /\ UNCHANGED rest19
             \/ Moves("secrets") /\ Secrets!Steps /\ UNCHANGED rest7
             \/ Moves("prompt") /\ \E i \in Prompt!Ids : Prompt!RequestStep(i) /\ UNCHANGED rest12
             \/ Moves("staged") /\ Staged!Tick /\ UNCHANGED rest9
             \/ Moves("logs") /\ Logs!ReplaceReconcile /\ UNCHANGED rest20)
  /\ WF_vars(\/ Moves("ssh") /\ (Ssh!SftpDone(c1) \/ Ssh!InsertReuse(c1) \/ Ssh!DropReuse(c1)) /\ UNCHANGED rest11
             \/ Moves("forward") /\ (\E p \in {c1, c2} : Forwarding!StopStep(p)) /\ UNCHANGED rest17
             \/ Moves("transfer") /\ (Transfer!CollectControls(c1)
                                   \/ \E t \in Transfer!Transfers : Transfer!Reach(c1, t)) /\ UNCHANGED rest15
             \/ Moves("serial") /\ (Serial!WriteCancelled \/ Serial!WriteInterrupted \/ Serial!WriteDone)
             \/ Moves("telnet") /\ Telnet!PeerReads /\ UNCHANGED rest18
             \/ Moves("ymodem") /\ (Ymodem!ReceiverReceives \/ Ymodem!ReceiverTimesOut) /\ UNCHANGED rest7
             \/ Moves("zmodem") /\ (Zmodem!ReceiverActs \/ Zmodem!ReceiverReads \/ Zmodem!ReceiverTimesOut) /\ UNCHANGED rest7
             \/ Moves("receive") /\ Receive!Return /\ UNCHANGED rest12
             \/ Moves("secrets") /\ Secrets!Recover /\ UNCHANGED rest7
             \/ Moves("prompt") /\ Prompt!RejectOwner(w1) /\ UNCHANGED rest12
             \/ Moves("staged") /\ Staged!TimerFires /\ UNCHANGED rest9)
  /\ WF_vars(\/ Moves("transfer") /\ ((Transfer!Refuse(f1) /\ Transfer!SeesStop(f1))
                                   \/ Transfer!SessionSeesCancel) /\ UNCHANGED rest15
             \/ Moves("ymodem") /\ Ymodem!ToTerminal /\ UNCHANGED rest7
             \/ Moves("zmodem") /\ Zmodem!ToTerminal /\ UNCHANGED rest7)
  /\ SF_vars(\/ Moves("ssh") /\ Ssh!SeeCancel(c1) /\ UNCHANGED rest11
             \/ Moves("transfer") /\ Transfer!AcquireSlot(f1) /\ UNCHANGED rest15
             \/ Moves("serial") /\ (Serial!Stops \/ Serial!EventsClosed)
             \/ Moves("logs") /\ Logs!Forward(1) /\ UNCHANGED rest20)
  /\ SF_vars(\/ Moves("serial") /\ (Serial!DrainDeadline \/ Serial!DetectionDeadline \/ Serial!Command))

-----------------------------------------------------------------------------
\* What is told to stop ends, whatever it is in the middle of: a session that
\* is cancelled leaves the map, a forward that is cancelled has its connection
\* closed, a directory transfer that is cancelled frees its destinations, a
\* transfer that finishes with the serial line is answered, a telnet session
\* that is stopped ends (if its peer reads).
StoppedEnds ==
  (\/ which = "ssh" /\ Ssh!Told(c1)
   \/ which = "forward" /\ Forwarding!Told(r1)
   \/ which = "transfer" /\ Transfer!RootTold
   \/ which = "serial" /\ Serial!Finishing(1)
   \/ which = "telnet" /\ Telnet!Told)
  ~> (\/ which = "ssh" /\ Ssh!Absent(c1)
      \/ which = "forward" /\ Forwarding!Unconnected(r1)
      \/ which = "transfer" /\ Transfer!NothingReserved
      \/ which = "serial" /\ ~Serial!Finishing(1)
      \/ which = "telnet" /\ Telnet!Ended)

\* What nobody needs any more is given back: an accepted Close ends its session
\* behind the input queued before it, the watcher of an ended tunnel that
\* subscribed in time closes its connection and its list entry, the end of a
\* session frees the destinations of its transfers (a paused directory
\* excepted), and the bytes of a serial owner that vanished return to the
\* terminal.
HeldIsReleased ==
  (\/ which = "ssh" /\ Ssh!CloseQueued(c1)
   \/ which = "forward" /\ Forwarding!TunnelEnded(r1)
   \/ which = "transfer" /\ Transfer!SessionEnding
   \/ which = "serial" /\ Serial!Vanished(1))
  ~> (\/ which = "ssh" /\ Ssh!Absent(c1)
      \/ which = "forward" /\ Forwarding!Unconnected(r1) /\ Forwarding!Unlisted(r1)
      \/ which = "transfer" /\ (Transfer!NothingReserved \/ Transfer!RootPaused)
      \/ which = "serial" /\ Serial!Unreserved(1))

\* Nothing waits for ever: a transfer that is not paused leaves the map, a
\* detection is claimed, declined or meets its deadline, both ends of a YMODEM
\* or ZMODEM transfer end whatever the line does, and the driver of a received
\* file is answered.
EveryWaitEnds ==
  (\/ which = "transfer" /\ ~Transfer!NothingReserved
   \/ which = "serial" /\ Serial!Undecided(1)
   \/ which = "ymodem" /\ ~Ymodem!BothOver
   \/ which = "zmodem" /\ ~Zmodem!BothOver
   \/ which = "receive" /\ ~Receive!Answered)
  ~> (\/ which = "transfer" /\ (Transfer!NothingReserved \/ Transfer!SomePaused)
      \/ which = "serial" /\ ~Serial!Undecided(1)
      \/ which = "ymodem" /\ Ymodem!BothOver
      \/ which = "zmodem" /\ Zmodem!BothOver
      \/ which = "receive" /\ Receive!Answered)

\* What a crash or a failure leaves half done is finished: a pending
\* transaction is resolved, since every operation runs
\* recover_pending_legacy_import first and each of its arms can be repeated
\* from wherever an earlier attempt stopped, and a key rotation found pending
\* is resumed to its end.
RecoveryEnds ==
  (\/ which = "transaction" /\ ~Transaction!NoTransaction
   \/ which = "secrets" /\ Secrets!Inspection = "pending")
  ~> (\/ which = "transaction" /\ Transaction!NoTransaction
      \/ which = "secrets" /\ Secrets!Inspection # "pending")

\* Nothing sensitive stays in memory because somebody else is silent: a prompt
\* ends when nobody answers it (answered, refused, timed out, or dropped with
\* the connect that made it), a staged secret whose deadline can be reached is
\* removed even if nobody calls the store again, and the output captured of a
\* session that has ended is released.
NothingStays ==
  (\/ which = "prompt" /\ ~Prompt!NothingAsked
   \/ which = "staged" /\ Staged!StagedToExpire(r1)
   \/ which = "logs" /\ Logs!Over(1))
  ~> (\/ which = "prompt" /\ Prompt!NothingAsked
      \/ which = "staged" /\ ~Staged!FirstStaged(r1)
      \/ which = "logs" /\ ~Logs!Captured(1))

=============================================================================
