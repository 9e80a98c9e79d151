----------------------------- MODULE MCTransfers ----------------------------
(***************************************************************************)
(* File transfers. Over SFTP: the scheduler of single and directory        *)
(* transfers, the safe upload of one file and the download to a local      *)
(* file. Over a serial line: the session that lends its line, the YMODEM   *)
(* and ZMODEM transfers between two ends, and the publication of a         *)
(* received file. A behaviour is one of one of these, so the run explores  *)
(* one after the other; the safe upload is this module's own variables and *)
(* constants, and rests while another instance runs.                       *)
(***************************************************************************)
EXTENDS SafeUpload, Sequences, FiniteSets, TLC

CONSTANTS f1, f2, t1, t2, c1

VARIABLES
  which,  \* the instance that a behaviour is one of
  \* its variables, in the order of its module
  v1, v2, v3, v4, v5, v6, v7, v8, v9, v10, v11, v12, v13, v14, v15, v16, v17, v18, v19, v20,
  v21, v22

ThePaths == {<<"d", "x">>, <<"e">>}
AllFaults == {"lost", "damaged", "late", "cancel", "io"}

Directory == INSTANCE TransferScheduler WITH
  Singles <- {}, Root <- "root", Files <- <<f1, f2>>, Downloads <- {}, Paths <- ThePaths,
  RootPath <- <<"d">>, Clients <- {c1}, MaxRequests <- 1, Slots <- 1, QueueSize <- 1,
  reserved <- v1, path <- v2, stage <- v3, outcome <- v4, promoted <- v5, workspace <- v6,
  noted <- v7, paused <- v8, cancelled <- v9, session <- v10, worker <- v11, queue <- v12,
  request <- v13, requests <- v14, dir <- v15
Parallel == INSTANCE TransferScheduler WITH
  Singles <- {}, Root <- "root", Files <- <<f1, f2>>, Downloads <- {}, Paths <- ThePaths,
  RootPath <- <<"d">>, Clients <- {c1}, MaxRequests <- 0, Slots <- 2, QueueSize <- 1,
  reserved <- v1, path <- v2, stage <- v3, outcome <- v4, promoted <- v5, workspace <- v6,
  noted <- v7, paused <- v8, cancelled <- v9, session <- v10, worker <- v11, queue <- v12,
  request <- v13, requests <- v14, dir <- v15
TwoSingles == INSTANCE TransferScheduler WITH
  Singles <- {t1, t2}, Root <- "root", Files <- <<>>, Downloads <- {t1, t2},
  Paths <- ThePaths, RootPath <- <<"d">>, Clients <- {c1}, MaxRequests <- 0, Slots <- 2,
  QueueSize <- 1, reserved <- v1, path <- v2, stage <- v3, outcome <- v4, promoted <- v5,
  workspace <- v6, noted <- v7, paused <- v8, cancelled <- v9, session <- v10,
  worker <- v11, queue <- v12, request <- v13, requests <- v14, dir <- v15
Mixed == INSTANCE TransferScheduler WITH
  Singles <- {t1}, Root <- "root", Files <- <<f1>>, Downloads <- {t1, f1, "root"},
  Paths <- ThePaths, RootPath <- <<"d">>, Clients <- {c1}, MaxRequests <- 0, Slots <- 1,
  QueueSize <- 1, reserved <- v1, path <- v2, stage <- v3, outcome <- v4, promoted <- v5,
  workspace <- v6, noted <- v7, paused <- v8, cancelled <- v9, session <- v10,
  worker <- v11, queue <- v12, request <- v13, requests <- v14, dir <- v15

Download == INSTANCE LocalDownload WITH
  Total <- 2, Metas <- {0, 1}, MaxVersions <- 2, MaxRemote <- 1, MaxAttempts <- 3,
  MaxFaults <- 2, target <- v1, staged <- v2, backup <- v3, linked <- v4, owner <- v5,
  dir <- v6, remote <- v7, step <- v8, source <- v9, expected <- v10, outcome <- v11,
  checkpoint <- v12, attempts <- v13, faults <- v14, version <- v15, saved <- v16,
  published <- v17, looks <- v18

Line == INSTANCE SerialSession WITH
  MaxTokens <- 2, MaxReads <- 1, MaxInputs <- 0, EventCapacity <- 3, Reserve <- 2,
  CmdCapacity <- 1, RawCapacity <- 1, Required <- 2, Calls <- {"begin", "claim"},
  actor <- v1, top <- v2, busy <- v3, stop <- v4, ui <- v5, reserved <- v6, detected <- v7,
  cans <- v8, drain <- v9, held <- v10, commands <- v11, driver <- v12, backlog <- v13,
  cancel <- v14, call <- v15, declining <- v16, device <- v17, tokens <- v18, reads <- v19,
  inputs <- v20, excused <- v21, residue <- v22
Detection == INSTANCE SerialSession WITH
  MaxTokens <- 1, MaxReads <- 2, MaxInputs <- 0, EventCapacity <- 4, Reserve <- 2,
  CmdCapacity <- 1, RawCapacity <- 1, Required <- 2, Calls <- {"claim", "decline"},
  actor <- v1, top <- v2, busy <- v3, stop <- v4, ui <- v5, reserved <- v6, detected <- v7,
  cans <- v8, drain <- v9, held <- v10, commands <- v11, driver <- v12, backlog <- v13,
  cancel <- v14, call <- v15, declining <- v16, device <- v17, tokens <- v18, reads <- v19,
  inputs <- v20, excused <- v21, residue <- v22
Input == INSTANCE SerialSession WITH
  MaxTokens <- 1, MaxReads <- 1, MaxInputs <- 1, EventCapacity <- 4, Reserve <- 2,
  CmdCapacity <- 2, RawCapacity <- 1, Required <- 2, Calls <- {"begin", "claim"},
  actor <- v1, top <- v2, busy <- v3, stop <- v4, ui <- v5, reserved <- v6, detected <- v7,
  cans <- v8, drain <- v9, held <- v10, commands <- v11, driver <- v12, backlog <- v13,
  cancel <- v14, call <- v15, declining <- v16, device <- v17, tokens <- v18, reads <- v19,
  inputs <- v20, excused <- v21, residue <- v22

Ymodem == INSTANCE YmodemTransfer WITH
  Chunks <- 4, Modulus <- 4, RetryLimit <- 3, Faults <- AllFaults, MaxFaults <- 4, s <- v1,
  r <- v2, toReceiver <- v3, toSender <- v4, file <- v5, saved <- v6, faults <- v7

Zmodem == INSTANCE ZmodemTransfer WITH
  Sizes <- <<3, 0>>, Escapes <- TRUE, RetryLimit <- 3, MaxRead <- 3, Faults <- AllFaults,
  MaxFaults <- 3, s <- v1, r <- v2, toReceiver <- v3, toSender <- v4, staged <- v5,
  saved <- v6, faults <- v7

Receive == INSTANCE ReceivePublish WITH
  Attempts <- 4, gate <- v1, stop <- v2, job <- v3, attempt <- v4, stage <- v5, names <- v6,
  linked <- v7, event <- v8, won <- v9, outcome <- v10, litter <- v11,
  others <- v12

ASSUME InstancesAreSound ==
  /\ Directory!SchedulerAssumption
  /\ Parallel!SchedulerAssumption
  /\ TwoSingles!SchedulerAssumption
  /\ Mixed!SchedulerAssumption
  /\ BoundsAssumption
  /\ Download!DownloadBoundsAssumption
  /\ Line!SerialSessionAssumption
  /\ Detection!SerialSessionAssumption
  /\ Input!SerialSessionAssumption
  /\ Ymodem!BoundsAssumption
  /\ Zmodem!BoundsAssumption
  /\ Receive!AttemptsAssumption

instanceVars ==
  <<v1, v2, v3, v4, v5, v6, v7, v8, v9, v10, v11, v12, v13, v14, v15, v16, v17, v18, v19, v20,
    v21, v22>>

\* What an instance with fewer variables does not use.
rest18 == <<v19, v20, v21, v22>>
Unused18 ==
  /\ v19 = "" /\ v20 = "" /\ v21 = "" /\ v22 = ""

rest15 == <<v16, v17, v18, rest18>>
Unused15 ==
  /\ v16 = "" /\ v17 = "" /\ v18 = ""
  /\ Unused18

rest12 == <<v13, v14, v15, rest15>>
Unused12 ==
  /\ v13 = "" /\ v14 = "" /\ v15 = ""
  /\ Unused15

rest7 == <<v8, v9, v10, v11, v12, rest12>>
Unused7 ==
  /\ v8 = "" /\ v9 = "" /\ v10 = "" /\ v11 = "" /\ v12 = ""
  /\ Unused12

Unused ==
  /\ v1 = "" /\ v2 = "" /\ v3 = "" /\ v4 = "" /\ v5 = "" /\ v6 = "" /\ v7 = ""
  /\ Unused7

SuiteInit ==
  /\ Init
  /\ \/ which = "directory" /\ Directory!Init /\ Unused15
     \/ which = "parallel" /\ Parallel!Init /\ Unused15
     \/ which = "singles" /\ TwoSingles!Init /\ Unused15
     \/ which = "mixed" /\ Mixed!Init /\ Unused15
     \/ which = "upload" /\ Unused
     \/ which = "download" /\ Download!Init /\ Unused18
     \/ which = "line" /\ Line!Init
     \/ which = "detection" /\ Detection!Init
     \/ which = "input" /\ Input!Init
     \/ which = "ymodem" /\ Ymodem!Init /\ Unused7
     \/ which = "zmodem" /\ Zmodem!Init /\ Unused7
     \/ which = "receive" /\ Receive!Init /\ Unused12
  /\ which = "upload" \/ target = None

\* A step of the instance x.
Moves(x) == which = x /\ UNCHANGED <<which, vars>>

SuiteNext ==
  \/ Moves("directory") /\ Directory!Next /\ UNCHANGED rest15
  \/ Moves("parallel") /\ Parallel!Next /\ UNCHANGED rest15
  \/ Moves("singles") /\ TwoSingles!Next /\ UNCHANGED rest15
  \/ Moves("mixed") /\ Mixed!Next /\ UNCHANGED rest15
  \/ which = "upload" /\ Next /\ UNCHANGED <<which, instanceVars>>
  \/ Moves("download") /\ Download!Next /\ UNCHANGED rest18
  \/ Moves("line") /\ Line!Next
  \/ Moves("detection") /\ Detection!Next
  \/ Moves("input") /\ Input!Next
  \/ Moves("ymodem") /\ Ymodem!Next /\ UNCHANGED rest7
  \/ Moves("zmodem") /\ Zmodem!Next /\ UNCHANGED rest7
  \/ Moves("receive") /\ Receive!Next /\ UNCHANGED rest12

SuiteSpec == SuiteInit /\ [][SuiteNext]_<<which, vars, instanceVars>>

-----------------------------------------------------------------------------
\* What is reported of a transfer is true of the files: a transfer that is
\* reported complete has every file in place and none of its children runs on;
\* and what a later transfer may skip was transferred: the checkpoint of a
\* directory never passes an entry that failed, was cancelled or is in progress.
TransfersTruthful ==
  /\ which = "directory" => Directory!TransfersTruthful
  /\ which = "parallel" => Parallel!TransfersTruthful
  /\ which = "singles" => TwoSingles!TransfersTruthful
  /\ which = "mixed" => Mixed!TransfersTruthful

\* No two running transfers write a file, or a directory and a file below it;
\* slots and queued commands stay within their limits; and a transfer that is
\* gone leaves no workspace that nothing will resume.
WriteExclusive ==
  /\ which = "directory" => Directory!TypeOK
  /\ which = "parallel" => Parallel!TypeOK
  /\ which = "singles" => 
       /\ TwoSingles!TypeOK
       /\ TwoSingles!WriteExclusive
       /\ TwoSingles!NoOrphanWorkspace
  /\ which = "mixed" => 
       /\ Mixed!TypeOK
       /\ Mixed!WriteExclusive
       /\ Mixed!NoOrphanWorkspace

\* A download replaces its local file without losing what another program saved
\* there, publishes a whole file, all of one version of the remote one unless two
\* versions had the same size and time, also when that changes and a part is resumed,
\* and says truly what it leaves on disk.
DownloadSound ==
  which = "download" =>
    /\ Download!TypeOK
    /\ Download!SavedKept
    /\ Download!PublishedWhole
    /\ Download!OutcomeTruthful

\* The line is lent to one transfer at a time and comes back clean: no byte of
\* a transfer reaches the terminal or the next transfer, a finish that is
\* answered has released the line, a detection is claimed by one driver, and
\* the end of the session is the last event it sends.
NoResidue ==
  /\ which = "line" => 
       /\ Line!TypeOK
       /\ Line!Quarantine
       /\ Line!FinishedMeansReleased
       /\ Line!NoResidue
       /\ Line!ClaimIsExclusive
  /\ which = "detection" => 
       /\ Detection!TypeOK
       /\ Detection!Quarantine
       /\ Detection!NoResidue
       /\ Detection!ClaimIsExclusive
  /\ which = "input" => 
       /\ Input!Quarantine
       /\ Input!FinishedMeansReleased
       /\ Input!ClosedIsTold

\* A file that a receiver keeps is the one that was sent, chunk for chunk,
\* whatever the line lost, damaged, repeated or delayed, and while it is
\* received it is a prefix of it; a sender reports success only if the receiver
\* has kept every file; and over a line without faults the transfer succeeds.
TransferIsExact ==
  /\ which = "ymodem" =>
       /\ Ymodem!TypeOK
       /\ Ymodem!FileIsPrefix
       /\ Ymodem!KeptIsExact
       /\ Ymodem!SuccessIsReal
       /\ Ymodem!CleanTransferSucceeds
  /\ which = "zmodem" =>
       /\ Zmodem!TypeOK
       /\ Zmodem!KeptIsExact
       /\ Zmodem!SuccessIsReal
       /\ Zmodem!CleanTransferSucceeds

\* The gate decides between cancel and commit of a received file, once: a committed
\* file is published whole under one name, a cancelled one leaves nothing; what another
\* program put in the place of the partial file is not published, and no name that
\* another program has is replaced or removed.
PublishSound == which = "receive" => Receive!PublishSound

=============================================================================
