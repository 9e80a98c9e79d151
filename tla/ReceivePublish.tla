---------------------------- MODULE ReceivePublish ----------------------------
(***************************************************************************)
(* How a received ZMODEM file gets its name (src-tauri/src/               *)
(* serial_zmodem.rs): a blocking job stages, checks, links and unstages    *)
(* the file while the driver may be asked to cancel, lose its serial       *)
(* session or be dropped.  PublishCancellation decides between the two.    *)
(* The partial file has a random hidden name: what another program puts    *)
(* there in its place is removed with it (serial_zmodem.rs:1354), and the  *)
(* module does not say otherwise.  What others do to a name after the job  *)
(* has linked it is left out.                                              *)
(***************************************************************************)
EXTENDS Naturals, FiniteSets

CONSTANTS
    Attempts    \* destination names that are tried; 10,000 in the code

\* What a model must choose.
AttemptsAssumption == Attempts \in Nat \ {0}

VARIABLES
    gate,       \* PublishCancellation, decided by compare and exchange
    stop,       \* the flag that stops the opening of the partial file
    job,        \* the next step of the job, and its result
    attempt,    \* the name the job tries
    stage,      \* what the partial file's name refers to
    names,      \* what each destination name refers to
    others,     \* the names that other programs took
    linked,     \* the job has linked its name
    event,      \* what interrupts the driver
    won,        \* the answer of request_cancel
    outcome,    \* the driver's result
    litter      \* a removal failed

vars == <<gate, stop, job, attempt, stage, names, others, linked, event, won, outcome, litter>>

Names == 0..Attempts - 1
Interruptions == {"cancel", "overflow", "closed", "dropped"}

Init ==
    /\ gate = "open" /\ stop = FALSE
    /\ job = <<"create", "">> /\ attempt = 0
    /\ stage = "none"
    /\ names \in [Names -> {"none", "other"}]
    /\ others = {n \in Names : names[n] = "other"}
    /\ linked = FALSE
    /\ event = "" /\ won = FALSE
    /\ outcome = "" /\ litter = FALSE

\* The job is at a step, goes on, leaves the rest to its guard, or has ended.
At(step) == job[1] = step
Goto(step) == job' = <<step, "">>
Abandon(result) == job' = <<"drop", result>>
End(result) == job' = <<"ended", result>>

-----------------------------------------------------------------------------
(* The partial file *)

\* PendingReceiveFile::open: the job creates the file and looks at the flag.
Create ==
    /\ At("create")
    /\ \/ stop /\ End("cancelled") /\ UNCHANGED stage
       \/ ~stop /\ stage' = "ours" /\ Goto("created")
       \/ ~stop /\ End("failed") /\ UNCHANGED stage
    /\ UNCHANGED <<gate, stop, attempt, names, linked, event, won, outcome, litter, others>>

\* The flag once more; a stage that nobody wants is removed by its guard.
Created ==
    /\ At("created")
    /\ \/ ~stop /\ Goto("write") /\ UNCHANGED <<stage, litter>>
       \/ stop /\ End("cancelled") /\ stage' = "none" /\ UNCHANGED litter
       \/ stop /\ End("cancelled") /\ litter' = TRUE /\ UNCHANGED stage
    /\ UNCHANGED <<gate, stop, attempt, names, linked, event, won, outcome, others>>

\* The file is written and completed, unless the driver was interrupted: then
\* the guard of the pending file removes it.
Written ==
    /\ At("write")
    /\ \/ event = "" /\ Goto("flush") /\ UNCHANGED <<stage, litter>>
       \/ event # "" /\ End("cancelled") /\ stage' = "none" /\ UNCHANGED litter
       \/ event # "" /\ End("cancelled") /\ litter' = TRUE /\ UNCHANGED stage
    /\ UNCHANGED <<gate, stop, attempt, names, linked, event, won, outcome, others>>

\* publish, before the blocking job: flush and sync.  When that fails, the
\* pending file is dropped; when the future is dropped here, the gate is closed.
Flush ==
    /\ At("flush")
    /\ \/ event # "dropped" /\ Goto("inspect") /\ UNCHANGED <<stage, litter>>
       \/ stage' = "none" /\ End("failed") /\ UNCHANGED litter
       \/ litter' = TRUE /\ End("failed") /\ UNCHANGED stage
    /\ UNCHANGED <<gate, stop, attempt, names, linked, event, won, outcome, others>>

-----------------------------------------------------------------------------
(* The blocking job of publish *)

\* Metadata, sync, and the name of the stage still refers to the open file.
Inspect ==
    /\ At("inspect")
    /\ \/ stage = "ours" /\ Goto("begin")
       \/ Abandon("failed")
    /\ UNCHANGED <<gate, stop, attempt, stage, names, linked, event, won, outcome, litter, others>>

\* begin_commit.
BeginCommit ==
    /\ At("begin")
    /\ \/ attempt = Attempts /\ Abandon("failed") /\ UNCHANGED gate
       \/ attempt < Attempts /\ gate = "open" /\ gate' = "committing" /\ Goto("link")
       \/ attempt < Attempts /\ gate # "open" /\ Abandon("cancelled") /\ UNCHANGED gate
    /\ UNCHANGED <<stop, attempt, stage, names, linked, event, won, outcome, litter, others>>

\* hard_link, which never replaces a name; retry_after_name_conflict.
Link ==
    /\ At("link")
    /\ \/ /\ names[attempt] = "none" /\ stage # "none"
          /\ names' = [names EXCEPT ![attempt] = stage] /\ linked' = TRUE
          /\ Goto("verify")
          /\ UNCHANGED <<gate, attempt>>
       \/ /\ names[attempt] # "none"
          /\ \/ gate = "committing" /\ gate' = "open" /\ attempt' = attempt + 1 /\ Goto("begin")
             \/ /\ gate = "cancelRequested" /\ gate' = "cancelled"
                /\ Abandon("cancelled") /\ UNCHANGED attempt
          /\ UNCHANGED <<names, linked>>
       \/ Abandon("failed") /\ UNCHANGED <<gate, attempt, names, linked>>
    /\ UNCHANGED <<stop, stage, event, won, outcome, litter, others>>

\* The new name refers to the open file.
Verify ==
    /\ At("verify")
    /\ \/ names[attempt] = "ours" /\ Goto("unstage")
       \/ Abandon("failed")
    /\ UNCHANGED <<gate, stop, attempt, stage, names, linked, event, won, outcome, litter, others>>

\* The stage's name is removed and the directory synced.
Unstage ==
    /\ At("unstage")
    /\ \/ stage' = "none" /\ Goto("sync")
       \/ Abandon("failed") /\ UNCHANGED stage
    /\ UNCHANGED <<gate, stop, attempt, names, linked, event, won, outcome, litter, others>>

SyncDirectory ==
    /\ At("sync")
    /\ Goto("finish") \/ Abandon("failed")
    /\ UNCHANGED <<gate, stop, attempt, stage, names, linked, event, won, outcome, litter, others>>

\* Mutant: a commit that was cancelled meanwhile tries again.
FinishCommitOnly ==
    /\ At("finish")
    /\ \/ /\ gate = "committing" /\ gate' = "committed"
          /\ End("published")
          /\ UNCHANGED <<stop, attempt, stage, names, linked, event, won, outcome, litter, others>>
       \/ gate # "committing" /\ UNCHANGED vars

\* finish_commit, or the rollback of what was published and
\* finish_cancelled_commit.
FinishCommit ==
    /\ At("finish")
    /\ \/ /\ gate = "committing" /\ gate' = "committed"
          /\ End("published")
          /\ UNCHANGED <<names, linked>>
       \/ /\ gate # "committing" /\ gate' = "cancelled"
          /\ names' = [names EXCEPT ![attempt] = "none"] /\ linked' = FALSE
          /\ End("cancelled")
       \/ gate # "committing" /\ gate' = "cancelled" /\ Abandon("failed") /\ UNCHANGED <<names, linked>>
    /\ UNCHANGED <<stop, attempt, stage, event, won, outcome, litter, others>>

\* Mutant: the guard knows only of the stage.
DropStageOnly ==
    /\ At("drop") /\ End(job[2])
    /\ stage' = "none"
    /\ UNCHANGED <<gate, stop, attempt, names, linked, event, won, outcome, litter, others>>

\* Mutant: the guard removes the name it tried, whoever's it is.
DropStageAndName ==
    /\ At("drop") /\ End(job[2])
    /\ names' = [n \in Names |-> IF n = attempt THEN "none" ELSE names[n]]
    /\ linked' = FALSE /\ stage' = "none"
    /\ UNCHANGED <<gate, stop, attempt, event, won, outcome, litter, others>>

\* The guard of the job that ends early removes what the job has made, and
\* says nothing of what it cannot remove.
DropStage ==
    /\ At("drop") /\ End(job[2])
    /\ \/ /\ names' = IF linked THEN [names EXCEPT ![attempt] = "none"] ELSE names
          /\ linked' = FALSE /\ stage' = "none"
          /\ UNCHANGED litter
       \/ litter' = TRUE /\ UNCHANGED <<names, linked, stage>>
    /\ UNCHANGED <<gate, stop, attempt, event, won, outcome, others>>

-----------------------------------------------------------------------------
(* The driver *)

Opening == At("create") \/ At("created")
Publishing == ~Opening /\ ~At("write")

\* Mutant: a cancellation during the commit does not reach the job.
RequestCancelOpenOnly ==
    /\ gate' = IF gate = "open" THEN "cancelled" ELSE gate
    /\ won' = (gate # "committed")

\* request_cancel.
RequestCancel ==
    /\ gate' = CASE gate = "open" -> "cancelled"
                 [] gate = "committing" -> "cancelRequested"
                 [] OTHER -> gate
    /\ won' = (gate # "committed")

\* wait_for_native_stage_open, wait_for_native_operation and
\* wait_for_native_publish hear of an interruption, and wait for the job.  A
\* future that is dropped waits for nothing.
Interrupt ==
    /\ outcome = "" /\ event = ""
    /\ event' \in Interruptions
    /\ \/ Opening /\ stop' = TRUE /\ UNCHANGED <<gate, won>>
       \/ ~Opening /\ ~Publishing /\ UNCHANGED <<stop, gate, won>>
       \/ Publishing /\ RequestCancel /\ UNCHANGED stop
    /\ UNCHANGED <<job, attempt, stage, names, linked, outcome, litter, others>>

\* cancellation_won_publish_result and committed_publish_interruption.  A
\* cancellation that lost is kept for the driver's next poll.
Result(result) ==
    CASE event = "" -> result
      [] event = "dropped" -> "gone"
      [] event # "" /\ result = "failed" -> "failed"
      [] event # "" /\ result = "cancelled" -> "cancelled"
      [] event \in {"overflow", "closed"} /\ result = "published" /\ ~won -> "interrupted"
      [] event = "cancel" /\ result = "published" /\ ~won -> "published"
      [] event # "dropped" /\ result = "published" /\ won -> "invalid"

Return ==
    /\ outcome = ""
    /\ At("ended")
    /\ outcome' = Result(job[2])
    /\ UNCHANGED <<gate, stop, job, attempt, stage, names, linked, event, won, litter, others>>

-----------------------------------------------------------------------------
(* Other programs *)

\* A name is taken by somebody else, or the partial file is replaced.
TakeName ==
    /\ outcome = ""
    /\ \E n \in Names :
          /\ names[n] = "none"
          /\ names' = [names EXCEPT ![n] = "other"] /\ others' = others \cup {n}
    /\ UNCHANGED <<gate, stop, job, attempt, stage, linked, event, won, outcome, litter>>

ReplaceStage ==
    /\ outcome = "" /\ stage = "ours"
    /\ stage' \in {"foreign", "none"}
    /\ UNCHANGED <<gate, stop, job, attempt, names, linked, event, won, outcome, litter, others>>

Job ==
    \/ Create \/ Created \/ Written \/ Flush
    \/ Inspect \/ BeginCommit \/ Link \/ Verify \/ Unstage \/ SyncDirectory \/ FinishCommit
    \/ DropStage

Returned == outcome # "" /\ UNCHANGED vars

Next == Job \/ Interrupt \/ Return \/ TakeName \/ ReplaceStage \/ Returned

Spec == Init /\ [][Next]_vars

-----------------------------------------------------------------------------
(* Properties *)

Ours == {n \in Names : names[n] = "ours"}

TypeOK ==
    /\ gate \in {"open", "cancelled", "committing", "cancelRequested", "committed"}
    /\ stop \in BOOLEAN /\ linked \in BOOLEAN /\ won \in BOOLEAN /\ litter \in BOOLEAN
    /\ attempt \in 0..Attempts
    /\ stage \in {"none", "ours", "foreign"}
    /\ others \subseteq Names
    /\ names \in [Names -> {"none", "other", "ours", "foreign"}]
    /\ event \in Interruptions \cup {""}
    /\ outcome \in {"", "published", "failed", "cancelled", "interrupted", "gone", "invalid"}

\* What a user cancelled in time leaves neither a file nor a part of one,
\* unless it could not be removed.
CancelledLeavesNothing ==
    outcome = "cancelled" /\ ~litter => Ours = {} /\ stage # "ours"

\* A file keeps its name only when the commit won.
CommitDecides ==
    outcome # "" /\ ~litter => (Ours # {} <=> gate = "committed")

\* After the commit the file that was received has exactly one name.
CommittedOnce ==
    gate = "committed" => Cardinality(Ours) = 1 /\ stage = "none"

\* A driver that is told that its cancellation won never gets a published file.
NeverBoth == outcome # "invalid"

\* No name ever refers to a file that is not the received one, after the commit.
NothingForeign == gate = "committed" => \A n \in Names : names[n] # "foreign"

\* A name that another program has is neither replaced nor removed, also when the job
\* met it on the way to a free one and then rolls back.
OthersKeepNames == \A n \in others : names[n] = "other"

\* The gate decides, once, between the commit and the cancellation, and nobody else's
\* name is touched.
PublishSound ==
    /\ TypeOK
    /\ CommitDecides
    /\ CommittedOnce
    /\ NeverBoth
    /\ CancelledLeavesNothing
    /\ NothingForeign
    /\ OthersKeepNames

\* The driver has its result.
Answered == outcome # ""
=============================================================================
