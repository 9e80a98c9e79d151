---------------------- MODULE CredentialTransactionProofs ----------------------
(***************************************************************************)
(* Theorems about CredentialTransaction, for any accounts, secrets, flows  *)
(* and number of graphs, any budget of faults, and both kinds of directory *)
(* (Reordered or not).  First what a client is told:                       *)
(*                                                                         *)
(*   TransactionsAreTyped  every variable keeps its type;                  *)
(*   ResultsAreTruthful    "ok" and "error" are true of the Vault;         *)
(*   GraphsHaveBlobs       a graph that may be current has its blobs.      *)
(*                                                                         *)
(* Then the saga of a journalled transaction: the keyring accounts agree   *)
(* with the Vault, or what the journal orders will make them agree,        *)
(* whatever fails, crashes, is damaged or lost by the power:               *)
(*                                                                         *)
(*   StoresAlwaysAgree     an empty journal means that the stores agree;   *)
(*   NoSecretIsDestroyed   a secret a current graph refers to is in its    *)
(*                         account or its backup;                          *)
(*   RollbacksAreExact     a rollback restores the before graph's values,  *)
(*                         without power losses;                           *)
(*   RecoveryAlwaysDecides and                                             *)
(*   NoBackupIsOrphaned    on a directory that keeps the order of its      *)
(*                         changes, with no slot file damaged.             *)
(***************************************************************************)
EXTENDS CredentialTransaction, TLAPS

----------------------------------------------------------------------------
(* Types.                                                                  *)

Plan == [kind : {"none", "identity", "host", "import"}, owners : SUBSET Owners,
         value : Accounts, blobs : BOOLEAN, before : Graphs, after : Graphs]

\* The stores and the history.
StoresType ==
  /\ vault \in Graphs /\ vaultRisk \subseteq Graphs /\ blobs \subseteq Graphs
  /\ target \in Accounts /\ backup \in Accounts
  /\ slot \in [Slots -> SlotValues] /\ slotRisk \subseteq [Slots -> SlotValues]
  /\ plan \in Plan
  /\ belongs \in [Graphs -> Accounts] /\ planned \in Graphs
  /\ faults \in [Faults -> Nat]

Steps == {"idle", "recover", "body", "remove", "rename", "sync", "backup", "publishBlobs",
          "activate", "activateAgain", "mutate", "confirm", "mark", "markAgain", "cleanup",
          "removeOlder", "syncOlder", "removeLatest", "syncLatest", "rollback", "recheck"}

Publishing == pc \in {"remove", "rename", "sync"}
Marking == pc \in {"mark", "markAgain"}
Finishing == pc \in {"cleanup", "removeOlder", "syncOlder", "removeLatest", "syncLatest"}

\* The running operation; it holds a journal handle from begin, or from what
\* recovery loaded, to its end.
ControlType ==
  /\ handle \in SlotValues
  /\ pc \in Steps
  /\ mode \in {"start", "forward", "fail", "giveUp", "post"}
  /\ previous \in [Owners -> PreviousStates]
  /\ goal \in Phases
  /\ pc \notin {"idle", "recover", "body", "recheck"} => handle \in Envelope
  /\ pc \in {"backup", "mutate", "cleanup", "rollback"} => todo \subseteq handle.entries
  /\ result \in {"none", "ok", "error", "repair"}

\* Where each kind of operation may be, and what its publications lead to.
Forwards == mode = "forward"

ControlFlow ==
  /\ pc \in {"idle", "body"} => mode = "start"
  /\ pc = "recheck" => mode = "post"
  /\ Forwards => pc \notin {"idle", "recover", "body", "recheck", "rollback"}
  /\ ~Forwards => pc \notin {"backup", "publishBlobs", "activate", "activateAgain", "mutate",
                             "confirm"}
  /\ Forwards /\ Publishing =>
       \/ goal = "Preparing" /\ then = "backup"
       \/ goal = "BlobsDurable" /\ then \in {"markAgain", "activate"}
       \/ goal = "Active" /\ then \in {"activateAgain", "mutate"}
       \/ goal = "VaultDurable" /\ then \in {"markAgain", "cleanup"}
  /\ ~Forwards /\ Publishing => then \in {"markAgain", "cleanup"}
  /\ Forwards /\ Marking => goal \in {"BlobsDurable", "VaultDurable"}
  /\ ~Forwards /\ (Publishing \/ Marking) => goal \in {"RollbackTargetsRestored", "VaultDurable"}
  /\ mode # "start" => plan.kind # "none"
  /\ pc # "idle" => result = "none"

Control == ControlType /\ ControlFlow

CTypeInv == StoresType /\ Control

\* What the two slots say is a slot value, and an envelope that one of them holds
\* unless it says Missing or Corrupt.
LEMMA LoadEnvelopeType ==
  ASSUME NEW r \in [Slots -> SlotValues]
  PROVE  /\ LoadEnvelope(r) \in SlotValues
         /\ LoadEnvelope(r) \in Envelope => \E s \in Slots : LoadEnvelope(r) = r[s]
<1>1. r["A"] \in SlotValues /\ r["B"] \in SlotValues
  BY DEF Slots
<1>2. LoadEnvelope(r) \in {r["A"], r["B"], Missing, Corrupt}
  BY DEF LoadEnvelope
<1>3. Missing \notin Envelope /\ Corrupt \notin Envelope
  BY DEF Missing, Corrupt, Envelope
<1> QED
  BY <1>1, <1>2, <1>3 DEF SlotValues, Slots

\* The slot values by their state.
LEMMA SlotStates ==
  ASSUME NEW e \in SlotValues
  PROVE  /\ e.state = "valid" <=> e \in Envelope
         /\ e \in Envelope \/ e = Missing \/ e = Corrupt
BY DEF SlotValues, Envelope, Missing, Corrupt

----------------------------------------------------------------------------
(* How a step ends.                                                        *)

LEMMA Returns ==
  ASSUME NEW r \in {"none", "ok", "error", "repair"}, Return(r)
  PROVE  Control'
BY DEF Return, Control, ControlType, ControlFlow, Forwards, Publishing, Marking, Steps, Missing,
       SlotValues, NothingRecorded, PreviousStates, Phases

LEMMA Recovers ==
  ASSUME Control, Forwards, plan' = plan, NEW w \in {"fail", "giveUp", "post"}, Recover(w)
  PROVE  Control'
BY DEF Recover, Control, ControlType, ControlFlow, Forwards, Publishing, Marking, Steps, Missing,
       SlotValues, NothingRecorded, PreviousStates, Phases

\* A failure ends the operation or has recovery run; the report "not committed"
\* is left open only where the Vault was not committed.
LEMMA Fails ==
  ASSUME StoresType, Control, NEW c \in BOOLEAN, Fail(c)
  PROVE  \/ Return("repair")
         \/ Forwards /\ c = FALSE /\ Recover("fail")
         \/ Forwards /\ Recover("post")
<1>1. CASE mode # "forward"
  BY <1>1 DEF Fail
<1>2. CASE mode = "forward"
  <2>1. plan.kind \in {"identity", "host", "import"}
    BY <1>2 DEF StoresType, Plan, Control, ControlFlow
  <2>2. CASE plan.kind = "import"
    BY <1>2, <2>2 DEF Fail, Forwards
  <2>3. CASE plan.kind = "host"
    BY <1>2, <2>3 DEF Fail, Forwards
  <2>4. CASE plan.kind = "identity"
    BY <1>2, <2>4 DEF Fail, Forwards
  <2> QED
    BY <2>1, <2>2, <2>3, <2>4
<1> QED
  BY <1>1, <1>2

LEMMA PublicationFails ==
  ASSUME StoresType, Control, Publishing, FailPublication
  PROVE  \/ Return("repair")
         \/ Forwards /\ goal # "VaultDurable" /\ Recover("fail")
         \/ Forwards /\ Recover("post")
         \/ Forwards /\ Recover("giveUp")
<1>1. CASE goal = "Preparing"
  <2>1. Forwards
    BY <1>1 DEF Control, ControlFlow
  <2>2. plan.kind \in {"identity", "host", "import"}
    BY <2>1 DEF StoresType, Plan, Control, ControlFlow, Forwards
  <2>3. FailBegin
    BY <1>1 DEF FailPublication
  <2>4. CASE plan.kind = "import"
    BY <2>3, <2>4 DEF FailBegin
  <2>5. CASE plan.kind = "host"
    BY <2>1, <2>3, <2>5 DEF FailBegin
  <2>6. CASE plan.kind = "identity"
    BY <1>1, <2>1, <2>3, <2>6 DEF FailBegin
  <2> QED
    BY <2>2, <2>4, <2>5, <2>6
<1>2. CASE goal # "Preparing"
  <2>1. Fail(goal = "VaultDurable")
    BY <1>2 DEF FailPublication
  <2> QED
    BY <2>1, Fails
<1> QED
  BY <1>1, <1>2

\* The envelope a publication writes next.
NextEnvelope(h, phase, prev) ==
  [h EXCEPT !.generation = @ + 1, !.phase = phase, !.previous = prev]

LEMMA NextEnvelopeType ==
  ASSUME NEW h \in Envelope, NEW phase \in Phases, NEW prev \in [Owners -> PreviousStates],
         NEW n, n = NextEnvelope(h, phase, prev)
  PROVE  /\ n \in Envelope
         /\ n.generation = h.generation + 1 /\ n.phase = phase /\ n.previous = prev
         /\ n.entries = h.entries /\ n.before = h.before /\ n.after = h.after
         /\ n.blobs = h.blobs /\ n.tx = h.tx /\ n.kind = h.kind
<1>1. h.generation + 1 \in Nat
  BY DEF Envelope
<1> DEFINE next == h.generation + 1
<1> HIDE DEF next
<1>2. n = [h EXCEPT !.generation = next, !.phase = phase, !.previous = prev] /\ next \in Nat
  BY <1>1 DEF next, NextEnvelope
<1>3. n \in Envelope
  BY <1>2 DEF Envelope
<1>4. /\ n.generation = next /\ n.phase = phase /\ n.previous = prev
      /\ n.entries = h.entries /\ n.before = h.before /\ n.after = h.after
      /\ n.blobs = h.blobs /\ n.tx = h.tx /\ n.kind = h.kind
  BY <1>2 DEF Envelope
<1> QED
  BY <1>3, <1>4 DEF next

\* A publication moves the handle to the next generation, or fails.
LEMMA Publishes ==
  ASSUME StoresType, Control, NEW phase \in Phases, NEW prev \in [Owners -> PreviousStates], NEW step,
         handle \in Envelope, goal \in Phases, PublishNext(phase, prev, step)
  PROVE  \/ /\ handle' \in Envelope /\ pc' = "remove" /\ goal' = phase /\ then' = step
            /\ UNCHANGED <<mode, previous, todo, result>>
            /\ LoadEnvelope(slot) = handle
            /\ handle'.generation = handle.generation + 1 /\ handle'.phase = phase
            /\ handle'.previous = prev /\ handle'.entries = handle.entries
            /\ handle'.before = handle.before /\ handle'.after = handle.after
            /\ handle'.blobs = handle.blobs /\ handle'.tx = handle.tx
            /\ handle'.kind = handle.kind
         \/ Fail(goal = "VaultDurable")
<1>1. CASE LoadEnvelope(slot) = handle
  <2>1. handle' = NextEnvelope(handle, phase, prev)
    BY <1>1 DEF PublishNext, NextEnvelope
  <2>2. /\ handle' \in Envelope
        /\ handle'.generation = handle.generation + 1 /\ handle'.phase = phase
        /\ handle'.previous = prev /\ handle'.entries = handle.entries
        /\ handle'.before = handle.before /\ handle'.after = handle.after
        /\ handle'.blobs = handle.blobs /\ handle'.tx = handle.tx
        /\ handle'.kind = handle.kind
    BY <2>1, NextEnvelopeType
  <2> QED
    BY <1>1, <2>2 DEF PublishNext
<1>2. CASE LoadEnvelope(slot) # handle
  BY <1>2 DEF PublishNext
<1> QED
  BY <1>1, <1>2

\* What recovery does, by what the slots say.
RecoveryResumes(e) ==
  \/ /\ UNCHANGED <<vaultVars, faults>>
     /\ \/ e.phase = "Preparing" /\ ResumeLoop(e, "cleanup")
        \/ e.phase \in {"RollbackTargetsRestored", "VaultDurable"} /\ ResumeMark(e, e.phase)
  \/ /\ VaultConfirmed /\ UNCHANGED faults
     /\ \/ e.phase = "BlobsDurable" /\ vault = e.before /\ ResumeLoop(e, "cleanup")
        \/ e.phase = "Active" /\ vault = e.after /\ ResumeMark(e, "VaultDurable")
        \/ e.phase = "Active" /\ vault = e.before /\ ResumeLoop(e, "rollback")

LEMMA RecoveryCases ==
  ASSUME StoresType, RecoverPending
  PROVE  \/ LoadEnvelope(slot) = Missing /\ Recovered /\ UNCHANGED <<vaultVars, faults>>
         \/ /\ Return("repair")
            /\ \/ UNCHANGED vaultVars /\ (UNCHANGED faults \/ Fault("vaultSync"))
               \/ VaultConfirmed /\ UNCHANGED faults
         \/ LoadEnvelope(slot) \in Envelope /\ RecoveryResumes(LoadEnvelope(slot))
<1> DEFINE e == LoadEnvelope(slot)
<1>1. e \in SlotValues
  BY LoadEnvelopeType DEF StoresType
<1>2. CASE e = Missing
  <2>1. e # Corrupt /\ e.state # "valid"
    BY <1>2 DEF Missing, Corrupt
  <2> HIDE DEF e
  <2> QED
    BY <1>2, <2>1 DEF RecoverPending, e
<1>3. CASE e = Corrupt
  <2>1. e # Missing /\ e.state # "valid"
    BY <1>3 DEF Missing, Corrupt
  <2> HIDE DEF e
  <2> QED
    BY <1>3, <2>1 DEF RecoverPending, e
<1>4. CASE e \in Envelope
  <2>1. e # Missing /\ e # Corrupt /\ e.state = "valid" /\ e.phase \in Phases
    BY <1>4 DEF Missing, Corrupt, Envelope
  <2> HIDE DEF e
  <2>2. CASE e.phase = "Preparing"
    BY <1>4, <2>1, <2>2 DEF RecoverPending, RecoveryResumes, e
  <2>3. CASE e.phase \in {"RollbackTargetsRestored", "VaultDurable"}
    BY <1>4, <2>1, <2>3 DEF RecoverPending, RecoveryResumes, e
  <2>4. CASE e.phase = "BlobsDurable"
    <3>1. \/ /\ VaultConfirmed /\ UNCHANGED faults
             /\ IF vault = e.before THEN ResumeLoop(e, "cleanup") ELSE Return("repair")
          \/ Fault("vaultSync") /\ Return("repair") /\ UNCHANGED vaultVars
      BY <2>1, <2>4 DEF RecoverPending, e
    <3> QED
      BY <1>4, <2>4, <3>1 DEF RecoveryResumes, e
  <2>5. CASE e.phase = "Active"
    <3>1. \/ VaultConfirmed /\ UNCHANGED faults /\ DecideActive(e)
          \/ Fault("vaultSync") /\ Return("repair") /\ UNCHANGED vaultVars
      BY <2>1, <2>5 DEF RecoverPending, e
    <3>2. DecideActive(e) => \/ Return("repair")
                             \/ vault = e.after /\ ResumeMark(e, "VaultDurable")
                             \/ vault = e.before /\ ResumeLoop(e, "rollback")
      BY DEF DecideActive
    <3> QED
      BY <1>4, <2>5, <3>1, <3>2 DEF RecoveryResumes, e
  <2> QED
    BY <2>1, <2>2, <2>3, <2>4, <2>5 DEF Phases
<1> QED
  BY <1>1, <1>2, <1>3, <1>4 DEF SlotValues

----------------------------------------------------------------------------
(* Every step keeps the stores typed.                                      *)

LEMMA SlotForType ==
  ASSUME NEW n
  PROVE  SlotFor(n) \in Slots /\ OtherSlot(SlotFor(n)) \in Slots
BY DEF SlotFor, OtherSlot, Slots

LEMMA SetSlotType ==
  ASSUME slot \in [Slots -> SlotValues], slotRisk \subseteq [Slots -> SlotValues],
         NEW s \in Slots, NEW v \in SlotValues, SetSlot(s, v)
  PROVE  slot' \in [Slots -> SlotValues] /\ slotRisk' \subseteq [Slots -> SlotValues]
<1>1. slot' = [slot EXCEPT ![s] = v] /\ slot' \in [Slots -> SlotValues]
  BY DEF SetSlot
<1>2. {[r EXCEPT ![s] = v] : r \in slotRisk} \subseteq [Slots -> SlotValues]
  OBVIOUS
<1>3. slotRisk' \subseteq slotRisk \cup {slot'} \cup {[r EXCEPT ![s] = v] : r \in slotRisk}
  BY DEF SetSlot
<1> QED
  BY <1>1, <1>2, <1>3

LEMMA FaultType ==
  ASSUME faults \in [Faults -> Nat], NEW f \in Faults, Fault(f)
  PROVE  faults' \in [Faults -> Nat]
BY DEF Fault

\* A step that only moves the operation and may count a fault.
LEMMA StoresKept ==
  ASSUME StoresType, UNCHANGED <<vault, vaultRisk, blobs, target, backup, slot, slotRisk,
                                 plan, belongs, planned>>,
         faults' = faults \/ \E f \in Faults : Fault(f)
  PROVE  StoresType'
<1>1. faults' \in [Faults -> Nat]
  BY FaultType DEF StoresType
<1> QED
  BY <1>1 DEF StoresType

\* The accounts a after a change of o's to x.
With(a, o, x) == [a EXCEPT ![o] = x]

LEMMA AccountType ==
  ASSUME NEW a \in Accounts, NEW o \in Owners
  PROVE  /\ a[o] \in Secrets \cup {NoSecret}
         /\ \A x \in Secrets \cup {NoSecret} : With(a, o, x) \in Accounts
BY DEF Accounts, With

LEMMA StoresNext == CTypeInv /\ [Next]_vars => StoresType'
<1> SUFFICES ASSUME StoresType, Control, [Next]_vars PROVE StoresType'
  BY DEF CTypeInv
<1>f. {"crash", "powerLoss", "keyring", "vaultSync", "journal", "damage"} \subseteq Faults
  BY DEF Faults
<1>c. handle \in SlotValues /\ (pc \notin {"idle", "recover", "body", "recheck"} => handle \in Envelope)
  BY DEF Control, ControlType
<1>m. Missing \in SlotValues /\ Corrupt \in SlotValues
  BY DEF SlotValues
<1>a. EmptyAccounts \in Accounts
  BY DEF EmptyAccounts, Accounts
<1>1. CASE UNCHANGED vars
  BY <1>1 DEF vars, StoresType
<1>2. CASE StartOperation
  <2>1. NoPlan \in Plan
    BY <1>a, GraphsAssumption DEF NoPlan, Plan
  <2> QED
    BY <1>2, <2>1 DEF StartOperation, StoresType, vaultVars, keyring, journal, history
<1>3. CASE \/ OperationOnly \/ BackedUp \/ Activate \/ Mark \/ CleanedUp \/ RolledBack \/ Crash
  <2>1. UNCHANGED <<vaultVars, keyring, journal, plan, history>>
    BY <1>3 DEF OperationOnly, BackedUp, Activate, Mark, CleanedUp, RolledBack, Crash
  <2>2. faults' = faults \/ \E f \in Faults : Fault(f)
    BY <1>3, <1>f DEF OperationOnly, BackedUp, Activate, Mark, CleanedUp, RolledBack, Crash
  <2> QED
    BY <2>1, <2>2, StoresKept DEF vaultVars, keyring, journal, history
<1>4. CASE RemoveOldSlot \/ RenameTemp \/ SyncSlot \/ RemoveSlot \/ SyncRemoval
  <2>1. UNCHANGED <<vaultVars, keyring, plan, history>>
    BY <1>4 DEF RemoveOldSlot, RenameTemp, SyncSlot, RemoveSlot, SyncRemoval
  <2>2. faults' = faults \/ \E f \in Faults : Fault(f)
    BY <1>4, <1>f DEF RemoveOldSlot, RenameTemp, SyncSlot, RemoveSlot, SyncRemoval, FailedPublication
  <2>3. \/ UNCHANGED journal
        \/ SyncJournal
        \/ \E s \in Slots, v \in {Missing, handle} : SetSlot(s, v)
    <3>1. CASE RemoveOldSlot \/ RenameTemp
      BY <3>1, SlotForType DEF RemoveOldSlot, RenameTemp, FailedPublication
    <3>2. CASE SyncSlot \/ SyncRemoval
      BY <3>2 DEF SyncSlot, SyncRemoval, FailedPublication
    <3>3. CASE RemoveSlot
      BY <3>3, SlotForType DEF RemoveSlot
    <3> QED
      BY <1>4, <3>1, <3>2, <3>3
  <2>4. slot' \in [Slots -> SlotValues] /\ slotRisk' \subseteq [Slots -> SlotValues]
    <3>1. CASE UNCHANGED journal \/ SyncJournal
      BY <3>1 DEF journal, SyncJournal, StoresType
    <3>2. CASE \E s \in Slots, v \in {Missing, handle} : SetSlot(s, v)
      <4>1. PICK s \in Slots, v \in {Missing, handle} : SetSlot(s, v)
        BY <3>2
      <4> QED
        BY <1>c, <1>m, <4>1, SetSlotType DEF StoresType
    <3> QED
      BY <2>3, <3>1, <3>2
  <2>5. faults' \in [Faults -> Nat]
    BY <2>2, FaultType DEF StoresType
  <2> QED
    BY <2>1, <2>4, <2>5 DEF StoresType, vaultVars, keyring, history
<1>5. ASSUME NEW o \in Owners, BackUp(o) \/ Mutate(o) \/ CleanUp(o) \/ RollBack(o)
      PROVE  StoresType'
  <2>1. UNCHANGED <<vaultVars, journal, plan, history>>
    BY <1>5 DEF BackUp, Mutate, CleanUp, RollBack
  <2>2. faults' = faults \/ \E f \in Faults : Fault(f)
    BY <1>5, <1>f DEF BackUp, Mutate, CleanUp, RollBack
  <2>3. /\ target \in Accounts /\ backup \in Accounts /\ plan.value \in Accounts
        /\ NoSecret \in Secrets \cup {NoSecret}
    BY DEF StoresType, Plan
  <2>4. target' \in Accounts /\ backup' \in Accounts
    <3>0. /\ target[o] \in Secrets \cup {NoSecret} /\ backup[o] \in Secrets \cup {NoSecret}
          /\ plan.value[o] \in Secrets \cup {NoSecret}
      BY <2>3, AccountType
    <3>1. CASE BackUp(o)
      <4>1. target' = target /\ backup' \in {backup, With(backup, o, target[o])}
        BY <3>1 DEF BackUp, With
      <4> QED
        BY <2>3, <3>0, <4>1, AccountType
    <3>2. CASE Mutate(o)
      <4>1. backup' = backup /\ target' \in {target, With(target, o, plan.value[o])}
        BY <3>2 DEF Mutate, With
      <4> QED
        BY <2>3, <3>0, <4>1, AccountType
    <3>3. CASE CleanUp(o)
      <4>1. target' = target /\ backup' \in {backup, With(backup, o, NoSecret)}
        BY <3>3 DEF CleanUp, With
      <4> QED
        BY <2>3, <4>1, AccountType
    <3>4. CASE RollBack(o)
      <4>1. backup' = backup
            /\ target' \in {target, With(target, o, NoSecret), With(target, o, backup[o])}
        BY <3>4 DEF RollBack, With
      <4> QED
        BY <2>3, <3>0, <4>1, AccountType
    <3> QED
      BY <1>5, <3>1, <3>2, <3>3, <3>4
  <2>5. faults' \in [Faults -> Nat]
    BY <2>2, FaultType DEF StoresType
  <2> QED
    BY <2>1, <2>4, <2>5 DEF StoresType, vaultVars, journal, history
<1>6. CASE PublishBlobs \/ CommitVault \/ ConfirmCommit \/ Recheck \/ RecoverPending
  <2>1. UNCHANGED <<keyring, journal, plan, history>>
    BY <1>6 DEF PublishBlobs, CommitVault, ConfirmCommit, Recheck, RecoverPending
  <2>2. faults' \in [Faults -> Nat]
    <3>1. faults' = faults \/ Fault("vaultSync")
      <4>1. CASE PublishBlobs \/ CommitVault \/ ConfirmCommit \/ Recheck
        BY <4>1 DEF PublishBlobs, CommitVault, VaultPublished, ConfirmCommit, Recheck
      <4>2. CASE RecoverPending
        BY <4>2, RecoveryCases DEF RecoveryResumes
      <4> QED
        BY <1>6, <4>1, <4>2
    <3> QED
      BY <1>f, <3>1, FaultType DEF StoresType
  <2>3. vault' \in Graphs /\ vaultRisk' \subseteq Graphs /\ blobs' \subseteq Graphs
    <3>1. plan.after \in Graphs /\ vault \in Graphs /\ vaultRisk \subseteq Graphs /\ blobs \subseteq Graphs
      BY DEF StoresType, Plan
    <3>2. CASE PublishBlobs
      BY <3>1, <3>2 DEF PublishBlobs
    <3>3. CASE CommitVault
      BY <3>1, <3>3 DEF CommitVault, VaultPublished, vaultVars
    <3>4. CASE ConfirmCommit \/ Recheck \/ RecoverPending
      <4>1. UNCHANGED vaultVars \/ VaultConfirmed
        <5>1. CASE ConfirmCommit \/ Recheck
          BY <5>1 DEF ConfirmCommit, Recheck
        <5>2. CASE RecoverPending
          BY <5>2, RecoveryCases DEF RecoveryResumes
        <5> QED
          BY <3>4, <5>1, <5>2
      <4> QED
        BY <3>1, <4>1 DEF vaultVars, VaultConfirmed
    <3> QED
      BY <1>6, <3>2, <3>3, <3>4
  <2> QED
    BY <2>1, <2>2, <2>3 DEF StoresType, keyring, journal, history
<1>7. CASE PlainCommit
  <2>1. planned + 1 \in Graphs /\ belongs[vault] \in Accounts
    BY <1>7, GraphsAssumption DEF PlainCommit, StoresType
  <2>2. /\ planned' = planned + 1 /\ belongs' = [belongs EXCEPT ![planned + 1] = belongs[vault]]
        /\ blobs' = blobs \cup {planned + 1} /\ vault' = planned + 1
        /\ vaultRisk' \subseteq vaultRisk \cup {planned + 1}
        /\ UNCHANGED <<keyring, journal, plan>>
        /\ faults' = faults \/ \E f \in Faults : Fault(f)
    BY <1>7, <1>f DEF PlainCommit
  <2>3. faults' \in [Faults -> Nat]
    BY <2>2, FaultType DEF StoresType
  <2> QED
    BY <2>1, <2>2, <2>3 DEF StoresType, keyring, journal
<1>8. ASSUME NEW kind \in Kinds, NEW owners \in SUBSET Owners, NEW needs \in BOOLEAN,
             NEW value \in Accounts, Begin(kind, owners, value, needs)
      PROVE  StoresType'
  <2>1. planned + 1 \in Graphs /\ belongs[vault] \in Accounts
    BY <1>8, GraphsAssumption DEF Begin, StoresType
  <2>2. [o \in Owners |-> IF o \in owners THEN value[o] ELSE belongs[vault][o]] \in Accounts
    BY <2>1 DEF Accounts
  <2>3. belongs' \in [Graphs -> Accounts] /\ planned' \in Graphs
    BY <1>8, <2>1, <2>2 DEF Begin, StoresType
  <2>4. vault' \in Graphs /\ vaultRisk' \subseteq Graphs /\ blobs' \subseteq Graphs
    BY <1>8, <2>1 DEF Begin, PlanningBase, StoresType
  <2>5. plan' \in Plan
    BY <1>8, <2>1, KindsAssumption DEF Begin, Plan, StoresType
  <2> QED
    BY <1>8, <2>3, <2>4, <2>5 DEF Begin, StoresType, keyring, journal
<1>9. CASE PowerLoss
  <2>1. faults' \in [Faults -> Nat]
    BY <1>9, <1>f, FaultType DEF PowerLoss, StoresType
  <2> QED
    BY <1>9, <2>1 DEF PowerLoss, StoresType, keyring, history
<1>10. ASSUME NEW s \in Slots, DamageSlot(s)
       PROVE  StoresType'
  <2>1. faults' \in [Faults -> Nat]
    BY <1>10, <1>f, FaultType DEF DamageSlot, StoresType
  <2>2. slot' \in [Slots -> SlotValues]
    BY <1>10, <1>m DEF DamageSlot, StoresType
  <2>3. slotRisk' \subseteq [Slots -> SlotValues]
    <3>1. \A r \in slotRisk : [r EXCEPT ![s] = IF @ = slot[s] THEN Corrupt ELSE @] \in [Slots -> SlotValues]
      BY <1>m DEF StoresType
    <3> QED
      BY <1>10, <3>1 DEF DamageSlot
  <2> QED
    BY <1>10, <2>1, <2>2, <2>3 DEF DamageSlot, StoresType, vaultVars, keyring, history
<1> QED
  BY <1>1, <1>2, <1>3, <1>4, <1>5, <1>6, <1>7, <1>8, <1>9, <1>10 DEF Next, Forward, Step

----------------------------------------------------------------------------
(* Every step keeps the operation on its course.                           *)

\* A failed step of the forward path, or of recovery.
LEMMA FailureKeepsControl ==
  ASSUME StoresType, Control, plan' = plan, NEW c \in BOOLEAN, Fail(c)
  PROVE  Control'
BY Fails, Returns, Recovers

LEMMA FailedPublicationKeepsControl ==
  ASSUME StoresType, Control, Publishing, plan' = plan, FailPublication
  PROVE  Control'
BY PublicationFails, Returns, Recovers

LEMMA RecoveredKeepsControl ==
  ASSUME Control, plan' = plan, Recovered, ~Forwards, pc \in {"recover", "syncLatest"}
  PROVE  Control'
<1>1. mode \in {"start", "fail", "giveUp", "post"} /\ result = "none"
  BY DEF Control, ControlType, ControlFlow, Forwards
<1>2. CASE mode = "start"
  BY <1>1, <1>2 DEF Recovered, Goto, Control, ControlType, ControlFlow, Forwards, Publishing,
                    Marking, Steps
<1>3. CASE mode = "fail"
  BY <1>3, Returns DEF Recovered
<1>4. CASE mode = "giveUp"
  BY <1>4, Returns DEF Recovered
<1>5. CASE mode = "post"
  BY <1>1, <1>5 DEF Recovered, Goto, Control, ControlType, ControlFlow, Forwards, Publishing,
                    Marking, Steps
<1> QED
  BY <1>1, <1>2, <1>3, <1>4, <1>5

\* A new publication, towards a step that its phase allows.
LEMMA PublicationKeepsControl ==
  ASSUME StoresType, Control, plan' = plan, handle \in Envelope, pc # "idle",
         NEW phase \in Phases, NEW prev \in [Owners -> PreviousStates], NEW step,
         PublishNext(phase, prev, step),
         Forwards => \/ phase = "BlobsDurable" /\ step \in {"markAgain", "activate"}
                     \/ phase = "Active" /\ step \in {"activateAgain", "mutate"}
                     \/ phase = "VaultDurable" /\ step \in {"markAgain", "cleanup"},
         ~Forwards => /\ phase \in {"RollbackTargetsRestored", "VaultDurable"}
                      /\ step \in {"markAgain", "cleanup"}
  PROVE  Control'
<1>1. CASE Fail(goal = "VaultDurable")
  BY <1>1, FailureKeepsControl
<1>2. CASE handle' \in Envelope /\ pc' = "remove" /\ goal' = phase /\ then' = step
           /\ UNCHANGED <<mode, previous, todo, result>>
  BY <1>2 DEF Control, ControlType, ControlFlow, Forwards, Publishing, Marking, Steps, SlotValues
<1> QED
  BY <1>1, <1>2, Publishes DEF Control, ControlType

LEMMA ControlNext == CTypeInv /\ [Next]_vars => Control'
<1> SUFFICES ASSUME StoresType, Control, [Next]_vars PROVE Control'
  BY DEF CTypeInv
<1> USE DEF Forwards, Publishing, Marking, Steps
<1>c. /\ handle \in SlotValues /\ handle.state \in {"valid", "missing", "corrupt"}
      /\ pc \notin {"idle", "recover", "body", "recheck"} => handle \in Envelope
  BY DEF Control, ControlType, SlotValues, Envelope, Missing, Corrupt
<1>l. LoadEnvelope(slot) \in SlotValues
  BY LoadEnvelopeType DEF StoresType
<1>1. CASE UNCHANGED vars
  BY <1>1 DEF vars, Control, ControlType, ControlFlow
<1>2. CASE StartOperation
  BY <1>2 DEF StartOperation, Control, ControlType, ControlFlow
<1>3. CASE OperationOnly \/ Crash \/ PlainCommit
  BY <1>3, Returns DEF OperationOnly, Crash, PlainCommit
<1>4. CASE PowerLoss
  BY <1>4, Returns DEF PowerLoss, Control, ControlType
<1>5. ASSUME NEW s \in Slots, DamageSlot(s) PROVE Control'
  BY <1>5 DEF DamageSlot, control, Control, ControlType, ControlFlow
<1>6. ASSUME NEW kind \in Kinds, NEW owners \in SUBSET Owners, NEW needs \in BOOLEAN,
             NEW value \in Accounts, Begin(kind, owners, value, needs)
      PROVE  Control'
  <2>1. handle' \in Envelope
    BY <1>6, KindsAssumption, GraphsAssumption
       DEF Begin, Envelope, StoresType, Phases, NothingRecorded, PreviousStates
  <2>2. /\ mode' = "forward" /\ pc' = "remove" /\ goal' = "Preparing" /\ then' = "backup"
        /\ previous' = NothingRecorded /\ result' = result /\ pc = "body"
        /\ plan'.kind \in {"identity", "host", "import"}
    BY <1>6, KindsAssumption DEF Begin
  <2> QED
    BY <2>1, <2>2 DEF Control, ControlType, ControlFlow, SlotValues, Phases, NothingRecorded,
                      PreviousStates
<1>7. CASE RemoveOldSlot \/ RenameTemp
  <2>1. CASE FailedPublication
    BY <1>7, <2>1, FailedPublicationKeepsControl DEF RemoveOldSlot, RenameTemp, FailedPublication
  <2>2. CASE Goto("rename") \/ Goto("sync")
    BY <1>7, <2>2 DEF RemoveOldSlot, RenameTemp, Goto, Control, ControlType, ControlFlow
  <2> QED
    BY <1>7, <2>1, <2>2 DEF RemoveOldSlot, RenameTemp
<1>8. CASE SyncSlot
  <2>1. pc = "sync" /\ plan' = plan /\ handle \in Envelope
    BY <1>8, <1>c DEF SyncSlot
  <2>2. CASE FailPublication
    BY <2>1, <2>2, FailedPublicationKeepsControl
  <2>3. CASE then \in {"backup", "mutate", "cleanup"} /\ Loop(then, handle.entries)
    BY <2>1, <2>3 DEF Loop, Control, ControlType, ControlFlow
  <2>4. CASE then \notin {"backup", "mutate", "cleanup"} /\ Goto(then)
    BY <2>1, <2>4 DEF Goto, Control, ControlType, ControlFlow
  <2> QED
    BY <1>8, <2>2, <2>3, <2>4 DEF SyncSlot, FailedPublication
<1>9. ASSUME NEW o \in Owners, BackUp(o) \/ Mutate(o) \/ CleanUp(o)
      PROVE  Control'
  <2>1. plan' = plan /\ pc \in {"backup", "mutate", "cleanup"}
    BY <1>9 DEF BackUp, Mutate, CleanUp
  <2>2. CASE \E c \in BOOLEAN : Fail(c)
    BY <2>1, <2>2, FailureKeepsControl
  <2>3. CASE /\ todo' = todo \ {o} /\ UNCHANGED <<handle, pc, mode, goal, then, result>>
             /\ previous' \in [Owners -> PreviousStates]
    BY <2>1, <2>3 DEF Control, ControlType, ControlFlow
  <2>4. \A b \in BOOLEAN : [previous EXCEPT ![o] = IF b THEN "Absent" ELSE "BackedUp"]
                              \in [Owners -> PreviousStates]
    BY DEF Control, ControlType, PreviousStates
  <2>5. CASE BackUp(o)
    BY <2>2, <2>3, <2>4, <2>5 DEF BackUp
  <2>6. CASE Mutate(o) \/ CleanUp(o)
    BY <2>2, <2>3, <2>6 DEF Mutate, CleanUp, Control, ControlType
  <2> QED
    BY <1>9, <2>5, <2>6
<1>10. CASE BackedUp
  BY <1>10 DEF BackedUp, Goto, Control, ControlType, ControlFlow
<1>11. CASE PublishBlobs \/ CommitVault \/ ConfirmCommit
  <2>1. CASE \E c \in BOOLEAN : Fail(c)
    BY <1>11, <2>1, FailureKeepsControl DEF PublishBlobs, CommitVault, ConfirmCommit
  <2>2. CASE /\ pc = "publishBlobs" /\ pc' = "mark" /\ goal' = "BlobsDurable"
             /\ UNCHANGED <<handle, mode, previous, todo, then, result, plan>>
    BY <2>2 DEF Control, ControlType, ControlFlow, Phases
  <2>3. CASE pc = "mutate" /\ Goto("confirm") /\ plan' = plan
    BY <2>3 DEF Goto, Control, ControlType, ControlFlow
  <2>4. CASE /\ pc = "confirm" /\ pc' = "mark" /\ goal' = "VaultDurable"
             /\ UNCHANGED <<handle, mode, previous, todo, then, result, plan>>
    BY <2>4 DEF Control, ControlType, ControlFlow, Phases
  <2> QED
    BY <1>11, <2>1, <2>2, <2>3, <2>4 DEF PublishBlobs, CommitVault, ConfirmCommit
<1>12. CASE Activate
  <2>1. /\ plan' = plan /\ pc \in {"activate", "activateAgain"} /\ handle \in Envelope
        /\ Forwards /\ previous \in [Owners -> PreviousStates]
    BY <1>12, <1>c DEF Activate, Control, ControlType, ControlFlow
  <2>2. \/ Fail(FALSE)
        \/ PublishNext("Active", previous, "activateAgain")
        \/ PublishNext("Active", previous, "mutate")
    BY <1>12 DEF Activate
  <2> QED
    BY <2>1, <2>2, FailureKeepsControl, PublicationKeepsControl DEF Phases
<1>13. CASE Mark
  <2>1. /\ plan' = plan /\ pc \in {"mark", "markAgain"} /\ handle \in Envelope
        /\ goal \in Phases /\ handle.previous \in [Owners -> PreviousStates]
    BY <1>13, <1>c DEF Mark, Control, ControlType, Envelope
  <2>2. CASE Fail(goal = "VaultDurable")
    BY <2>1, <2>2, FailureKeepsControl
  <2>3. CASE Marked
    BY <2>1, <2>3 DEF Marked, Goto, Loop, Control, ControlType, ControlFlow
  <2>4. CASE \/ PublishNext(goal, handle.previous, "markAgain")
             \/ PublishNext(goal, handle.previous, AfterMark)
    <3>1. /\ Forwards => goal \in {"BlobsDurable", "VaultDurable"}
          /\ ~Forwards => goal \in {"RollbackTargetsRestored", "VaultDurable"}
      BY <2>1 DEF Control, ControlFlow
    <3>2. AfterMark = IF goal = "BlobsDurable" THEN "activate" ELSE "cleanup"
      BY DEF AfterMark
    <3> QED
      BY <2>1, <2>4, <3>1, <3>2, PublicationKeepsControl
  <2> QED
    BY <1>13, <2>2, <2>3, <2>4 DEF Mark
<1>14. CASE CleanedUp
  <2>1. CASE Fail(TRUE)
    BY <1>14, <2>1, FailureKeepsControl DEF CleanedUp
  <2>2. CASE Goto("removeOlder")
    BY <1>14, <2>2 DEF CleanedUp, Goto, Control, ControlType, ControlFlow
  <2> QED
    BY <1>14, <2>1, <2>2 DEF CleanedUp
<1>15. CASE RemoveSlot
  <2>1. CASE Fail(TRUE)
    BY <1>15, <2>1, FailureKeepsControl DEF RemoveSlot
  <2>2. CASE Goto("syncOlder") \/ Goto("syncLatest")
    BY <1>15, <2>2 DEF RemoveSlot, Goto, Control, ControlType, ControlFlow
  <2> QED
    BY <1>15, <2>1, <2>2 DEF RemoveSlot
<1>16. CASE SyncRemoval
  <2>1. CASE Fail(TRUE)
    BY <1>16, <2>1, FailureKeepsControl DEF SyncRemoval
  <2>2. CASE pc = "syncOlder" /\ Goto("removeLatest")
    BY <1>16, <2>2 DEF SyncRemoval, Goto, Control, ControlType, ControlFlow
  <2>3. CASE pc = "syncLatest" /\ Finished
    <3>1. CASE Forwards
      BY <2>3, <3>1, Returns DEF Finished
    <3>2. CASE ~Forwards
      BY <1>16, <2>3, <3>2, RecoveredKeepsControl DEF Finished, SyncRemoval
    <3> QED
      BY <3>1, <3>2
  <2> QED
    BY <1>16, <2>1, <2>2, <2>3 DEF SyncRemoval
<1>17. CASE RecoverPending
  <2> DEFINE e == LoadEnvelope(slot)
  <2>1. pc = "recover" /\ plan' = plan
    BY <1>17 DEF RecoverPending
  <2>2. CASE Recovered
    <3>1. ~Forwards
      BY <2>1 DEF Control, ControlFlow
    <3> QED
      BY <2>1, <2>2, <3>1, RecoveredKeepsControl
  <2>3. CASE Return("repair")
    BY <2>3, Returns
  <2>4. CASE e \in Envelope /\ RecoveryResumes(e)
    <3>1. e.phase \in Phases /\ e.entries \subseteq Owners
      BY <2>4 DEF Envelope
    <3> HIDE DEF e
    <3>2. \/ ResumeLoop(e, "cleanup") \/ ResumeLoop(e, "rollback")
          \/ \E phase \in {"RollbackTargetsRestored", "VaultDurable"} : ResumeMark(e, phase)
      BY <2>4 DEF RecoveryResumes
    <3>3. CASE ResumeLoop(e, "cleanup") \/ ResumeLoop(e, "rollback")
      BY <2>1, <2>4, <3>1, <3>3 DEF ResumeLoop, Control, ControlType, ControlFlow, SlotValues
    <3>4. CASE \E phase \in {"RollbackTargetsRestored", "VaultDurable"} : ResumeMark(e, phase)
      BY <2>1, <2>4, <3>4 DEF ResumeMark, Control, ControlType, ControlFlow, SlotValues, Phases
    <3> QED
      BY <3>2, <3>3, <3>4
  <2> QED
    BY <1>17, <2>2, <2>3, <2>4, RecoveryCases
<1>18. ASSUME NEW o \in Owners, RollBack(o)
       PROVE  Control'
  <2>1. CASE Return("repair")
    BY <2>1, Returns
  <2>2. CASE todo' = todo \ {o} /\ UNCHANGED <<handle, pc, mode, previous, goal, then, result>>
    BY <1>18, <2>2 DEF RollBack, Control, ControlType, ControlFlow
  <2> QED
    BY <1>18, <2>1, <2>2 DEF RollBack
<1>19. CASE RolledBack
  BY <1>19 DEF RolledBack, Control, ControlType, ControlFlow, Phases
<1>20. CASE Recheck
  BY <1>20, Returns DEF Recheck
<1> QED
  BY <1>1, <1>2, <1>3, <1>4, <1>5, <1>6, <1>7, <1>8, <1>9, <1>10, <1>11, <1>12, <1>13, <1>14,
     <1>15, <1>16, <1>17, <1>18, <1>19, <1>20 DEF Next, Forward, Step

----------------------------------------------------------------------------
(* The promises to the client and to the graph: where the after graph may  *)
(* already be, and where its blobs must be.                                *)

\* The forward path before its Vault commit, or the recovery of a failure there.
BeforeCommit ==
  Forwards /\ \/ pc \in {"backup", "publishBlobs", "activate", "activateAgain", "mutate"}
              \/ (Publishing \/ Marking) /\ goal # "VaultDurable"
Uncommitted == BeforeCommit \/ mode = "fail"

\* After the blobs of the after graph were published.
BlobsReady ==
  Forwards /\ \/ pc \in {"activate", "activateAgain", "mutate"}
              \/ (Publishing \/ Marking) /\ goal \in {"BlobsDurable", "Active"}

\* After the Vault commit was confirmed.
AfterCommit ==
  Forwards /\ \/ Finishing
              \/ (Publishing \/ Marking) /\ goal = "VaultDurable"

\* The after graph is not in the Vault before the commit, and nothing else is
\* in it once the commit is confirmed.
CommitInv ==
  /\ vault \in vaultRisk
  /\ \A g \in vaultRisk : g <= planned
  /\ plan.after <= planned
  /\ Uncommitted => plan.after \notin vaultRisk
  /\ AfterCommit => vaultRisk = {plan.after}

\* A flow without blobs of its own has them from begin on.
BlobInv ==
  /\ vaultRisk \subseteq blobs
  /\ Forwards => plan.blobs \/ plan.after \in blobs
  /\ BlobsReady => plan.after \in blobs

ResultInv ==
  /\ result = "ok" => vaultRisk = {plan.after}
  /\ result = "error" => plan.after \notin vaultRisk

\* A step of an operation that keeps its plan: it passes the commit and the
\* publication of blobs only there, and reports only what these decided.
Course ==
  /\ plan' = plan
  /\ Forwards' => Forwards
  /\ Uncommitted' => Uncommitted
  /\ AfterCommit' => AfterCommit \/ vaultRisk' = {plan.after}
  /\ BlobsReady' => \/ BlobsReady
                    \/ Forwards /\ ~plan.blobs
                    \/ plan.after \in blobs'
  /\ result' = "ok" => result = "ok" \/ AfterCommit \/ vaultRisk' = {plan.after}
  /\ result' = "error" => result = "error" \/ mode = "fail" \/ plan.after \notin vaultRisk'

LEMMA ReturnCourse ==
  ASSUME plan' = plan, NEW r \in {"none", "repair", result}, Return(r)
  PROVE  Course
BY DEF Return, Course, Forwards, Uncommitted, BeforeCommit, AfterCommit, BlobsReady

LEMMA RecoverCourse ==
  ASSUME plan' = plan, NEW w \in {"fail", "giveUp", "post"}, Recover(w), w = "fail" => Uncommitted
  PROVE  Course
BY DEF Recover, Course, Forwards, Uncommitted, BeforeCommit, AfterCommit, BlobsReady

LEMMA FailCourse ==
  ASSUME StoresType, Control, plan' = plan, NEW c \in BOOLEAN, Fail(c),
         Forwards /\ c = FALSE => BeforeCommit
  PROVE  Course
<1>1. CASE Return("repair")
  BY <1>1, ReturnCourse
<1>2. CASE Forwards /\ c = FALSE /\ Recover("fail")
  BY <1>2, RecoverCourse DEF Uncommitted
<1>3. CASE Recover("post")
  BY <1>3, RecoverCourse
<1> QED
  BY <1>1, <1>2, <1>3, Fails

LEMMA FailedPublicationCourse ==
  ASSUME StoresType, Control, Publishing, plan' = plan, FailPublication
  PROVE  Course
<1>1. CASE Return("repair")
  BY <1>1, ReturnCourse
<1>2. CASE Forwards /\ goal # "VaultDurable" /\ Recover("fail")
  BY <1>2, RecoverCourse DEF Uncommitted, BeforeCommit
<1>3. CASE Recover("post") \/ Recover("giveUp")
  BY <1>3, RecoverCourse
<1> QED
  BY <1>1, <1>2, <1>3, PublicationFails

LEMMA PublicationCourse ==
  ASSUME StoresType, Control, plan' = plan, handle \in Envelope,
         NEW phase \in Phases, NEW prev \in [Owners -> PreviousStates], NEW step,
         PublishNext(phase, prev, step),
         Forwards /\ goal # "VaultDurable" => BeforeCommit,
         Forwards /\ phase # "VaultDurable" => BeforeCommit,
         Forwards /\ phase = "VaultDurable" => AfterCommit,
         Forwards /\ phase \in {"BlobsDurable", "Active"} => BlobsReady
  PROVE  Course
<1>1. CASE Fail(goal = "VaultDurable")
  BY <1>1, FailCourse
<1>2. CASE pc' = "remove" /\ goal' = phase /\ UNCHANGED <<mode, previous, todo, result>>
  BY <1>2 DEF Course, Forwards, Uncommitted, BeforeCommit, AfterCommit, BlobsReady, Publishing,
              Marking, Finishing
<1> QED
  BY <1>1, <1>2, Publishes DEF Control, ControlType

\* Recovery has ended well.
LEMMA RecoveredCourse ==
  ASSUME Control, plan' = plan, Recovered, ~Forwards
  PROVE  Course
<1>1. mode \in {"start", "fail", "giveUp", "post"}
  BY DEF Control, ControlType, Forwards
<1>2. CASE mode \in {"start", "post"}
  BY <1>2 DEF Recovered, Goto, Course, Forwards, Uncommitted, BeforeCommit, AfterCommit, BlobsReady
<1>3. CASE mode = "fail"
  BY <1>3 DEF Recovered, Return, Course, Forwards, Uncommitted, BeforeCommit, AfterCommit, BlobsReady
<1>4. CASE mode = "giveUp"
  BY <1>4, ReturnCourse DEF Recovered
<1> QED
  BY <1>1, <1>2, <1>3, <1>4

LEMMA StepsKeepCourse ==
  ASSUME StoresType, Control, Step, ~StartOperation
  PROVE  Course
<1> USE DEF Forwards, Publishing, Marking, Finishing
<1>c. pc \notin {"idle", "recover", "body", "recheck"} => handle \in Envelope
  BY DEF Control, ControlType
<1>d. ASSUME Fail(TRUE), plan' = plan PROVE Course
  BY <1>d, FailCourse
<1>1. CASE OperationOnly
  BY <1>1, ReturnCourse DEF OperationOnly
<1>2. CASE RemoveOldSlot \/ RenameTemp
  <2>1. CASE FailedPublication
    BY <1>2, <2>1, FailedPublicationCourse DEF RemoveOldSlot, RenameTemp, FailedPublication
  <2>2. CASE Goto("rename") \/ Goto("sync")
    BY <1>2, <2>2 DEF RemoveOldSlot, RenameTemp, Goto, Course, Uncommitted, BeforeCommit,
                      AfterCommit, BlobsReady
  <2> QED
    BY <1>2, <2>1, <2>2 DEF RemoveOldSlot, RenameTemp
<1>3. CASE SyncSlot
  <2>1. pc = "sync" /\ plan' = plan
    BY <1>3 DEF SyncSlot
  <2>2. CASE FailPublication
    BY <2>1, <2>2, FailedPublicationCourse
  <2>3. CASE /\ pc' = then /\ UNCHANGED <<mode, goal, result>>
    BY <2>1, <2>3 DEF Control, ControlType, ControlFlow, Course, Uncommitted, BeforeCommit,
                      AfterCommit, BlobsReady
  <2> QED
    BY <1>3, <2>2, <2>3 DEF SyncSlot, FailedPublication, Goto, Loop
<1>4. ASSUME NEW o \in Owners, BackUp(o) \/ Mutate(o)
      PROVE  Course
  <2>1. plan' = plan /\ pc \in {"backup", "mutate"} /\ Forwards
    BY <1>4 DEF BackUp, Mutate, Control, ControlFlow
  <2>2. CASE Fail(FALSE)
    BY <2>1, <2>2, FailCourse DEF BeforeCommit
  <2>3. CASE UNCHANGED <<pc, mode, goal, result>>
    BY <2>1, <2>3 DEF Course, Uncommitted, BeforeCommit, AfterCommit, BlobsReady
  <2> QED
    BY <1>4, <2>2, <2>3 DEF BackUp, Mutate
<1>5. CASE BackedUp
  BY <1>5 DEF BackedUp, Goto, StoresType, Plan, Control, ControlFlow, Course, Uncommitted,
              BeforeCommit, AfterCommit, BlobsReady
<1>6. CASE PublishBlobs
  <2>1. plan' = plan /\ pc = "publishBlobs" /\ Forwards
    BY <1>6 DEF PublishBlobs, Control, ControlFlow
  <2>2. CASE Fail(FALSE)
    BY <2>1, <2>2, FailCourse DEF BeforeCommit
  <2>3. CASE /\ pc' = "mark" /\ goal' = "BlobsDurable" /\ UNCHANGED <<mode, result>>
             /\ blobs' = blobs \cup {plan.after}
    BY <2>1, <2>3 DEF Course, Uncommitted, BeforeCommit, AfterCommit, BlobsReady
  <2> QED
    BY <1>6, <2>2, <2>3 DEF PublishBlobs
<1>7. CASE Activate
  <2>1. /\ plan' = plan /\ pc \in {"activate", "activateAgain"} /\ handle \in Envelope
        /\ Forwards /\ previous \in [Owners -> PreviousStates]
    BY <1>7, <1>c DEF Activate, Control, ControlType, ControlFlow
  <2>2. BeforeCommit /\ BlobsReady
    BY <2>1 DEF BeforeCommit, BlobsReady
  <2>3. CASE Fail(FALSE)
    BY <2>1, <2>2, <2>3, FailCourse
  <2>4. CASE \/ PublishNext("Active", previous, "activateAgain")
             \/ PublishNext("Active", previous, "mutate")
    BY <2>1, <2>2, <2>4, PublicationCourse DEF Phases
  <2> QED
    BY <1>7, <2>3, <2>4 DEF Activate
<1>8. CASE CommitVault
  <2>1. plan' = plan /\ pc = "mutate" /\ Forwards
    BY <1>8 DEF CommitVault, Control, ControlFlow
  <2>2. CASE Fail(FALSE)
    BY <2>1, <2>2, FailCourse DEF BeforeCommit
  <2>3. CASE Goto("confirm")
    BY <2>1, <2>3 DEF Goto, Course, Uncommitted, BeforeCommit, AfterCommit, BlobsReady
  <2> QED
    BY <1>8, <2>2, <2>3 DEF CommitVault
<1>9. CASE ConfirmCommit
  <2>1. plan' = plan /\ pc = "confirm" /\ Forwards
    BY <1>9 DEF ConfirmCommit, Control, ControlFlow
  <2>2. CASE Fail(TRUE)
    BY <1>d, <2>1, <2>2
  <2>3. CASE /\ pc' = "mark" /\ goal' = "VaultDurable" /\ UNCHANGED <<mode, result>>
             /\ vaultRisk' = {plan.after}
    BY <2>1, <2>3 DEF Course, Uncommitted, BeforeCommit, AfterCommit, BlobsReady
  <2> QED
    BY <1>9, <2>2, <2>3 DEF ConfirmCommit, VaultConfirmed
<1>10. CASE Mark
  <2>1. /\ plan' = plan /\ pc \in {"mark", "markAgain"} /\ handle \in Envelope
        /\ goal \in Phases /\ handle.previous \in [Owners -> PreviousStates]
        /\ Forwards => goal \in {"BlobsDurable", "VaultDurable"}
    BY <1>10, <1>c DEF Mark, Control, ControlType, ControlFlow, Envelope
  <2>2. /\ Forwards /\ goal # "VaultDurable" => BeforeCommit
        /\ Forwards /\ goal = "VaultDurable" => AfterCommit
        /\ Forwards /\ goal \in {"BlobsDurable", "Active"} => BlobsReady
    BY <2>1 DEF BeforeCommit, AfterCommit, BlobsReady
  <2>3. CASE Fail(goal = "VaultDurable")
    BY <2>1, <2>2, <2>3, FailCourse
  <2>4. CASE Marked
    BY <2>1, <2>4 DEF Marked, Goto, Loop, Course, Uncommitted, BeforeCommit, AfterCommit, BlobsReady
  <2>5. CASE \/ PublishNext(goal, handle.previous, "markAgain")
             \/ PublishNext(goal, handle.previous, AfterMark)
    BY <2>1, <2>2, <2>5, PublicationCourse
  <2> QED
    BY <1>10, <2>3, <2>4, <2>5 DEF Mark
<1>11. ASSUME NEW o \in Owners, CleanUp(o) PROVE Course
  <2>1. CASE Fail(TRUE)
    BY <1>d, <1>11, <2>1 DEF CleanUp
  <2>2. CASE UNCHANGED <<pc, mode, goal, result>>
    BY <1>11, <2>2 DEF CleanUp, Course, Uncommitted, BeforeCommit, AfterCommit, BlobsReady
  <2> QED
    BY <1>11, <2>1, <2>2 DEF CleanUp
<1>12. CASE CleanedUp \/ RemoveSlot
  <2>1. CASE Fail(TRUE)
    BY <1>d, <1>12, <2>1 DEF CleanedUp, RemoveSlot
  <2>2. CASE Goto("removeOlder") \/ Goto("syncOlder") \/ Goto("syncLatest")
    BY <1>12, <2>2 DEF CleanedUp, RemoveSlot, Goto, Course, Uncommitted, BeforeCommit, AfterCommit,
                       BlobsReady
  <2> QED
    BY <1>12, <2>1, <2>2 DEF CleanedUp, RemoveSlot
<1>13. CASE SyncRemoval
  <2>1. CASE Fail(TRUE)
    BY <1>d, <1>13, <2>1 DEF SyncRemoval
  <2>2. CASE pc = "syncOlder" /\ Goto("removeLatest")
    BY <1>13, <2>2 DEF SyncRemoval, Goto, Course, Uncommitted, BeforeCommit, AfterCommit, BlobsReady
  <2>3. CASE pc = "syncLatest" /\ Finished
    <3>1. CASE Forwards
      BY <1>13, <2>3, <3>1 DEF Finished, SyncRemoval, Return, Course, Uncommitted, BeforeCommit,
                               AfterCommit, BlobsReady
    <3>2. CASE ~Forwards
      BY <1>13, <2>3, <3>2, RecoveredCourse DEF Finished, SyncRemoval
    <3> QED
      BY <3>1, <3>2
  <2> QED
    BY <1>13, <2>1, <2>2, <2>3 DEF SyncRemoval
<1>14. CASE RecoverPending
  <2> DEFINE e == LoadEnvelope(slot)
  <2>1. pc = "recover" /\ plan' = plan /\ ~Forwards
    BY <1>14 DEF RecoverPending, Control, ControlFlow
  <2>2. CASE Recovered
    BY <2>1, <2>2, RecoveredCourse
  <2>3. CASE Return("repair")
    BY <2>1, <2>3, ReturnCourse
  <2>4. CASE RecoveryResumes(e)
    <3> HIDE DEF e
    <3>1. UNCHANGED <<mode, result>>
      BY <2>4 DEF RecoveryResumes, ResumeLoop, ResumeMark
    <3> QED
      BY <2>1, <3>1 DEF Course, Uncommitted, BeforeCommit, AfterCommit, BlobsReady
  <2> QED
    BY <1>14, <2>2, <2>3, <2>4, RecoveryCases
<1>15. ASSUME NEW o \in Owners, RollBack(o) PROVE Course
  <2>1. CASE Return("repair")
    BY <1>15, <2>1, ReturnCourse DEF RollBack
  <2>2. CASE UNCHANGED <<pc, mode, goal, result>>
    BY <1>15, <2>2 DEF RollBack, Course, Uncommitted, BeforeCommit, AfterCommit, BlobsReady
  <2> QED
    BY <1>15, <2>1, <2>2 DEF RollBack
<1>16. CASE RolledBack
  BY <1>16 DEF RolledBack, Control, ControlFlow, Course, Uncommitted, BeforeCommit, AfterCommit,
               BlobsReady
<1>17. CASE Recheck
  <2>1. CASE Return("repair")
    BY <1>17, <2>1, ReturnCourse DEF Recheck
  <2>2. CASE vaultRisk' = {vault} /\ vault = plan.after /\ Return("ok")
    BY <1>17, <2>2 DEF Recheck, Return, Course, Uncommitted, BeforeCommit, AfterCommit, BlobsReady
  <2>3. CASE vaultRisk' = {vault} /\ vault # plan.after /\ Return("error")
    BY <1>17, <2>3 DEF Recheck, Return, Course, Uncommitted, BeforeCommit, AfterCommit, BlobsReady
  <2> QED
    BY <1>17, <2>1, <2>2, <2>3 DEF Recheck, VaultConfirmed
<1> QED
  BY <1>1, <1>2, <1>3, <1>4, <1>5, <1>6, <1>7, <1>8, <1>9, <1>10, <1>11, <1>12, <1>13, <1>14,
     <1>15, <1>16, <1>17 DEF Step

Promises == CommitInv /\ BlobInv /\ ResultInv

\* A step on its course that publishes no graph keeps the promises.
LEMMA QuietPromises ==
  ASSUME Promises, Course, planned' = planned,
         vault' \in vaultRisk', vaultRisk' \subseteq vaultRisk, blobs \subseteq blobs'
  PROVE  Promises'
<1>1. ASSUME vaultRisk = {plan.after} PROVE vaultRisk' = {plan.after}
  BY <1>1
<1>2. CommitInv'
  BY <1>1 DEF Promises, CommitInv, Course
<1>3. BlobInv'
  BY DEF Promises, BlobInv, Course
<1>4. ResultInv'
  BY <1>1 DEF Promises, ResultInv, CommitInv, Course, Uncommitted
<1> QED
  BY <1>2, <1>3, <1>4 DEF Promises

\* The steps that neither publish nor confirm a graph.
Elsewhere ==
  \/ OperationOnly \/ RemoveOldSlot \/ RenameTemp \/ SyncSlot \/ BackedUp \/ Activate \/ Mark
  \/ CleanedUp \/ RemoveSlot \/ SyncRemoval \/ RolledBack
  \/ \E o \in Owners : BackUp(o) \/ Mutate(o) \/ CleanUp(o) \/ RollBack(o)

LEMMA StepPromises ==
  ASSUME StoresType, Control, Promises, Step, ~StartOperation
  PROVE  Promises'
<1>1. Course
  BY StepsKeepCourse
<1>2. vault \in vaultRisk
  BY DEF Promises, CommitInv
<1>3. CASE Elsewhere
  <2>1. UNCHANGED <<vaultVars, history>>
    BY <1>3 DEF Elsewhere, OperationOnly, RemoveOldSlot, RenameTemp, SyncSlot, BackedUp, Activate,
                Mark, CleanedUp, RemoveSlot, SyncRemoval, RolledBack, BackUp, Mutate, CleanUp,
                RollBack
  <2> QED
    BY <1>1, <1>2, <2>1, QuietPromises DEF vaultVars, history
<1>4. CASE PublishBlobs \/ ConfirmCommit \/ RecoverPending \/ Recheck
  <2>1. UNCHANGED history
    BY <1>4 DEF PublishBlobs, ConfirmCommit, RecoverPending, Recheck
  <2>2. vault' \in vaultRisk' /\ vaultRisk' \subseteq vaultRisk /\ blobs \subseteq blobs'
    <3>1. CASE PublishBlobs
      BY <1>2, <3>1 DEF PublishBlobs
    <3>2. CASE UNCHANGED vaultVars \/ VaultConfirmed
      BY <1>2, <3>2 DEF vaultVars, VaultConfirmed
    <3>3. CASE RecoverPending
      BY <3>2, <3>3, RecoveryCases DEF RecoveryResumes
    <3>4. CASE ConfirmCommit \/ Recheck
      BY <3>2, <3>4 DEF ConfirmCommit, Recheck
    <3> QED
      BY <1>4, <3>1, <3>3, <3>4
  <2> QED
    BY <1>1, <2>1, <2>2, QuietPromises DEF history
<1>5. CASE CommitVault
  <2>1. pc = "mutate" /\ UNCHANGED history /\ plan' = plan /\ Forwards /\ result = "none"
    BY <1>5 DEF CommitVault, Control, ControlFlow
  <2>2. CASE UNCHANGED vaultVars
    BY <1>1, <1>2, <2>1, <2>2, QuietPromises DEF vaultVars, history
  <2>3. CASE VaultPublished(plan.after) /\ Goto("confirm")
    <3>1. /\ vault' = plan.after /\ blobs' = blobs /\ plan.after \in vaultRisk'
          /\ vaultRisk' \subseteq vaultRisk \cup {plan.after}
      BY <2>3 DEF VaultPublished
    <3>2. pc' = "confirm" /\ mode' = "forward" /\ result' = "none"
      BY <2>1, <2>3 DEF Goto, Forwards
    <3>3. ~Uncommitted' /\ ~AfterCommit' /\ ~BlobsReady'
      BY <3>2 DEF Uncommitted, BeforeCommit, AfterCommit, BlobsReady, Publishing, Marking, Finishing
    <3>4. BlobsReady
      BY <2>1 DEF BlobsReady
    <3>5. CommitInv'
      BY <2>1, <3>1, <3>3 DEF Promises, CommitInv, history
    <3>6. BlobInv'
      BY <2>1, <3>1, <3>3, <3>4 DEF Promises, BlobInv, Forwards
    <3>7. ResultInv'
      BY <3>2 DEF ResultInv
    <3> QED
      BY <3>5, <3>6, <3>7 DEF Promises
  <2> QED
    BY <1>5, <2>2, <2>3 DEF CommitVault
<1> QED
  BY <1>3, <1>4, <1>5 DEF Step, Elsewhere

LEMMA PromisesNext == CTypeInv /\ Promises /\ [Next]_vars => Promises'
<1> SUFFICES ASSUME StoresType, Control, Promises, [Next]_vars PROVE Promises'
  BY DEF CTypeInv
<1>r. vault \in vaultRisk /\ planned \in Nat
  BY GraphsAssumption DEF Promises, CommitInv, StoresType
<1>1. CASE UNCHANGED vars
  BY <1>1 DEF vars, Promises, CommitInv, BlobInv, ResultInv, Uncommitted, BeforeCommit, AfterCommit,
              BlobsReady, Forwards, Publishing, Marking, Finishing
<1>2. CASE StartOperation
  <2>1. /\ UNCHANGED <<vaultVars, history>> /\ plan'.after = 0
        /\ mode' = "start" /\ result' = "none"
    BY <1>2 DEF StartOperation, NoPlan
  <2> QED
    BY <1>r, <2>1 DEF vaultVars, history, Promises, CommitInv, BlobInv, ResultInv, Uncommitted,
                      BeforeCommit, AfterCommit, BlobsReady, Forwards
<1>3. CASE Step /\ ~StartOperation
  BY <1>3, StepPromises
<1>4. CASE Crash
  BY <1>4, <1>r, ReturnCourse, QuietPromises DEF Crash, vaultVars, history
<1>5. CASE PowerLoss
  <2>1. Course
    BY <1>5, ReturnCourse DEF PowerLoss
  <2> QED
    BY <1>5, <2>1, QuietPromises DEF PowerLoss, history
<1>6. ASSUME NEW s \in Slots, DamageSlot(s) PROVE Promises'
  <2>1. UNCHANGED <<vaultVars, control, plan, result, history>>
    BY <1>6 DEF DamageSlot
  <2> QED
    BY <2>1 DEF vaultVars, control, history, Promises, CommitInv, BlobInv, ResultInv, Uncommitted,
                BeforeCommit, AfterCommit, BlobsReady, Forwards, Publishing, Marking, Finishing
<1>7. CASE PlainCommit
  <2>1. /\ planned' = planned + 1 /\ vault' = planned + 1 /\ plan' = plan
        /\ planned + 1 \in vaultRisk' /\ vaultRisk' \subseteq vaultRisk \cup {planned + 1}
        /\ blobs' = blobs \cup {planned + 1} /\ mode' = "start" /\ result' = "none"
    BY <1>7 DEF PlainCommit, Return
  <2>2. \A g \in vaultRisk \cup {plan.after} : g <= planned => g <= planned + 1
    BY <1>r, GraphsAssumption DEF StoresType, Plan
  <2> QED
    BY <1>r, <2>1, <2>2 DEF Promises, CommitInv, BlobInv, ResultInv, Uncommitted,
                      BeforeCommit, AfterCommit, BlobsReady, Forwards
<1>8. ASSUME NEW kind \in Kinds, NEW owners \in SUBSET Owners, NEW needs \in BOOLEAN,
             NEW value \in Accounts, Begin(kind, owners, value, needs)
      PROVE  Promises'
  <2>1. /\ planned' = planned + 1 /\ vault' = vault /\ vaultRisk' \subseteq vaultRisk
        /\ vault \in vaultRisk'
        /\ blobs' = IF needs THEN blobs ELSE blobs \cup {planned + 1}
        /\ plan'.after = planned + 1 /\ plan'.blobs = needs
        /\ pc' = "remove" /\ goal' = "Preparing" /\ mode' = "forward" /\ result' = result
        /\ pc = "body"
    BY <1>8, <1>r DEF Begin, PlanningBase
  <2>2. \A g \in vaultRisk : g <= planned => g <= planned + 1 /\ g # planned + 1
    BY <1>r, GraphsAssumption DEF StoresType
  <2>3. result' = "none"
    BY <2>1 DEF Control, ControlFlow
  <2>4. CommitInv'
    BY <1>r, <2>1, <2>2 DEF Promises, CommitInv, Uncommitted, BeforeCommit, AfterCommit, Publishing,
                            Marking, Finishing
  <2>5. BlobInv'
    BY <2>1 DEF Promises, BlobInv, BlobsReady, Publishing, Marking
  <2> QED
    BY <2>3, <2>4, <2>5 DEF Promises, ResultInv
<1> QED
  BY <1>1, <1>2, <1>3, <1>4, <1>5, <1>6, <1>7, <1>8 DEF Next, Forward

----------------------------------------------------------------------------
(* The theorems.                                                           *)

PromiseInv == CTypeInv /\ Promises

LEMMA PromiseInvInit == Init => PromiseInv
<1> SUFFICES ASSUME Init PROVE PromiseInv
  OBVIOUS
<1>1. 0 \in Graphs /\ EmptyAccounts \in Accounts /\ NoPlan \in Plan
  BY GraphsAssumption DEF EmptyAccounts, Accounts, NoPlan, Plan
<1>2. StoresType
  <2>1. faults \in [Faults -> Nat] /\ belongs \in [Graphs -> Accounts]
    BY DEF Init
  <2>2. slot \in [Slots -> SlotValues] /\ slotRisk \subseteq [Slots -> SlotValues]
    BY DEF Init, SlotValues
  <2> QED
    BY <1>1, <2>1, <2>2 DEF Init, StoresType
<1>3. Control
  BY DEF Init, Control, ControlType, ControlFlow, Forwards, Publishing, Marking, Steps, SlotValues,
         NothingRecorded, PreviousStates, Phases
<1>4. Promises
  BY <1>1, GraphsAssumption DEF Init, NoPlan, Promises, CommitInv, BlobInv, ResultInv, Uncommitted,
         BeforeCommit, AfterCommit, BlobsReady, Forwards
<1> QED
  BY <1>2, <1>3, <1>4 DEF PromiseInv, CTypeInv

LEMMA PromiseInvNext == PromiseInv /\ [Next]_vars => PromiseInv'
<1> SUFFICES ASSUME PromiseInv, [Next]_vars PROVE PromiseInv'
  OBVIOUS
<1>1. CTypeInv'
  BY StoresNext, ControlNext DEF PromiseInv, CTypeInv
<1>2. Promises'
  BY PromisesNext DEF PromiseInv
<1> QED
  BY <1>1, <1>2 DEF PromiseInv

\* The invariant holds in every state of every behaviour.
LEMMA PromiseInvAlways == Spec => []PromiseInv
<1>1. Init => PromiseInv
  BY PromiseInvInit
<1>2. PromiseInv /\ [Next]_vars => PromiseInv'
  BY PromiseInvNext
<1> QED
  BY <1>1, <1>2, PTL DEF Spec

\* Every variable keeps its type, and a loop over accounts visits only those that
\* the journalled transaction names, whatever fails, crashes or is damaged.
THEOREM TransactionsAreTyped == Spec => []TypeOK
<1>1. PromiseInv => TypeOK
  BY SlotStates DEF PromiseInv, CTypeInv, StoresType, Control, ControlType, Plan, Steps, TypeOK
<1> QED
  BY <1>1, PromiseInvAlways, PTL

\* A client is told the truth: after "ok" only the new graph can be the Vault,
\* after "error" the new graph cannot; no budget of faults, no unreadable slot and
\* no order in which a power loss keeps directory changes makes either a lie.
THEOREM ResultsAreTruthful == Spec => []ResultTruthful
<1>1. PromiseInv => ResultTruthful
  BY DEF PromiseInv, Promises, ResultInv, ResultTruthful
<1> QED
  BY <1>1, PromiseInvAlways, PTL

\* Every graph that a load or a power loss may make current has its managed
\* secret blobs.
THEOREM GraphsHaveBlobs == Spec => []GraphHasBlobs
<1>1. PromiseInv => GraphHasBlobs
  BY DEF PromiseInv, Promises, BlobInv, GraphHasBlobs
<1> QED
  BY <1>1, PromiseInvAlways, PTL

----------------------------------------------------------------------------
(* The accounts, and what the journal says of them.                        *)

\* The accounts are those of every graph that may be current.
Settled == \A g \in vaultRisk : target = belongs[g]

\* The recorded state prev[o] and the backup account give o's account in graph b.
Kept(b, prev, o) ==
  /\ prev[o] # "Unknown"
  /\ belongs[b][o] = IF prev[o] = "BackedUp" THEN backup[o] ELSE NoSecret

\* The same where the backup account may have been deleted since.
Restorable(b, prev, o) ==
  /\ prev[o] # "Unknown"
  /\ prev[o] # "BackedUp" => belongs[b][o] = NoSecret
  /\ prev[o] = "BackedUp" => backup[o] \in {NoSecret, belongs[b][o]}

IsActive(v) == v \in Envelope /\ v.phase = "Active"

\* Slot value v is unreadable, or Active for the transaction of e.
Says(v, b, a, entries, prev) ==
  v = Corrupt \/ /\ IsActive(v)
                 /\ v.before = b /\ v.after = a /\ v.entries = entries /\ v.previous = prev

\* Every slot file that may be found orders the transaction from graph b to
\* graph a to be decided, and it can be: the accounts of b are in the backups,
\* and those of a are in place if a may be current.
Armed(b, a, entries, prev) ==
  /\ b # a
  /\ \A r \in slotRisk, s \in Slots : Says(r[s], b, a, entries, prev)
  /\ \A o \in entries : Kept(b, prev, o)
  /\ \A o \in Owners \ entries : target[o] = belongs[b][o] /\ target[o] = belongs[a][o]
  /\ \A g \in vaultRisk : IF g = a THEN target = belongs[a] ELSE belongs[g] = belongs[b]

ArmedBy(e) == Armed(e.before, e.after, e.entries, e.previous)

Records(e) ==
  /\ e.before <= planned
  /\ \A o \in e.entries : Restorable(e.before, e.previous, o)

\* A slot holds the generations of its parity, and an Active envelope can be
\* rolled back as far as its backups are there.
JournalInv ==
  /\ slot \in slotRisk
  /\ \A r \in slotRisk, s \in Slots :
       r[s] \in Envelope =>
         /\ SlotFor(r[s].generation) = s
         /\ r[s].phase = "Active" => Records(r[s])

\* The accounts agree with the graph, or the journal says how they will.
AccountsInv ==
  \/ Settled
  \/ \E b, a \in Graphs, entries \in SUBSET Owners, prev \in [Owners -> PreviousStates] :
       Armed(b, a, entries, prev)

\* Where the accounts may differ from the graph.
Unsettling == pc \in {"idle", "recover", "mutate", "confirm", "rollback"}

\* The slot that does not hold the handle's generation.
TheOtherSlot == slot[OtherSlot(SlotFor(handle.generation))]

\* The previous states are recorded, and not yet acted upon.
Noted ==
  \/ pc \in {"publishBlobs", "activate", "activateAgain", "mutate", "confirm"}
  \/ (Publishing \/ Marking) /\ goal \in {"BlobsDurable", "Active"}

StepInv ==
  /\ ~Unsettling => Settled
  /\ pc = "body" => \A s \in Slots : slot[s] = Missing
  /\ Publishing \/ pc = "markAgain" => handle.phase = goal
  /\ pc \in {"syncOlder", "removeLatest"} => TheOtherSlot = Missing
  /\ pc = "syncLatest" => \A s \in Slots : slot[s] = Missing

PlanInv ==
  Forwards =>
    /\ handle.before = plan.before /\ handle.after = plan.after /\ handle.entries = plan.owners
    /\ plan.before < plan.after /\ plan.after <= planned
    /\ \A o \in Owners : belongs[plan.after][o] =
         IF o \in plan.owners THEN plan.value[o] ELSE belongs[plan.before][o]
    /\ BeforeCommit => \A g \in vaultRisk : belongs[g] = belongs[plan.before]

ForwardInv ==
  Forwards =>
    /\ Publishing /\ goal = "Preparing" => handle.generation = 1 /\ slot["B"] = Missing
    /\ pc = "backup" => /\ \A r \in slotRisk, s \in Slots : ~IsActive(r[s])
                        /\ \A o \in plan.owners \ todo : Kept(plan.before, previous, o)
    /\ Noted => \A o \in plan.owners : Kept(plan.before, previous, o)
    /\ pc \in {"activateAgain", "mutate", "confirm"} \/ (Publishing /\ goal = "Active") =>
         handle.phase = "Active" /\ handle.previous = previous
    /\ Publishing /\ then = "mutate" =>
         Says(TheOtherSlot, plan.before, plan.after, plan.owners, previous)
    /\ pc \in {"mutate", "confirm"} => Armed(plan.before, plan.after, plan.owners, previous)
    /\ pc = "mutate" => \A o \in plan.owners \ todo : target[o] = plan.value[o]
    /\ pc = "confirm" => target = belongs[plan.after]

RollbackInv ==
  pc = "rollback" =>
    /\ handle.phase = "Active" /\ Records(handle) /\ vaultRisk = {handle.before}
    /\ Settled \/ ArmedBy(handle)
    /\ \A o \in handle.entries \ todo : target[o] = belongs[handle.before][o]

Saga == JournalInv /\ AccountsInv /\ StepInv /\ PlanInv /\ ForwardInv /\ RollbackInv

StepsInv == StepInv /\ PlanInv /\ ForwardInv /\ RollbackInv

----------------------------------------------------------------------------
(* Slots and envelopes.                                                    *)

\* Generations alternate between the two slots.
LEMMA Parity ==
  ASSUME NEW n \in Nat
  PROVE  /\ SlotFor(n) \in Slots /\ OtherSlot(SlotFor(n)) \in Slots
         /\ OtherSlot(SlotFor(n)) # SlotFor(n)
         /\ SlotFor(n + 1) = OtherSlot(SlotFor(n)) /\ OtherSlot(SlotFor(n + 1)) = SlotFor(n)
         /\ \A s \in Slots : s = SlotFor(n) \/ s = OtherSlot(SlotFor(n))
         /\ n = 1 => SlotFor(n) = "A"
<1>1. ASSUME n % 2 = 1 PROVE (n + 1) % 2 = 0
  BY <1>1
<1>2. ASSUME n % 2 # 1 PROVE (n + 1) % 2 = 1
  BY <1>2
<1>3. n = 1 => n % 2 = 1
  OBVIOUS
<1> QED
  BY <1>1, <1>2, <1>3 DEF SlotFor, OtherSlot, Slots

\* Slots without an answer, and the envelope that the answer is.
LEMMA LoadMissing ==
  ASSUME NEW r \in [Slots -> SlotValues], LoadEnvelope(r) = Missing
  PROVE  \A s \in Slots : r[s] = Missing
<1>1. \A v \in SlotValues : v.state = "valid" => v # Missing
  BY DEF Missing
<1>2. r["A"] \in SlotValues /\ r["B"] \in SlotValues /\ Corrupt # Missing
  BY DEF Slots, Corrupt, Missing
<1>3. r["A"] = Missing /\ r["B"] = Missing
  BY <1>1, <1>2 DEF LoadEnvelope
<1> QED
  BY <1>3 DEF Slots

\* A loaded envelope is in the slot of its generation.
LEMMA LoadedSlot ==
  ASSUME StoresType, JournalInv, LoadEnvelope(slot) \in Envelope
  PROVE  slot[SlotFor(LoadEnvelope(slot).generation)] = LoadEnvelope(slot)
<1> DEFINE e == LoadEnvelope(slot)
<1>1. PICK s \in Slots : e = slot[s]
  BY LoadEnvelopeType DEF StoresType
<1>2. SlotFor(slot[s].generation) = s
  BY <1>1 DEF JournalInv
<1> QED
  BY <1>1, <1>2

LEMMA NotEnvelopes == Missing \notin Envelope /\ Corrupt \notin Envelope /\ Missing # Corrupt
BY DEF Missing, Corrupt, Envelope

----------------------------------------------------------------------------
(* Steps on the journal.                                                   *)

\* Nothing but damage happens to the slots.
SlotsFade ==
  /\ slot' \in slotRisk'
  /\ \A r \in slotRisk', s \in Slots : r[s] = Corrupt \/ \E q \in slotRisk : r[s] = q[s]

\* Slots are removed, too, or get the handle's envelope.
SlotsMove ==
  /\ slot' \in slotRisk'
  /\ \A r \in slotRisk', s \in Slots :
       \/ r[s] \in {Missing, Corrupt}
       \/ \E q \in slotRisk : r[s] = q[s]
       \/ pc = "rename" /\ s = SlotFor(handle.generation) /\ r[s] = handle

\* A write to slot s leaves old contents or the new one at risk.
LEMMA SetSlotMoves ==
  ASSUME StoresType, slot \in slotRisk, NEW s \in Slots, NEW v, SetSlot(s, v)
  PROVE  /\ slot' = [slot EXCEPT ![s] = v] /\ slot' \in slotRisk'
         /\ \A r \in slotRisk', t \in Slots : (r[t] = v /\ t = s) \/ \E q \in slotRisk : r[t] = q[t]
<1>1. slot' = [slot EXCEPT ![s] = v]
  BY DEF SetSlot
<1>2. slot' \in slotRisk'
  BY DEF SetSlot
<1>3. ASSUME NEW r \in slotRisk', NEW t \in Slots
      PROVE  (r[t] = v /\ t = s) \/ \E q \in slotRisk : r[t] = q[t]
  <2>1. r \in slotRisk \/ \E q \in slotRisk : r = [q EXCEPT ![s] = v]
    BY <1>3, <1>1 DEF SetSlot
  <2>2. ASSUME NEW q \in slotRisk, r = [q EXCEPT ![s] = v]
        PROVE  (r[t] = v /\ t = s) \/ r[t] = q[t]
    <3>1. q \in [Slots -> SlotValues]
      BY DEF StoresType
    <3> QED
      BY <2>2, <3>1
  <2> QED
    BY <2>1, <2>2
<1> QED
  BY <1>1, <1>2, <1>3

\* An unreadable slot file says less than before.
LEMMA DamageFades ==
  ASSUME StoresType, slot \in slotRisk, NEW s \in Slots, DamageSlot(s)
  PROVE  SlotsFade
<1>1. slotRisk' = {[r EXCEPT ![s] = IF @ = slot[s] THEN Corrupt ELSE @] : r \in slotRisk}
  BY DEF DamageSlot
<1>2. slot' = [slot EXCEPT ![s] = IF @ = slot[s] THEN Corrupt ELSE @]
  BY DEF DamageSlot
<1>3. ASSUME NEW r \in slotRisk', NEW t \in Slots
      PROVE  r[t] = Corrupt \/ \E q \in slotRisk : r[t] = q[t]
  <2>1. PICK q \in slotRisk : r = [q EXCEPT ![s] = IF @ = slot[s] THEN Corrupt ELSE @]
    BY <1>1, <1>3
  <2>2. q \in [Slots -> SlotValues]
    BY DEF StoresType
  <2> QED
    BY <2>1, <2>2
<1> QED
  BY <1>1, <1>2, <1>3 DEF SlotsFade

----------------------------------------------------------------------------
(* Steps on the accounts.                                                  *)

\* No step that changes neither the accounts nor their graphs unsettles them.
LEMMA SettledKept ==
  ASSUME Settled, vaultRisk' \subseteq vaultRisk, target' = target,
         \A g \in vaultRisk : belongs'[g] = belongs[g]
  PROVE  Settled'
BY DEF Settled

\* Losing slot contents or graphs at risk keeps the orders that remain.
LEMMA ArmedKept ==
  ASSUME SlotsFade, vaultRisk' \subseteq vaultRisk, UNCHANGED <<target, backup, belongs>>
  PROVE  \A b, a, entries, prev : Armed(b, a, entries, prev) => Armed(b, a, entries, prev)'
<1> SUFFICES ASSUME NEW b, NEW a, NEW entries, NEW prev, Armed(b, a, entries, prev)
             PROVE  Armed(b, a, entries, prev)'
  OBVIOUS
<1>1. \A r \in slotRisk', s \in Slots : Says(r[s], b, a, entries, prev)
  BY DEF Armed, SlotsFade, Says
<1> QED
  BY <1>1 DEF Armed, Kept, Says, IsActive

\* An account of the transaction changes while the after graph cannot be current.
LEMMA ArmedChange ==
  ASSUME StoresType, NEW b, NEW a, NEW entries \in SUBSET Owners, NEW prev, NEW o \in entries, NEW x,
         Armed(b, a, entries, prev), a \notin vaultRisk,
         target' = With(target, o, x),
         UNCHANGED <<vaultRisk, backup, slotRisk, belongs>>
  PROVE  Armed(b, a, entries, prev)'
<1>1. \A q \in Owners : q # o => target'[q] = target[q]
  BY DEF With, StoresType, Accounts
<1>2. \A q \in Owners \ entries : target'[q] = target[q]
  BY <1>1
<1>3. \A q \in entries : Kept(b, prev, q)'
  BY DEF Armed, Kept
<1>4. \A r \in slotRisk', s \in Slots : Says(r[s], b, a, entries, prev)
  BY DEF Armed
<1> QED
  BY <1>2, <1>3, <1>4 DEF Armed, Kept, Says, IsActive

\* With the accounts of the after graph in place, that graph may become current.
LEMMA ArmedCommit ==
  ASSUME NEW b, NEW a, NEW entries, NEW prev, Armed(b, a, entries, prev),
         target = belongs[a], vaultRisk' \subseteq vaultRisk \cup {a},
         UNCHANGED <<target, backup, slotRisk, belongs>>
  PROVE  Armed(b, a, entries, prev)'
BY DEF Armed, Kept, Says, IsActive

\* An envelope among the slots of an armed transaction is that transaction's.
LEMMA ArmedSlot ==
  ASSUME JournalInv, NEW b, NEW a, NEW entries, NEW prev, Armed(b, a, entries, prev), NEW s \in Slots
  PROVE  /\ slot[s] # Missing
         /\ slot[s] \in Envelope => /\ slot[s].phase = "Active"
                                    /\ slot[s].before = b /\ slot[s].after = a
                                    /\ slot[s].entries = entries /\ slot[s].previous = prev
<1>1. Says(slot[s], b, a, entries, prev)
  BY DEF Armed, JournalInv
<1> QED
  BY <1>1, NotEnvelopes DEF Says, IsActive

\* A slot that is missing, or says anything but Active, shows that the accounts agree.
LEMMA SettledBySlot ==
  ASSUME JournalInv, AccountsInv, NEW s \in Slots,
         slot[s] = Missing \/ (slot[s] \in Envelope /\ slot[s].phase # "Active")
  PROVE  Settled
BY ArmedSlot DEF AccountsInv

\* Steps that leave the accounts alone.
LEMMA QuietAccounts ==
  ASSUME AccountsInv, SlotsFade, vaultRisk' \subseteq vaultRisk, UNCHANGED <<target, backup, belongs>>
  PROVE  AccountsInv'
<1>1. CASE Settled
  BY <1>1, SettledKept DEF AccountsInv
<1>2. CASE ~Settled
  BY <1>2, ArmedKept DEF AccountsInv
<1> QED
  BY <1>1, <1>2

\* The recorded states keep their meaning while accounts are only deleted from the backup.
LEMMA RecordsKept ==
  ASSUME StoresType, NEW e \in Envelope, Records(e), planned <= planned', planned' \in Nat,
         \A g \in Graphs : g <= planned => belongs'[g] = belongs[g],
         \A o \in Owners : backup'[o] \in {backup[o], NoSecret}
  PROVE  Records(e)'
<1>1. e.before \in Graphs /\ e.before <= planned /\ e.entries \subseteq Owners
  BY DEF Envelope, Records
<1>2. e.before <= planned'
  BY <1>1, GraphsAssumption DEF StoresType
<1>3. belongs'[e.before] = belongs[e.before]
  BY <1>1
<1>4. ASSUME NEW o \in e.entries PROVE Restorable(e.before, e.previous, o)'
  <2>1. Restorable(e.before, e.previous, o) /\ backup'[o] \in {backup[o], NoSecret}
    BY <1>1 DEF Records
  <2> QED
    BY <1>3, <2>1 DEF Restorable
<1> QED
  BY <1>2, <1>4 DEF Records

\* Backups may go under an Active envelope, and change before there is one.
LEMMA JournalKept ==
  ASSUME StoresType, JournalInv, SlotsMove, planned <= planned', planned' \in Nat,
         \A g \in Graphs : g <= planned => belongs'[g] = belongs[g],
         \/ \A o \in Owners : backup'[o] \in {backup[o], NoSecret}
         \/ \A r \in slotRisk, s \in Slots : ~IsActive(r[s]),
         pc = "rename" => /\ handle \in Envelope /\ backup' = backup
                          /\ handle.phase = "Active" => Records(handle)
  PROVE  JournalInv'
<1>1. ASSUME NEW r \in slotRisk', NEW s \in Slots, r[s] \in Envelope
      PROVE  SlotFor(r[s].generation) = s /\ (r[s].phase = "Active" => Records(r[s])')
  <2>1. CASE \E q \in slotRisk : r[s] = q[s]
    <3>1. PICK q \in slotRisk : r[s] = q[s]
      BY <2>1
    <3>2. SlotFor(q[s].generation) = s /\ (q[s].phase = "Active" => Records(q[s]))
      BY <1>1, <3>1 DEF JournalInv
    <3>3. CASE \A o \in Owners : backup'[o] \in {backup[o], NoSecret}
      <4> DEFINE e == r[s]
      <4>1. e \in Envelope /\ (e.phase = "Active" => Records(e))
        BY <1>1, <3>1, <3>2
      <4> HIDE DEF e
      <4>2. e.phase = "Active" => Records(e)'
        BY <3>3, <4>1, RecordsKept
      <4> QED
        BY <3>1, <3>2, <4>2 DEF e
    <3>4. CASE ~IsActive(q[s])
      BY <1>1, <3>1, <3>2, <3>4 DEF IsActive
    <3> QED
      BY <3>3, <3>4
  <2>2. CASE pc = "rename" /\ s = SlotFor(handle.generation) /\ r[s] = handle
    <3>1. handle.phase = "Active" => \A e \in {handle} : Records(e)'
      BY <2>2, RecordsKept
    <3> QED
      BY <2>2, <3>1
  <2> QED
    BY <1>1, <2>1, <2>2, NotEnvelopes DEF SlotsMove
<1> QED
  BY <1>1 DEF JournalInv, SlotsMove

----------------------------------------------------------------------------
(* The journal keeps its meaning.                                          *)

LEMMA KeptRestores ==
  ASSUME NEW b, NEW prev, NEW o, Kept(b, prev, o)
  PROVE  Restorable(b, prev, o)
BY DEF Kept, Restorable

\* The envelope about to be written can be rolled back if it is Active.
LEMMA HandleRecords ==
  ASSUME StoresType, Control, Saga, Publishing
  PROVE  handle \in Envelope /\ (handle.phase = "Active" => Records(handle))
<1>1. handle \in Envelope /\ handle.phase = goal
  BY DEF Control, ControlType, Saga, StepInv, Publishing
<1>2. ASSUME goal = "Active" PROVE Records(handle)
  <2>1. Forwards
    BY <1>2 DEF Control, ControlFlow
  <2>2. /\ handle.before = plan.before /\ handle.entries = plan.owners /\ handle.previous = previous
        /\ plan.before < plan.after /\ plan.after <= planned
        /\ \A o \in plan.owners : Kept(plan.before, previous, o)
    BY <1>2, <2>1 DEF Saga, PlanInv, ForwardInv, Noted
  <2>3. \A o \in handle.entries : Restorable(handle.before, handle.previous, o)
    BY <2>2, KeptRestores
  <2>4. handle.before <= planned
    BY <2>2, GraphsAssumption DEF StoresType, Plan
  <2> QED
    BY <2>3, <2>4 DEF Records
<1> QED
  BY <1>1, <1>2

LEMMA JournalStays ==
  ASSUME slot \in slotRisk, UNCHANGED journal \/ SyncJournal
  PROVE  SlotsFade
BY DEF journal, SyncJournal, SlotsFade

LEMMA FadeMoves == SlotsFade => SlotsMove
BY DEF SlotsFade, SlotsMove

LEMMA PowerLossFades == PowerLoss => SlotsFade
BY DEF PowerLoss, SlotsFade

\* How the steps on the journal move its slots.
LEMMA JournalSteps ==
  ASSUME StoresType, Control, slot \in slotRisk,
         RemoveOldSlot \/ RenameTemp \/ SyncSlot \/ RemoveSlot \/ SyncRemoval
  PROVE  SlotsMove
<1>1. CASE UNCHANGED journal \/ SyncJournal
  BY <1>1, JournalStays, FadeMoves
<1>2. ASSUME NEW s \in Slots, SetSlot(s, Missing) PROVE SlotsMove
  BY <1>2, SetSlotMoves DEF SlotsMove
<1>3. CASE pc = "rename" /\ SetSlot(SlotFor(handle.generation), handle)
  BY <1>3, SlotForType, SetSlotMoves DEF SlotsMove
<1>4. CASE RemoveOldSlot
  BY <1>1, <1>2, <1>4, SlotForType DEF RemoveOldSlot, FailedPublication
<1>5. CASE RenameTemp
  BY <1>1, <1>3, <1>5 DEF RenameTemp, FailedPublication
<1>6. CASE SyncSlot \/ SyncRemoval
  BY <1>1, <1>6 DEF SyncSlot, SyncRemoval, FailedPublication
<1>7. CASE RemoveSlot
  BY <1>1, <1>2, <1>7, SlotForType DEF RemoveSlot
<1> QED
  BY <1>4, <1>5, <1>6, <1>7

\* No step leaves an Active envelope without a backup of what it may restore.
LEMMA JournalNext ==
  ASSUME StoresType, Control, Promises, Saga, [Next]_vars
  PROVE  JournalInv'
<1>r. /\ slot \in slotRisk /\ JournalInv /\ planned \in Nat
      /\ pc = "rename" => handle \in Envelope /\ (handle.phase = "Active" => Records(handle))
  BY HandleRecords, GraphsAssumption DEF Saga, JournalInv, StoresType, Publishing
<1>q. ASSUME UNCHANGED <<backup, belongs, planned>>, SlotsMove PROVE JournalInv'
  <2>1. \A o \in Owners : backup'[o] \in {backup[o], NoSecret}
    BY <1>q
  <2> QED
    BY <1>r, <1>q, <2>1, JournalKept
<1>1. CASE UNCHANGED vars
  BY <1>1, <1>r, <1>q, JournalStays, FadeMoves DEF vars, journal
<1>2. CASE \/ StartOperation \/ OperationOnly \/ BackedUp \/ PublishBlobs \/ Activate \/ CommitVault
           \/ ConfirmCommit \/ Mark \/ CleanedUp \/ RecoverPending \/ RolledBack \/ Recheck \/ Crash
           \/ \E o \in Owners : Mutate(o) \/ RollBack(o)
  <2>1. UNCHANGED <<backup, belongs, planned, journal>>
    BY <1>2 DEF StartOperation, OperationOnly, BackedUp, PublishBlobs, Activate, CommitVault,
                ConfirmCommit, Mark, CleanedUp, RecoverPending, RolledBack, Recheck, Crash, Mutate,
                RollBack, keyring, history
  <2> QED
    BY <1>r, <1>q, <2>1, JournalStays, FadeMoves
<1>3. CASE RemoveOldSlot \/ RenameTemp \/ SyncSlot \/ RemoveSlot \/ SyncRemoval
  <2>1. UNCHANGED <<backup, belongs, planned>>
    BY <1>3 DEF RemoveOldSlot, RenameTemp, SyncSlot, RemoveSlot, SyncRemoval, keyring, history
  <2> QED
    BY <1>3, <1>r, <1>q, <2>1, JournalSteps
<1>4. CASE PowerLoss
  BY <1>4, <1>q, PowerLossFades, FadeMoves DEF PowerLoss, keyring, history
<1>5. ASSUME NEW s \in Slots, DamageSlot(s) PROVE JournalInv'
  BY <1>5, <1>r, <1>q, DamageFades, FadeMoves DEF DamageSlot, keyring, history
<1>6. ASSUME NEW o \in Owners, BackUp(o) PROVE JournalInv'
  <2>1. \A r \in slotRisk, s \in Slots : ~IsActive(r[s])
    BY <1>6 DEF BackUp, Control, ControlFlow, Saga, ForwardInv
  <2>2. UNCHANGED <<belongs, planned, journal>> /\ pc # "rename"
    BY <1>6 DEF BackUp, history
  <2> QED
    BY <1>r, <2>1, <2>2, JournalStays, FadeMoves, JournalKept
<1>7. ASSUME NEW o \in Owners, CleanUp(o) PROVE JournalInv'
  <2>1. \A q \in Owners : backup'[q] \in {backup[q], NoSecret}
    BY <1>7 DEF CleanUp, StoresType, Accounts
  <2>2. UNCHANGED <<belongs, planned, journal>> /\ pc # "rename"
    BY <1>7 DEF CleanUp, history
  <2> QED
    BY <1>r, <2>1, <2>2, JournalStays, FadeMoves, JournalKept
<1>8. ASSUME UNCHANGED <<backup, journal>>, planned' = planned + 1,
             \E x : belongs' = [belongs EXCEPT ![planned + 1] = x]
      PROVE  JournalInv'
  <2>1. \A g \in Graphs : g <= planned => belongs'[g] = belongs[g]
    BY <1>8, <1>r, GraphsAssumption DEF StoresType
  <2>2. (\A o \in Owners : backup'[o] \in {backup[o], NoSecret}) /\ planned <= planned'
        /\ planned' \in Nat
    BY <1>8, <1>r
  <2> QED
    BY <1>8, <1>r, <2>1, <2>2, JournalStays, FadeMoves, JournalKept
<1>9. CASE PlainCommit
  BY <1>8, <1>9 DEF PlainCommit, keyring
<1>10. ASSUME NEW kind \in Kinds, NEW owners \in SUBSET Owners, NEW needs \in BOOLEAN,
              NEW value \in Accounts, Begin(kind, owners, value, needs)
       PROVE  JournalInv'
  BY <1>8, <1>10 DEF Begin, keyring
<1> QED
  BY <1>1, <1>2, <1>3, <1>4, <1>5, <1>6, <1>7, <1>9, <1>10 DEF Next, Forward, Step

----------------------------------------------------------------------------
(* The accounts agree, or the journal says how they will.                  *)

\* One account more of the after graph.
LEMMA MutateArms ==
  ASSUME StoresType, Control, Promises, Saga, NEW o \in Owners, Mutate(o)
  PROVE  Armed(plan.before, plan.after, plan.owners, previous) /\
         \A b, a, entries, prev :
           b = plan.before /\ a = plan.after /\ entries = plan.owners /\ prev = previous =>
             Armed(b, a, entries, prev)'
<1>1. pc = "mutate" /\ Forwards /\ o \in todo
  BY DEF Mutate, Control, ControlFlow
<1>2. /\ Armed(plan.before, plan.after, plan.owners, previous)
      /\ todo \subseteq plan.owners /\ plan.owners \in SUBSET Owners
  BY <1>1 DEF Saga, ForwardInv, PlanInv, Control, ControlType, StoresType, Plan
<1>3. plan.after \notin vaultRisk
  BY <1>1 DEF Promises, CommitInv, Uncommitted, BeforeCommit
<1>4. UNCHANGED <<vaultRisk, backup, slot, slotRisk, belongs>>
  BY DEF Mutate, vaultVars, journal, history
<1>5. target' = target \/ target' = With(target, o, plan.value[o])
  BY DEF Mutate, With
<1>6. SUFFICES ASSUME NEW b, NEW a, NEW entries, NEW prev,
                      b = plan.before, a = plan.after, entries = plan.owners, prev = previous
               PROVE  Armed(b, a, entries, prev)'
  BY <1>2
<1>7. o \in entries /\ entries \in SUBSET Owners /\ a \notin vaultRisk /\ Armed(b, a, entries, prev)
  BY <1>1, <1>2, <1>3, <1>6
<1>8. CASE target' = target
  BY <1>4, <1>7, <1>8, JournalStays, ArmedKept DEF Saga, JournalInv, journal
<1>9. CASE target' = With(target, o, plan.value[o])
  BY <1>4, <1>7, <1>9, ArmedChange
<1> QED
  BY <1>5, <1>8, <1>9

\* The graph that the accounts were written for.
LEMMA CommitArms ==
  ASSUME StoresType, Control, Promises, Saga, CommitVault
  PROVE  /\ Armed(plan.before, plan.after, plan.owners, previous)
         /\ target = belongs[plan.after]
         /\ \A b, a, entries, prev :
              b = plan.before /\ a = plan.after /\ entries = plan.owners /\ prev = previous =>
                Armed(b, a, entries, prev)'
<1>1. pc = "mutate" /\ Forwards /\ todo = {}
  BY DEF CommitVault, Control, ControlFlow
<1>2. /\ Armed(plan.before, plan.after, plan.owners, previous)
      /\ \A o \in plan.owners : target[o] = belongs[plan.after][o]
  BY <1>1 DEF Saga, ForwardInv, PlanInv, StoresType, Plan
<1>3. target = belongs[plan.after]
  <2>1. \A o \in Owners : target[o] = belongs[plan.after][o]
    BY <1>2 DEF Armed
  <2>2. target \in Accounts /\ belongs[plan.after] \in Accounts
    BY DEF StoresType, Plan
  <2> QED
    BY <2>1, <2>2 DEF Accounts
<1>4. UNCHANGED <<target, backup, slotRisk, belongs>>
  BY DEF CommitVault, keyring, journal, history
<1>5. vaultRisk' \subseteq vaultRisk \cup {plan.after}
  BY DEF CommitVault, VaultPublished, vaultVars
<1>6. \A b, a, entries, prev :
        b = plan.before /\ a = plan.after /\ entries = plan.owners /\ prev = previous =>
          Armed(b, a, entries, prev)'
  BY <1>2, <1>3, <1>4, <1>5, ArmedCommit
<1> QED
  BY <1>2, <1>3, <1>6

\* Rolling an account back leaves it as it is, or as it was.
LEMMA RollBackRestores ==
  ASSUME StoresType, Control, Saga, NEW o \in Owners, RollBack(o)
  PROVE  /\ o \in todo /\ o \in handle.entries /\ handle \in Envelope /\ pc = "rollback"
         /\ \/ Return("repair") /\ target' = target
            \/ Return("repair") /\ target' = With(target, o, belongs[handle.before][o])
            \/ /\ target' = With(target, o, belongs[handle.before][o])
               /\ todo' = todo \ {o}
               /\ UNCHANGED <<handle, pc, mode, previous, goal, then, result>>
<1>1. /\ pc = "rollback" /\ o \in todo /\ handle \in Envelope /\ todo \subseteq handle.entries
  BY DEF RollBack, Control, ControlType
<1>2. handle.previous[o] \in {"Absent", "BackedUp"}
      /\ Restorable(handle.before, handle.previous, o)
  <2>1. Restorable(handle.before, handle.previous, o)
    BY <1>1 DEF Saga, RollbackInv, Records
  <2>2. handle.previous[o] \in PreviousStates
    BY <1>1 DEF Envelope
  <2> QED
    BY <2>1, <2>2 DEF Restorable, PreviousStates
<1> DEFINE value == IF handle.previous[o] = "Absent" THEN NoSecret ELSE backup[o]
           restored == [target EXCEPT ![o] = value]
<1>3. \/ Return("repair") /\ target' = target
      \/ /\ ~(handle.previous[o] = "BackedUp" /\ backup[o] = NoSecret)
         /\ \/ /\ target' = restored /\ todo' = todo \ {o}
               /\ UNCHANGED <<handle, pc, mode, previous, goal, then, result>>
            \/ target' \in {target, restored} /\ Return("repair")
  BY DEF RollBack
<1>4. ASSUME ~(handle.previous[o] = "BackedUp" /\ backup[o] = NoSecret)
      PROVE  value = belongs[handle.before][o]
  BY <1>2, <1>4 DEF Restorable
<1> HIDE DEF value
<1> QED
  BY <1>1, <1>3, <1>4 DEF With

\* One account more of the before graph, from its backup.
LEMMA RollBackAccounts ==
  ASSUME StoresType, Control, Saga, NEW o \in Owners, RollBack(o)
  PROVE  /\ Settled => Settled'
         /\ \A b, a, entries, prev :
              b = handle.before /\ entries = handle.entries /\ Armed(b, a, entries, prev) =>
                Armed(b, a, entries, prev)'
<1>1. /\ o \in handle.entries /\ handle \in Envelope /\ vaultRisk = {handle.before}
      /\ target' = target \/ target' = With(target, o, belongs[handle.before][o])
  BY RollBackRestores DEF Saga, RollbackInv
<1>2. UNCHANGED <<vaultRisk, backup, slot, slotRisk, belongs>>
  BY DEF RollBack, vaultVars, journal, history
<1>3. ASSUME Settled PROVE Settled'
  <2>1. target = belongs[handle.before] /\ target \in Accounts
    BY <1>1, <1>3 DEF Settled, StoresType
  <2>2. target' = target
    BY <1>1, <2>1 DEF With, Accounts
  <2> QED
    BY <1>2, <1>3, <2>2, SettledKept
<1>4. ASSUME NEW b, NEW a, NEW entries, NEW prev,
             b = handle.before, entries = handle.entries, Armed(b, a, entries, prev)
      PROVE  Armed(b, a, entries, prev)'
  <2>1. o \in entries /\ entries \in SUBSET Owners /\ a \notin vaultRisk
    BY <1>1, <1>4 DEF Envelope, Armed
  <2>2. CASE target' = target
    BY <1>2, <1>4, <2>2, JournalStays, ArmedKept DEF Saga, JournalInv, journal
  <2>3. CASE target' = With(target, o, belongs[handle.before][o])
    BY <1>2, <1>4, <2>1, <2>3, ArmedChange
  <2> QED
    BY <1>1, <2>2, <2>3
<1> QED
  BY <1>3, <1>4

\* No step sets the accounts at odds with a graph unless the journal knows.
LEMMA AccountsNext ==
  ASSUME StoresType, Control, Promises, Saga, [Next]_vars
  PROVE  AccountsInv'
<1>r. /\ slot \in slotRisk /\ AccountsInv /\ vault \in vaultRisk
      /\ ~Unsettling => Settled
  BY DEF Saga, JournalInv, StepInv, Promises, CommitInv
<1>q. ASSUME SlotsFade, vaultRisk' \subseteq vaultRisk, UNCHANGED <<target, backup, belongs>>
      PROVE  AccountsInv'
  BY <1>r, <1>q, QuietAccounts
<1>s. ASSUME ~Unsettling, vaultRisk' \subseteq vaultRisk, UNCHANGED <<target, belongs>>
      PROVE  AccountsInv'
  BY <1>r, <1>s, SettledKept DEF AccountsInv
<1>1. CASE UNCHANGED vars
  BY <1>1, <1>r, <1>q, JournalStays DEF vars, journal
<1>2. CASE \/ StartOperation \/ OperationOnly \/ BackedUp \/ PublishBlobs \/ Activate
           \/ Mark \/ CleanedUp \/ RolledBack \/ Crash
  <2>1. UNCHANGED <<vaultRisk, target, backup, belongs, journal>>
    BY <1>2 DEF StartOperation, OperationOnly, BackedUp, PublishBlobs, Activate,
                Mark, CleanedUp, RolledBack, Crash, vaultVars, keyring, history
  <2> QED
    BY <1>r, <1>q, <2>1, JournalStays
<1>3. CASE ConfirmCommit \/ Recheck \/ RecoverPending
  <2>1. UNCHANGED <<target, backup, belongs, journal>>
    BY <1>3 DEF ConfirmCommit, Recheck, RecoverPending, keyring, history
  <2>2. vaultRisk' \subseteq vaultRisk
    <3>1. CASE ConfirmCommit \/ Recheck
      BY <1>r, <3>1 DEF ConfirmCommit, Recheck, VaultConfirmed, vaultVars
    <3>2. CASE RecoverPending
      BY <1>r, <3>2, RecoveryCases DEF RecoveryResumes, VaultConfirmed, vaultVars
    <3> QED
      BY <1>3, <3>1, <3>2
  <2> QED
    BY <1>r, <1>q, <2>1, <2>2, JournalStays
<1>4. CASE \/ RemoveOldSlot \/ RenameTemp \/ SyncSlot \/ RemoveSlot \/ SyncRemoval
           \/ \E o \in Owners : BackUp(o) \/ CleanUp(o)
  BY <1>4, <1>s DEF RemoveOldSlot, RenameTemp, SyncSlot, RemoveSlot, SyncRemoval, BackUp, CleanUp,
                    vaultVars, keyring, history, Unsettling
<1>5. CASE PowerLoss
  BY <1>5, <1>q, PowerLossFades DEF PowerLoss, keyring, history
<1>6. ASSUME NEW s \in Slots, DamageSlot(s) PROVE AccountsInv'
  BY <1>6, <1>r, <1>q, DamageFades DEF DamageSlot, vaultVars, keyring, history
<1>7. CASE (\E o \in Owners : Mutate(o)) \/ CommitVault
  <2>1. \A b, a, entries, prev :
          b = plan.before /\ a = plan.after /\ entries = plan.owners /\ prev = previous =>
            Armed(b, a, entries, prev)'
    BY <1>7, MutateArms, CommitArms
  <2>2. /\ plan.before \in Graphs /\ plan.after \in Graphs /\ plan.owners \in SUBSET Owners
        /\ previous \in [Owners -> PreviousStates]
    BY DEF StoresType, Plan, Control, ControlType
  <2> QED
    BY <2>1, <2>2 DEF AccountsInv
<1>8. ASSUME NEW o \in Owners, RollBack(o) PROVE AccountsInv'
  <2>1. CASE Settled
    BY <1>8, <2>1, RollBackAccounts DEF AccountsInv
  <2>2. CASE ArmedBy(handle)
    <3>1. /\ handle.before \in Graphs /\ handle.after \in Graphs /\ handle.entries \in SUBSET Owners
          /\ handle.previous \in [Owners -> PreviousStates]
      BY <1>8, RollBackRestores DEF Envelope
    <3> QED
      BY <1>8, <2>2, <3>1, RollBackAccounts DEF AccountsInv, ArmedBy
  <2> QED
    BY <1>8, <2>1, <2>2, RollBackRestores DEF Saga, RollbackInv
<1>9. ASSUME pc = "body", planned + 1 \in Graphs, target' = target,
             \A g \in Graphs : g # planned + 1 => belongs'[g] = belongs[g]
      PROVE  /\ \A g \in vaultRisk : belongs'[g] = belongs[g]
             /\ Settled /\ belongs[vault] = target
  <2>1. \A g \in vaultRisk : g \in Graphs /\ g # planned + 1
    BY GraphsAssumption DEF Promises, CommitInv, StoresType
  <2>2. Settled
    BY <1>r, <1>9 DEF Unsettling
  <2> QED
    BY <1>r, <1>9, <2>1, <2>2 DEF StoresType, Settled
<1>10. CASE PlainCommit
  <2>1. /\ pc = "body" /\ planned + 1 \in Graphs /\ UNCHANGED target
        /\ belongs' = [belongs EXCEPT ![planned + 1] = belongs[vault]]
        /\ vaultRisk' \subseteq vaultRisk \cup {planned + 1}
    BY <1>10, GraphsAssumption DEF PlainCommit, StoresType, keyring
  <2>2. /\ \A g \in Graphs : g # planned + 1 => belongs'[g] = belongs[g]
        /\ belongs'[planned + 1] = belongs[vault]
    BY <2>1 DEF StoresType
  <2>3. Settled'
    BY <1>9, <2>1, <2>2 DEF Settled
  <2> QED
    BY <2>3 DEF AccountsInv
<1>11. ASSUME NEW kind \in Kinds, NEW owners \in SUBSET Owners, NEW needs \in BOOLEAN,
              NEW value \in Accounts, Begin(kind, owners, value, needs)
       PROVE  AccountsInv'
  <2>1. /\ pc = "body" /\ planned + 1 \in Graphs /\ UNCHANGED target
        /\ \A g \in Graphs : g # planned + 1 => belongs'[g] = belongs[g]
        /\ vaultRisk' \subseteq vaultRisk
    BY <1>11, <1>r, GraphsAssumption DEF Begin, PlanningBase, StoresType, keyring
  <2>2. Settled /\ \A g \in vaultRisk : belongs'[g] = belongs[g]
    BY <1>9, <2>1
  <2>3. Settled'
    BY <2>1, <2>2, SettledKept
  <2> QED
    BY <2>3 DEF AccountsInv
<1> QED
  BY <1>1, <1>2, <1>3, <1>4, <1>5, <1>6, <1>7, <1>8, <1>10, <1>11 DEF Next, Forward, Step

----------------------------------------------------------------------------
(* Every step keeps the operation's record of the accounts.                *)

\* An operation that has ended, or that recovery takes over, needs none.
LEMMA Idles ==
  ASSUME pc' \in {"idle", "recover"}, mode' # "forward"
  PROVE  StepsInv'
BY DEF StepsInv, StepInv, PlanInv, ForwardInv, RollbackInv, Unsettling, Forwards, Publishing

\* Between operations the steps claim nothing.
LEMMA EndsIdle ==
  ASSUME \/ \E r : Return(r)
         \/ \E w \in {"fail", "giveUp", "post"} : Recover(w)
  PROVE  StepsInv'
<1>1. pc' \in {"idle", "recover"} /\ mode' # "forward"
  BY DEF Return, Recover
<1> QED
  BY <1>1, Idles

LEMMA FailsIdle ==
  ASSUME StoresType, Control, NEW c \in BOOLEAN, Fail(c)
  PROVE  StepsInv'
BY Fails, EndsIdle

LEMMA FailedPublicationIdle ==
  ASSUME StoresType, Control, Publishing, FailPublication
  PROVE  StepsInv'
BY PublicationFails, EndsIdle

\* A step of recovery, after which the accounts agree.
LEMMA Recovering ==
  ASSUME ~Forwards', Settled', pc' \notin {"rollback", "body", "syncOlder", "removeLatest", "syncLatest"},
         (Publishing \/ pc = "markAgain")' => (handle.phase = goal)'
  PROVE  StepsInv'
BY DEF StepsInv, StepInv, PlanInv, ForwardInv, RollbackInv

\* Recovery has ended well, and left no slot.
LEMMA RecoveredSteps ==
  ASSUME Control, Recovered, ~Forwards, Settled', \A s \in Slots : slot'[s] = Missing
  PROVE  StepsInv'
<1>1. mode \in {"start", "fail", "giveUp", "post"}
  BY DEF Control, ControlType, Forwards
<1>2. CASE mode \in {"start", "post"}
  <2>1. pc' \in {"body", "recheck"} /\ mode' = mode
    BY <1>2 DEF Recovered, Goto
  <2> QED
    BY <1>2, <2>1 DEF StepsInv, StepInv, PlanInv, ForwardInv, RollbackInv, Forwards, Publishing
<1>3. CASE mode \in {"fail", "giveUp"}
  BY <1>3, EndsIdle DEF Recovered
<1> QED
  BY <1>1, <1>2, <1>3

\* The plan stays as it is.
PlanStays == UNCHANGED <<plan, belongs, planned>>

\* The plan of a forward step that changes neither it nor the graphs at risk.
LEMMA PlanKept ==
  ASSUME PlanInv, PlanStays, Forwards' => Forwards, Forwards' => vaultRisk' = vaultRisk,
         BeforeCommit' => BeforeCommit,
         Forwards' => /\ handle'.before = handle.before /\ handle'.after = handle.after
                      /\ handle'.entries = handle.entries
  PROVE  PlanInv'
BY DEF PlanInv, PlanStays

LEMMA BeginSteps ==
  ASSUME StoresType, Control, Promises, Saga,
         NEW kind \in Kinds, NEW owners \in SUBSET Owners, NEW needs \in BOOLEAN,
         NEW value \in Accounts, Begin(kind, owners, value, needs)
  PROVE  StepsInv'
<1>1. /\ pc = "body" /\ planned + 1 \in Graphs /\ planned' = planned + 1 /\ planned \in Nat
      /\ vaultRisk' \subseteq vaultRisk /\ UNCHANGED <<target, backup, slot>>
  BY GraphsAssumption DEF Begin, PlanningBase, Promises, CommitInv, StoresType, keyring, journal
<1>2. /\ pc' = "remove" /\ mode' = "forward" /\ goal' = "Preparing" /\ then' = "backup"
      /\ handle'.phase = "Preparing" /\ handle'.generation = 1 /\ handle'.before = vault
      /\ handle'.after = planned + 1 /\ handle'.entries = owners
      /\ plan'.before = vault /\ plan'.after = planned + 1 /\ plan'.owners = owners
      /\ plan'.value = value
  BY DEF Begin
<1>3. /\ \A g \in Graphs : g # planned + 1 => belongs'[g] = belongs[g]
      /\ belongs'[planned + 1] = [o \in Owners |-> IF o \in owners THEN value[o] ELSE belongs[vault][o]]
  BY <1>1 DEF Begin, StoresType
<1>4. /\ Settled /\ vault \in vaultRisk /\ vault <= planned /\ \A s \in Slots : slot[s] = Missing
      /\ \A g \in vaultRisk : g \in Graphs /\ g # planned + 1
  BY <1>1, GraphsAssumption DEF Saga, StepInv, Unsettling, Promises, CommitInv, StoresType
<1>5. \A g \in vaultRisk : belongs'[g] = target /\ belongs[g] = target
  BY <1>3, <1>4 DEF Settled
<1>6. StepInv'
  BY <1>1, <1>2, <1>5 DEF StepInv, Settled
<1>7. PlanInv'
  <2>1. \A g \in vaultRisk' : belongs'[g] = belongs'[vault]
    BY <1>1, <1>4, <1>5
  <2>2. belongs'[vault] = belongs[vault]
    BY <1>4, <1>5
  <2>3. vault < planned + 1
    BY <1>1, <1>4, GraphsAssumption DEF StoresType
  <2> QED
    BY <1>1, <1>2, <1>3, <2>1, <2>2, <2>3 DEF PlanInv
<1>8. ForwardInv' /\ RollbackInv'
  BY <1>1, <1>2, <1>4 DEF ForwardInv, RollbackInv, Noted, Publishing, Marking, Slots
<1> QED
  BY <1>6, <1>7, <1>8 DEF StepsInv

\* A slot is removed or renamed: the other one stays.
LEMMA PublicationSteps ==
  ASSUME StoresType, Control, Promises, Saga, RemoveOldSlot \/ RenameTemp
  PROVE  StepsInv'
<1>1. /\ Publishing /\ handle \in Envelope
      /\ UNCHANGED <<vaultRisk, target, backup, plan, belongs, planned>>
  BY DEF RemoveOldSlot, RenameTemp, Publishing, Control, ControlType, vaultVars, keyring, history
<1>2. CASE FailedPublication
  BY <1>1, <1>2, FailedPublicationIdle DEF FailedPublication
<1>3. CASE ~FailedPublication
  <2>1. /\ pc' \in {"rename", "sync"}
        /\ UNCHANGED <<handle, mode, previous, todo, goal, then, result>>
        /\ \E v : SetSlot(SlotFor(handle.generation), v)
    BY <1>3 DEF RemoveOldSlot, RenameTemp, Goto
  <2>2. /\ OtherSlot(SlotFor(handle.generation)) # SlotFor(handle.generation)
        /\ handle.generation = 1 => SlotFor(handle.generation) = "A"
    BY <1>1, Parity DEF Envelope
  <2>3. \A s \in Slots : s # SlotFor(handle.generation) => slot'[s] = slot[s]
    BY <2>1 DEF SetSlot, StoresType
  <2>4. TheOtherSlot' = TheOtherSlot
    BY <2>1, <2>2, <2>3, SlotForType DEF TheOtherSlot
  <2>5. handle.generation = 1 => slot'["B"] = slot["B"]
    BY <2>2, <2>3 DEF Slots
  <2>6. StepInv'
    BY <1>1, <2>1 DEF Saga, StepInv, Unsettling, Settled, Publishing
  <2>7. PlanInv'
    BY <1>1, <2>1, PlanKept DEF Saga, PlanStays, BeforeCommit, Forwards, Publishing
  <2>8. ForwardInv'
    BY <1>1, <2>1, <2>4, <2>5 DEF Saga, ForwardInv, Forwards, Noted, Publishing, Says, Kept
  <2> QED
    BY <2>1, <2>6, <2>7, <2>8 DEF StepsInv, RollbackInv
<1> QED
  BY <1>2, <1>3

\* The journal directory is synced: what is visible is all that can be found.
LEMMA SyncSlotSteps ==
  ASSUME StoresType, Control, Promises, Saga, SyncSlot
  PROVE  StepsInv'
<1>1. /\ pc = "sync" /\ Publishing /\ handle \in Envelope /\ handle.phase = goal
      /\ UNCHANGED <<vaultRisk, target, backup, plan, belongs, planned>>
      /\ vault \in vaultRisk /\ Settled
  BY DEF SyncSlot, Publishing, Control, ControlType, vaultVars, keyring, history, Saga, StepInv,
         Unsettling, Promises, CommitInv
<1>2. CASE FailPublication
  BY <1>1, <1>2, FailedPublicationIdle
<1>3. CASE ~FailPublication
  <2> DEFINE s == SlotFor(handle.generation)
  <2>1. /\ slot' = slot /\ slotRisk' = {slot} /\ slot[s] = handle
        /\ pc' = then /\ UNCHANGED <<handle, mode, previous, goal, then, result>>
        /\ then \in {"backup", "mutate", "cleanup"} => todo' = handle.entries
    BY <1>3 DEF SyncSlot, FailedPublication, SyncJournal, Goto, Loop
  <2>2. /\ s \in Slots /\ \A t \in Slots : t = s \/ t = OtherSlot(s)
        /\ handle.generation = 1 => s = "A"
    BY <1>1, Parity DEF Envelope
  <2>3. Settled'
    BY <1>1, <2>1 DEF Settled
  <2>4. CASE ~Forwards
    <3>1. then \in {"markAgain", "cleanup"}
      BY <1>1, <2>4 DEF Control, ControlFlow
    <3> QED
      BY <1>1, <2>1, <2>3, <2>4, <3>1, Recovering DEF Forwards
  <2>5. CASE Forwards
    <3>1. \/ goal = "Preparing" /\ then = "backup"
          \/ goal = "BlobsDurable" /\ then \in {"markAgain", "activate"}
          \/ goal = "Active" /\ then \in {"activateAgain", "mutate"}
          \/ goal = "VaultDurable" /\ then \in {"markAgain", "cleanup"}
      BY <1>1, <2>5 DEF Control, ControlFlow
    <3>2. StepInv'
      BY <1>1, <2>1, <2>3, <3>1 DEF StepInv, Publishing
    <3>3. PlanInv'
      BY <1>1, <2>1, <2>5, <3>1, PlanKept DEF Saga, PlanStays, BeforeCommit, Forwards, Publishing,
                                              Marking
    <3>4. /\ handle.before = plan.before /\ handle.after = plan.after
          /\ handle.entries = plan.owners /\ plan.before # plan.after
          /\ \A o \in Owners : belongs[plan.after][o] =
               IF o \in plan.owners THEN plan.value[o] ELSE belongs[plan.before][o]
      BY <2>5, GraphsAssumption DEF Saga, PlanInv, StoresType, Plan
    <3>5. CASE then = "backup"
      <4>1. handle.phase = "Preparing" /\ handle.generation = 1 /\ slot["B"] = Missing
        BY <1>1, <2>5, <3>1, <3>5 DEF Saga, ForwardInv
      <4>2. \A r \in slotRisk', t \in Slots : ~IsActive(r[t])
        BY <2>1, <2>2, <4>1, NotEnvelopes DEF IsActive, Slots
      <4> QED
        BY <1>1, <2>1, <3>1, <3>2, <3>3, <3>4, <3>5, <4>2
           DEF StepsInv, ForwardInv, RollbackInv, Noted, Publishing, Marking
    <3>6. CASE then = "mutate"
      <4>1. /\ handle.phase = "Active" /\ handle.previous = previous
            /\ Says(TheOtherSlot, plan.before, plan.after, plan.owners, previous)
            /\ \A o \in plan.owners : Kept(plan.before, previous, o)
        BY <1>1, <2>5, <3>1, <3>6 DEF Saga, ForwardInv, Noted
      <4>2. \A t \in Slots : Says(slot[t], plan.before, plan.after, plan.owners, previous)
        BY <1>1, <2>1, <2>2, <3>4, <4>1 DEF Says, IsActive, TheOtherSlot
      <4>3. /\ belongs[vault] = belongs[plan.before] /\ target = belongs[vault]
            /\ \A g \in vaultRisk : g # plan.after /\ belongs[g] = belongs[plan.before]
        BY <1>1, <2>5, <3>1, <3>6 DEF Saga, PlanInv, BeforeCommit, Promises, CommitInv, Uncommitted,
                                      Settled
      <4>4. Armed(plan.before, plan.after, plan.owners, previous)'
        BY <1>1, <2>1, <3>4, <4>1, <4>2, <4>3 DEF Armed, Kept, Says, IsActive
      <4>5. \A o \in plan.owners : Kept(plan.before, previous, o)'
        BY <1>1, <2>1, <4>1 DEF Kept
      <4> QED
        BY <1>1, <2>1, <3>1, <3>2, <3>3, <3>4, <3>6, <4>1, <4>4, <4>5
           DEF StepsInv, ForwardInv, RollbackInv, Noted, Publishing, Marking
    <3>7. CASE then \notin {"backup", "mutate"}
      <4>1. Noted' => Noted
        BY <1>1, <2>1, <3>1, <3>7 DEF Noted, Publishing, Marking
      <4>2. \A o \in plan.owners : Kept(plan.before, previous, o) => Kept(plan.before, previous, o)'
        BY <1>1, <2>1 DEF Kept
      <4> QED
        BY <1>1, <2>1, <2>5, <3>1, <3>2, <3>3, <3>7, <4>1, <4>2
           DEF Saga, StepsInv, ForwardInv, RollbackInv, Publishing
    <3> QED
      BY <3>1, <3>5, <3>6, <3>7
  <2> QED
    BY <2>4, <2>5
<1> QED
  BY <1>2, <1>3

\* Each recorded previous state is the account before the transaction.
LEMMA BackUpSteps ==
  ASSUME StoresType, Control, Promises, Saga, NEW o \in Owners, BackUp(o)
  PROVE  StepsInv'
<1>1. /\ pc = "backup" /\ Forwards /\ o \in todo /\ todo \subseteq plan.owners
      /\ UNCHANGED <<vaultRisk, target, slot, slotRisk, plan, belongs, planned>>
  BY DEF BackUp, Control, ControlType, ControlFlow, vaultVars, journal, history, Saga, PlanInv
<1>2. CASE Fail(FALSE)
  BY <1>2, FailsIdle
<1>3. CASE ~Fail(FALSE)
  <2>1. /\ backup' = [backup EXCEPT ![o] = target[o]]
        /\ previous' = [previous EXCEPT ![o] = IF target[o] = NoSecret THEN "Absent" ELSE "BackedUp"]
        /\ todo' = todo \ {o}
        /\ UNCHANGED <<handle, pc, mode, goal, then, result>>
    BY <1>3 DEF BackUp
  <2>2. /\ backup'[o] = target[o]
        /\ previous'[o] = IF target[o] = NoSecret THEN "Absent" ELSE "BackedUp"
        /\ \A q \in Owners : q # o => backup'[q] = backup[q] /\ previous'[q] = previous[q]
    BY <2>1 DEF StoresType, Accounts, Control, ControlType
  <2>3. target = belongs[plan.before]
    BY <1>1 DEF Saga, StepInv, Unsettling, Settled, PlanInv, BeforeCommit, Promises, CommitInv
  <2>4. ASSUME NEW q \in plan.owners, q \notin todo' PROVE Kept(plan.before, previous, q)'
    <3>1. CASE q = o
      BY <1>1, <2>2, <2>3, <3>1 DEF Kept
    <3>2. CASE q # o
      <4>1. q \in Owners /\ q \notin todo
        BY <2>1, <2>4, <3>2 DEF StoresType, Plan
      <4>2. Kept(plan.before, previous, q)
        BY <1>1, <2>4, <4>1 DEF Saga, ForwardInv
      <4> QED
        BY <1>1, <2>2, <3>2, <4>1, <4>2 DEF Kept
    <3> QED
      BY <3>1, <3>2
  <2>5. StepInv' /\ RollbackInv'
    BY <1>1, <2>1 DEF Saga, StepInv, Unsettling, Settled, Publishing, RollbackInv
  <2>6. PlanInv'
    BY <1>1, <2>1, PlanKept DEF Saga, PlanStays, BeforeCommit, Forwards, Publishing, Marking
  <2>7. ForwardInv'
    BY <1>1, <2>1, <2>4 DEF Saga, ForwardInv, Noted, Publishing, Marking, IsActive
  <2> QED
    BY <2>5, <2>6, <2>7 DEF StepsInv
<1> QED
  BY <1>2, <1>3

\* Steps before the commit that leave the stores alone, with the previous states
\* recorded.
LEMMA NotedSteps ==
  ASSUME StoresType, Control, Saga, Forwards, BeforeCommit, ~Unsettling,
         \A o \in plan.owners : Kept(plan.before, previous, o),
         PlanStays,
         UNCHANGED <<vaultRisk, target, backup, slot, slotRisk, handle, mode, previous>>,
         pc' \in {"publishBlobs", "activate"} \/ (pc' = "mark" /\ goal' = "BlobsDurable")
  PROVE  StepsInv'
<1>1. \A o \in plan.owners : Kept(plan.before, previous, o)'
  BY DEF Kept, PlanStays
<1>2. StepInv' /\ RollbackInv'
  BY DEF Saga, StepInv, Settled, Publishing, RollbackInv, PlanStays
<1>3. PlanInv'
  BY PlanKept DEF Saga, Forwards
<1>4. ForwardInv'
  BY <1>1 DEF ForwardInv, Noted, Publishing, Marking, PlanStays
<1> QED
  BY <1>2, <1>3, <1>4 DEF StepsInv

LEMMA BackedUpSteps ==
  ASSUME StoresType, Control, Saga, BackedUp
  PROVE  StepsInv'
<1>1. /\ pc = "backup" /\ Forwards /\ todo = {} /\ PlanStays
      /\ UNCHANGED <<vaultRisk, target, backup, slot, slotRisk, handle, mode, previous>>
      /\ pc' \in {"publishBlobs", "activate"}
  BY DEF BackedUp, Goto, PlanStays, Control, ControlFlow, vaultVars, keyring, journal, history
<1>2. BeforeCommit /\ ~Unsettling /\ \A o \in plan.owners : Kept(plan.before, previous, o)
  BY <1>1 DEF Saga, ForwardInv, BeforeCommit, Unsettling
<1> QED
  BY <1>1, <1>2, NotedSteps

LEMMA PublishBlobsSteps ==
  ASSUME StoresType, Control, Saga, PublishBlobs
  PROVE  StepsInv'
<1>1. CASE Fail(FALSE)
  BY <1>1, FailsIdle
<1>2. CASE ~Fail(FALSE)
  <2>1. /\ pc = "publishBlobs" /\ Forwards /\ PlanStays
        /\ UNCHANGED <<vaultRisk, target, backup, slot, slotRisk, handle, mode, previous>>
        /\ pc' = "mark" /\ goal' = "BlobsDurable"
    BY <1>2 DEF PublishBlobs, PlanStays, Control, ControlFlow, keyring, journal, history
  <2>2. BeforeCommit /\ ~Unsettling /\ \A o \in plan.owners : Kept(plan.before, previous, o)
    BY <2>1 DEF Saga, ForwardInv, BeforeCommit, Unsettling, Noted
  <2> QED
    BY <2>1, <2>2, NotedSteps
<1> QED
  BY <1>1, <1>2

\* A new publication: the handle is in its slot, so the next one goes to the other.
LEMMA PublishSteps ==
  ASSUME StoresType, Control, Saga, ~Unsettling, Publishing => FALSE, handle \in Envelope,
         NEW phase \in Phases, NEW prev \in [Owners -> PreviousStates], NEW step,
         phase # "Preparing", PublishNext(phase, prev, step),
         PlanStays, UNCHANGED <<vaultRisk, target, backup, slot, slotRisk>>,
         Forwards /\ phase # "VaultDurable" => BeforeCommit,
         Forwards /\ phase \in {"BlobsDurable", "Active"} =>
           \A o \in plan.owners : Kept(plan.before, previous, o),
         Forwards /\ phase = "Active" => prev = previous,
         Forwards /\ step = "mutate" =>
           handle.phase = "Active" /\ handle.previous = previous
  PROVE  StepsInv'
<1>1. CASE Fail(goal = "VaultDurable")
  BY <1>1, FailsIdle
<1>2. CASE ~Fail(goal = "VaultDurable")
  <2>1. /\ handle' \in Envelope /\ pc' = "remove" /\ goal' = phase /\ then' = step
        /\ UNCHANGED <<mode, previous, todo, result>>
        /\ LoadEnvelope(slot) = handle
        /\ handle'.generation = handle.generation + 1 /\ handle'.phase = phase
        /\ handle'.previous = prev /\ handle'.entries = handle.entries
        /\ handle'.before = handle.before /\ handle'.after = handle.after
    BY <1>2, Publishes DEF Control, ControlType
  <2>2. StepInv' /\ RollbackInv'
    BY <2>1 DEF Saga, StepInv, Settled, Publishing, RollbackInv, PlanStays
  <2>3. PlanInv'
    BY <2>1, PlanKept DEF Saga, Forwards, BeforeCommit, Publishing, Marking
  <2>4. slot[SlotFor(handle.generation)] = handle
    BY <2>1, LoadedSlot DEF Saga
  <2>5. TheOtherSlot' = handle
    <3>1. handle.generation \in Nat
      BY DEF Envelope
    <3>2. OtherSlot(SlotFor(handle.generation + 1)) = SlotFor(handle.generation)
      BY <3>1, Parity
    <3> QED
      BY <2>1, <2>4, <3>2 DEF TheOtherSlot
  <2>6. Forwards /\ step = "mutate" => Says(TheOtherSlot, plan.before, plan.after, plan.owners, previous)'
    BY <2>1, <2>5 DEF Says, IsActive, Saga, PlanInv, PlanStays
  <2>7. Forwards /\ phase \in {"BlobsDurable", "Active"} =>
          \A o \in plan.owners : Kept(plan.before, previous, o)'
    BY <2>1 DEF Kept, PlanStays
  <2>8. ForwardInv'
    BY <2>1, <2>6, <2>7 DEF ForwardInv, Noted, Publishing, Marking, Forwards, PlanStays
  <2> QED
    BY <2>2, <2>3, <2>8 DEF StepsInv
<1> QED
  BY <1>1, <1>2

\* The first Active envelope, and the second that makes both slots say so.
LEMMA ActivateSteps ==
  ASSUME StoresType, Control, Saga, Activate
  PROVE  StepsInv'
<1>1. /\ pc \in {"activate", "activateAgain"} /\ Forwards /\ PlanStays /\ handle \in Envelope
      /\ UNCHANGED <<vaultRisk, target, backup, slot, slotRisk>>
      /\ previous \in [Owners -> PreviousStates]
  BY DEF Activate, PlanStays, Control, ControlType, ControlFlow, vaultVars, keyring, journal, history
<1>2. CASE Fail(FALSE)
  BY <1>2, FailsIdle
<1>3. /\ BeforeCommit /\ ~Unsettling /\ (Publishing => FALSE)
      /\ \A o \in plan.owners : Kept(plan.before, previous, o)
      /\ pc = "activateAgain" => handle.phase = "Active" /\ handle.previous = previous
  BY <1>1 DEF Saga, ForwardInv, BeforeCommit, Unsettling, Noted, Publishing
<1>4. CASE PublishNext("Active", previous, IF pc = "activate" THEN "activateAgain" ELSE "mutate")
  BY <1>1, <1>3, <1>4, PublishSteps DEF Phases
<1> QED
  BY <1>2, <1>4 DEF Activate

LEMMA MutateSteps ==
  ASSUME StoresType, Control, Promises, Saga, NEW o \in Owners, Mutate(o)
  PROVE  StepsInv'
<1>1. CASE Fail(FALSE)
  BY <1>1, FailsIdle
<1>2. CASE ~Fail(FALSE)
  <2>1. /\ pc = "mutate" /\ Forwards /\ PlanStays /\ o \in todo /\ todo' = todo \ {o}
        /\ target' = [target EXCEPT ![o] = plan.value[o]]
        /\ UNCHANGED <<vaultRisk, backup, slot, slotRisk, handle, pc, mode, previous, goal, then, result>>
    BY <1>2 DEF Mutate, PlanStays, Control, ControlFlow, vaultVars, journal, history
  <2>2. Armed(plan.before, plan.after, plan.owners, previous)'
    BY <2>1, MutateArms DEF PlanStays
  <2>3. \A q \in plan.owners \ todo' : target'[q] = plan.value[q]
    <3>1. plan.owners \subseteq Owners /\ target \in [Owners -> Secrets \cup {NoSecret}]
      BY DEF StoresType, Plan, Accounts
    <3>2. \A q \in plan.owners \ todo : target[q] = plan.value[q]
      BY <2>1 DEF Saga, ForwardInv
    <3> QED
      BY <2>1, <3>1, <3>2
  <2>4. StepInv' /\ RollbackInv'
    BY <2>1 DEF StepInv, RollbackInv, Unsettling, Publishing
  <2>5. PlanInv'
    BY <2>1, PlanKept DEF Saga, Forwards, BeforeCommit, Publishing, Marking
  <2>6. \A q \in plan.owners : Kept(plan.before, previous, q)'
    BY <2>1 DEF Saga, ForwardInv, Noted, Kept, PlanStays
  <2>7. ForwardInv'
    BY <2>1, <2>2, <2>3, <2>6 DEF Saga, ForwardInv, Publishing, Marking, PlanStays, Forwards
  <2> QED
    BY <2>4, <2>5, <2>7 DEF StepsInv
<1> QED
  BY <1>1, <1>2

\* The after graph, whose accounts are in place.
LEMMA CommitSteps ==
  ASSUME StoresType, Control, Promises, Saga, CommitVault
  PROVE  StepsInv'
<1>1. CASE Fail(FALSE)
  BY <1>1, FailsIdle
<1>2. CASE ~Fail(FALSE)
  <2>1. /\ pc = "mutate" /\ Forwards /\ PlanStays /\ pc' = "confirm"
        /\ UNCHANGED <<target, backup, slot, slotRisk, handle, mode, previous, todo, goal, then, result>>
    BY <1>2 DEF CommitVault, Goto, PlanStays, Control, ControlFlow, keyring, journal, history
  <2>2. Armed(plan.before, plan.after, plan.owners, previous)' /\ target = belongs[plan.after]
    BY <2>1, CommitArms DEF PlanStays
  <2>3. StepInv' /\ RollbackInv'
    BY <2>1 DEF StepInv, RollbackInv, Unsettling, Publishing
  <2>4. PlanInv'
    BY <2>1 DEF Saga, PlanInv, PlanStays, Forwards, BeforeCommit, Publishing, Marking
  <2>5. \A q \in plan.owners : Kept(plan.before, previous, q)'
    BY <2>1 DEF Saga, ForwardInv, Noted, Kept, PlanStays
  <2>6. ForwardInv'
    BY <2>1, <2>2, <2>5 DEF Saga, ForwardInv, Publishing, Marking, PlanStays, Forwards
  <2> QED
    BY <2>3, <2>4, <2>6 DEF StepsInv
<1> QED
  BY <1>1, <1>2

\* Once the commit is confirmed, the accounts are those of the only graph at risk.
LEMMA ConfirmSteps ==
  ASSUME StoresType, Control, Promises, Saga, ConfirmCommit
  PROVE  StepsInv'
<1>1. CASE Fail(TRUE)
  BY <1>1, FailsIdle
<1>2. CASE ~Fail(TRUE)
  <2>1. /\ pc = "confirm" /\ Forwards /\ PlanStays /\ pc' = "mark" /\ goal' = "VaultDurable"
        /\ vaultRisk' = {plan.after}
        /\ UNCHANGED <<target, backup, slot, slotRisk, handle, mode, previous, todo, then, result>>
    BY <1>2 DEF ConfirmCommit, VaultConfirmed, PlanStays, Control, ControlFlow, keyring, journal, history
  <2>2. target = belongs[plan.after]
    BY <2>1 DEF Saga, ForwardInv
  <2>3. StepInv' /\ RollbackInv'
    BY <2>1, <2>2 DEF StepInv, RollbackInv, Settled, Publishing, PlanStays
  <2>4. PlanInv'
    BY <2>1 DEF Saga, PlanInv, PlanStays, Forwards, BeforeCommit, Publishing, Marking
  <2>5. ForwardInv'
    BY <2>1 DEF ForwardInv, Noted, Publishing, Marking
  <2> QED
    BY <2>3, <2>4, <2>5 DEF StepsInv
<1> QED
  BY <1>1, <1>2

LEMMA MarkSteps ==
  ASSUME StoresType, Control, Saga, Mark
  PROVE  StepsInv'
<1>1. /\ pc \in {"mark", "markAgain"} /\ PlanStays /\ handle \in Envelope /\ goal \in Phases
      /\ UNCHANGED <<vaultRisk, target, backup, slot, slotRisk>>
      /\ handle.previous \in [Owners -> PreviousStates]
      /\ Forwards => goal \in {"BlobsDurable", "VaultDurable"}
      /\ ~Forwards => goal \in {"RollbackTargetsRestored", "VaultDurable"}
      /\ Settled
  BY DEF Mark, PlanStays, Control, ControlType, ControlFlow, Marking, Envelope, vaultVars, keyring,
         journal, history, Saga, StepInv, Unsettling
<1>2. CASE Fail(goal = "VaultDurable")
  BY <1>2, FailsIdle
<1>3. /\ ~Unsettling /\ (Publishing => FALSE)
      /\ Forwards /\ goal # "VaultDurable" => BeforeCommit
      /\ Forwards /\ goal = "BlobsDurable" => \A o \in plan.owners : Kept(plan.before, previous, o)
  BY <1>1 DEF Saga, ForwardInv, BeforeCommit, Unsettling, Noted, Publishing, Marking
<1>4. ASSUME NEW step \in {"markAgain", "activate", "cleanup"},
             PublishNext(goal, handle.previous, step)
      PROVE  StepsInv'
  <2>1. goal # "Preparing" /\ goal # "Active" /\ step # "mutate"
    BY <1>1, <1>4
  <2> QED
    BY <1>1, <1>3, <1>4, <2>1, PublishSteps
<1>5. CASE Marked
  <2>1. UNCHANGED <<handle, mode, previous, goal, then, result>>
    BY <1>5 DEF Marked, Goto, Loop
  <2>2. CASE Forwards /\ goal = "BlobsDurable"
    <3>1. pc' = "activate"
      BY <1>5, <2>2 DEF Marked, Goto
    <3> QED
      BY <1>1, <1>3, <2>1, <2>2, <3>1, NotedSteps
  <2>3. CASE ~(Forwards /\ goal = "BlobsDurable")
    <3>1. pc' = "cleanup"
      BY <1>1, <1>5, <2>3 DEF Marked, Loop
    <3>2. StepInv' /\ RollbackInv' /\ ForwardInv'
      BY <1>1, <2>1, <3>1 DEF StepInv, RollbackInv, ForwardInv, Settled, Publishing, Marking, Noted,
                              PlanStays
    <3>3. PlanInv'
      BY <1>1, <2>1, <3>1, PlanKept DEF Saga, Forwards, BeforeCommit, Publishing, Marking
    <3> QED
      BY <3>2, <3>3 DEF StepsInv
  <2> QED
    BY <2>2, <2>3
<1> QED
  BY <1>2, <1>4, <1>5 DEF Mark, AfterMark

\* The steps of cleaning up that go on: the accounts agree, and nothing is noted.
LEMMA FinishingSteps ==
  ASSUME StoresType, Control, Saga, Finishing, pc' \in {"cleanup", "removeOlder"},
         PlanStays, UNCHANGED <<vaultRisk, target, handle, mode>>
  PROVE  StepsInv'
<1>1. Settled'
  BY DEF Saga, StepInv, Finishing, Unsettling, Settled, PlanStays
<1>2. StepInv' /\ RollbackInv' /\ ForwardInv'
  BY <1>1 DEF StepInv, RollbackInv, ForwardInv, Publishing, Marking, Noted
<1>3. PlanInv'
  BY PlanKept DEF Saga, Forwards, BeforeCommit, Publishing, Marking
<1> QED
  BY <1>2, <1>3 DEF StepsInv

LEMMA CleanUpSteps ==
  ASSUME StoresType, Control, Saga, CleanedUp \/ \E o \in Owners : CleanUp(o)
  PROVE  StepsInv'
<1>1. CASE Fail(TRUE)
  BY <1>1, FailsIdle
<1>2. CASE ~Fail(TRUE)
  <2>1. /\ pc = "cleanup" /\ pc' \in {"cleanup", "removeOlder"} /\ PlanStays
        /\ UNCHANGED <<vaultRisk, target, handle, mode>>
    BY <1>2 DEF CleanUp, CleanedUp, Goto, PlanStays, vaultVars, keyring, history
  <2> QED
    BY <2>1, FinishingSteps DEF Finishing
<1> QED
  BY <1>1, <1>2

LEMMA RemoveSlotSteps ==
  ASSUME StoresType, Control, Saga, RemoveSlot
  PROVE  StepsInv'
<1>1. CASE Fail(TRUE)
  BY <1>1, FailsIdle
<1>2. CASE ~Fail(TRUE)
  <2>1. /\ pc \in {"removeOlder", "removeLatest"} /\ PlanStays /\ handle \in Envelope /\ Settled
        /\ UNCHANGED <<vaultRisk, target, handle, mode, previous, goal>>
        /\ \/ pc = "removeOlder" /\ pc' = "syncOlder"
              /\ SetSlot(OtherSlot(SlotFor(handle.generation)), Missing)
           \/ pc = "removeLatest" /\ pc' = "syncLatest"
              /\ SetSlot(SlotFor(handle.generation), Missing)
    BY <1>2 DEF RemoveSlot, Goto, PlanStays, vaultVars, keyring, history, Control, ControlType, Saga,
                StepInv, Unsettling
  <2>2. /\ SlotFor(handle.generation) \in Slots /\ OtherSlot(SlotFor(handle.generation)) \in Slots
        /\ \A s \in Slots : s = SlotFor(handle.generation) \/ s = OtherSlot(SlotFor(handle.generation))
        /\ OtherSlot(SlotFor(handle.generation)) # SlotFor(handle.generation)
    BY <2>1, Parity DEF Envelope
  <2>3. Settled'
    BY <2>1 DEF Settled, PlanStays
  <2>4. CASE pc = "removeOlder"
    <3>1. TheOtherSlot' = Missing
      BY <2>1, <2>2, <2>4 DEF SetSlot, StoresType, TheOtherSlot
    <3> QED
      BY <2>1, <2>3, <2>4, <3>1, PlanKept
         DEF Saga, StepsInv, StepInv, RollbackInv, ForwardInv, Publishing, Marking, Noted, BeforeCommit,
             Forwards
  <2>5. CASE pc = "removeLatest"
    <3>1. TheOtherSlot = Missing
      BY <2>5 DEF Saga, StepInv
    <3>2. \A s \in Slots : slot'[s] = Missing
      BY <2>1, <2>2, <2>5, <3>1 DEF SetSlot, StoresType, TheOtherSlot
    <3> QED
      BY <2>1, <2>3, <2>5, <3>2, PlanKept
         DEF Saga, StepsInv, StepInv, RollbackInv, ForwardInv, Publishing, Marking, Noted, BeforeCommit,
             Forwards
  <2> QED
    BY <2>1, <2>4, <2>5
<1> QED
  BY <1>1, <1>2

\* The journal is gone from the disk.
LEMMA SyncRemovalSteps ==
  ASSUME StoresType, Control, Saga, SyncRemoval
  PROVE  StepsInv'
<1>1. CASE Fail(TRUE)
  BY <1>1, FailsIdle
<1>2. CASE ~Fail(TRUE)
  <2>1. /\ pc \in {"syncOlder", "syncLatest"} /\ PlanStays /\ Settled /\ slot' = slot
        /\ UNCHANGED <<vaultRisk, target>>
        /\ IF pc = "syncOlder" THEN Goto("removeLatest") ELSE Finished
    BY <1>2 DEF SyncRemoval, SyncJournal, PlanStays, vaultVars, keyring, history, Saga, StepInv,
                Unsettling
  <2>2. Settled'
    BY <2>1 DEF Settled, PlanStays
  <2>3. CASE pc = "syncOlder"
    <3>1. pc' = "removeLatest" /\ UNCHANGED <<handle, mode, previous, goal>>
      BY <2>1, <2>3 DEF Goto
    <3>2. TheOtherSlot' = Missing
      BY <2>1, <2>3, <3>1 DEF Saga, StepInv, TheOtherSlot
    <3> QED
      BY <2>1, <2>2, <2>3, <3>1, <3>2, PlanKept
         DEF Saga, StepsInv, StepInv, RollbackInv, ForwardInv, Publishing, Marking, Noted, BeforeCommit,
             Forwards
  <2>4. CASE pc = "syncLatest" /\ ~Forwards
    <3>1. \A s \in Slots : slot'[s] = Missing
      BY <2>1, <2>4 DEF Saga, StepInv
    <3>2. Recovered
      BY <2>1, <2>4 DEF Finished, Forwards
    <3> QED
      BY <2>2, <2>4, <3>1, <3>2, RecoveredSteps
  <2>5. CASE pc = "syncLatest" /\ Forwards
    BY <2>1, <2>5, EndsIdle DEF Finished, Forwards
  <2> QED
    BY <2>1, <2>3, <2>4, <2>5
<1> QED
  BY <1>1, <1>2

\* Recovery reads the journal, and decides an Active transaction by the Vault.
LEMMA RecoverySteps ==
  ASSUME StoresType, Control, Promises, Saga, RecoverPending
  PROVE  StepsInv'
<1> DEFINE e == LoadEnvelope(slot)
<1>1. /\ pc = "recover" /\ ~Forwards /\ PlanStays /\ vault \in vaultRisk /\ JournalInv /\ AccountsInv
      /\ UNCHANGED <<target, backup, slot, slotRisk>>
  BY DEF RecoverPending, PlanStays, Control, ControlFlow, keyring, journal, history, Saga, Promises,
         CommitInv
<1>2. vaultRisk' \subseteq vaultRisk
  BY <1>1, RecoveryCases DEF RecoveryResumes, VaultConfirmed, vaultVars
<1>3. Settled => Settled'
  BY <1>1, <1>2, SettledKept DEF PlanStays
<1>4. CASE Return("repair")
  BY <1>4, EndsIdle
<1>5. CASE e = Missing /\ Recovered
  <2>1. \A s \in Slots : slot[s] = Missing
    BY <1>5, LoadMissing DEF StoresType
  <2>2. Settled
    BY <1>1, <2>1, SettledBySlot DEF Slots
  <2> QED
    BY <1>1, <1>3, <1>5, <2>1, <2>2, RecoveredSteps
<1>6. CASE e \in Envelope /\ RecoveryResumes(e)
  <2>1. PICK s \in Slots : e = slot[s]
    BY <1>6, LoadEnvelopeType DEF StoresType
  <2>2. mode' = mode /\ ~Forwards'
    BY <1>1, <1>6 DEF RecoveryResumes, ResumeLoop, ResumeMark, Forwards
  <2> HIDE DEF e
  <2>3. e.phase # "Active" => Settled
    BY <1>1, <1>6, <2>1, SettledBySlot
  <2>4. CASE e.phase # "Active"
    <3>1. pc' \in {"cleanup", "mark"}
      BY <1>6, <2>4 DEF RecoveryResumes, ResumeLoop, ResumeMark
    <3> QED
      BY <1>3, <2>2, <2>3, <2>4, <3>1, Recovering DEF Publishing
  <2>5. CASE e.phase = "Active" /\ vault = e.after /\ ResumeMark(e, "VaultDurable")
    <3>1. pc' = "mark"
      BY <2>5 DEF ResumeMark
    <3>2. vaultRisk' = {vault}
      BY <1>6, <2>5 DEF RecoveryResumes, VaultConfirmed
    <3>3. ASSUME NEW b, NEW a, NEW entries, NEW prev, Armed(b, a, entries, prev)
          PROVE  Settled'
      <4>1. vault = a
        BY <1>1, <1>6, <2>1, <2>5, <3>3, ArmedSlot
      <4>2. target = belongs[vault]
        BY <1>1, <3>3, <4>1 DEF Armed
      <4> QED
        BY <1>1, <3>2, <4>2 DEF Settled, PlanStays
    <3>4. Settled'
      BY <1>1, <1>3, <3>3 DEF AccountsInv
    <3> QED
      BY <2>2, <3>1, <3>4, Recovering DEF Publishing
  <2>6. CASE e.phase = "Active" /\ vault = e.before /\ ResumeLoop(e, "rollback")
    <3>1. pc' = "rollback" /\ handle' = e /\ todo' = e.entries
      BY <2>6 DEF ResumeLoop
    <3>2. vaultRisk' = {vault}
      BY <1>6, <2>6 DEF RecoveryResumes, VaultConfirmed
    <3>3. Records(e)
      BY <1>1, <1>6, <2>1, <2>6 DEF JournalInv
    <3>4. Records(handle)'
      BY <1>1, <3>1, <3>3 DEF Records, Restorable, PlanStays
    <3>5. ASSUME NEW b, NEW a, NEW entries, NEW prev, Armed(b, a, entries, prev)
          PROVE  /\ e.before = b /\ e.after = a /\ e.entries = entries /\ e.previous = prev
                 /\ Armed(b, a, entries, prev)'
      <4>1. e.before = b /\ e.after = a /\ e.entries = entries /\ e.previous = prev
        BY <1>1, <1>6, <2>1, <3>5, ArmedSlot
      <4>2. Armed(b, a, entries, prev)'
        BY <1>1, <1>2, <3>5, JournalStays, ArmedKept DEF JournalInv, journal, PlanStays
      <4> QED
        BY <4>1, <4>2
    <3>6. Settled' \/ ArmedBy(handle)'
      <4>1. ASSUME NEW b, NEW a, NEW entries, NEW prev, Armed(b, a, entries, prev)
            PROVE  ArmedBy(handle)'
        <5>1. /\ handle'.before = b /\ handle'.after = a /\ handle'.entries = entries
              /\ handle'.previous = prev
          BY <3>1, <3>5, <4>1
        <5>2. Armed(b, a, entries, prev)'
          BY <3>5, <4>1
        <5> QED
          BY <5>1, <5>2 DEF ArmedBy
      <4> QED
        BY <1>1, <1>3, <4>1 DEF AccountsInv
    <3>7. RollbackInv'
      BY <2>6, <3>1, <3>2, <3>4, <3>6 DEF RollbackInv
    <3> QED
      BY <2>2, <3>1, <3>7 DEF StepsInv, StepInv, PlanInv, ForwardInv, Unsettling, Publishing
  <2> QED
    BY <1>6, <2>4, <2>5, <2>6 DEF RecoveryResumes
<1> HIDE DEF e
<1> QED
  BY <1>4, <1>5, <1>6, RecoveryCases DEF e

\* An account of the before graph is restored.
LEMMA RollBackSteps ==
  ASSUME StoresType, Control, Saga, NEW o \in Owners, RollBack(o)
  PROVE  StepsInv'
<1>1. /\ o \in todo /\ o \in handle.entries /\ handle \in Envelope /\ pc = "rollback" /\ ~Forwards
      /\ \/ Return("repair")
         \/ /\ target' = With(target, o, belongs[handle.before][o])
            /\ todo' = todo \ {o}
            /\ UNCHANGED <<handle, pc, mode, previous, goal, then, result>>
  BY RollBackRestores DEF Control, ControlFlow
<1>2. CASE Return("repair")
  BY <1>2, EndsIdle
<1>3. CASE ~Return("repair")
  <2>1. /\ target' = With(target, o, belongs[handle.before][o]) /\ todo' = todo \ {o}
        /\ UNCHANGED <<handle, pc, mode, previous, goal, then, result>>
        /\ PlanStays /\ UNCHANGED <<vaultRisk, backup>>
    BY <1>1, <1>3 DEF RollBack, PlanStays, vaultVars, history
  <2>2. /\ handle.phase = "Active" /\ Records(handle) /\ vaultRisk = {handle.before}
        /\ Settled \/ ArmedBy(handle)
        /\ \A q \in handle.entries \ todo : target[q] = belongs[handle.before][q]
    BY <1>1 DEF Saga, RollbackInv
  <2>3. Records(handle)'
    BY <2>1, <2>2 DEF Records, Restorable, PlanStays
  <2>4. Settled' \/ ArmedBy(handle)'
    <3>1. CASE Settled
      BY <3>1, RollBackAccounts
    <3>2. CASE ArmedBy(handle)
      <4>1. \A b, a, entries, prev :
              b = handle.before /\ entries = handle.entries /\ Armed(b, a, entries, prev) =>
                Armed(b, a, entries, prev)'
        BY RollBackAccounts
      <4> QED
        BY <2>1, <3>2, <4>1 DEF ArmedBy
    <3> QED
      BY <2>2, <3>1, <3>2
  <2>5. \A q \in handle.entries \ todo' : target'[q] = belongs[handle.before][q]
    <3>1. handle.entries \subseteq Owners
      BY <1>1 DEF Envelope
    <3> QED
      BY <2>1, <2>2, <3>1 DEF With, StoresType, Accounts
  <2>6. RollbackInv'
    BY <2>1, <2>2, <2>3, <2>4, <2>5 DEF RollbackInv, PlanStays
  <2> QED
    BY <1>1, <2>1, <2>6 DEF StepsInv, StepInv, PlanInv, ForwardInv, Unsettling, Publishing, Forwards
<1> QED
  BY <1>2, <1>3

\* Every account of the transaction is back: those of its before graph are in place.
LEMMA RolledBackSteps ==
  ASSUME StoresType, Control, Saga, RolledBack
  PROVE  StepsInv'
<1>1. /\ pc = "rollback" /\ todo = {} /\ handle \in Envelope /\ ~Forwards /\ PlanStays
      /\ pc' = "mark" /\ UNCHANGED <<vaultRisk, target, mode>>
  BY DEF RolledBack, PlanStays, Control, ControlType, ControlFlow, vaultVars, keyring, history
<1>2. /\ vaultRisk = {handle.before} /\ (Settled \/ ArmedBy(handle))
      /\ \A q \in handle.entries : target[q] = belongs[handle.before][q]
  BY <1>1 DEF Saga, RollbackInv
<1>3. CASE Settled
  <2>1. Settled'
    BY <1>1, <1>3 DEF Settled, PlanStays
  <2> QED
    BY <1>1, <2>1, Recovering DEF Forwards, Publishing
<1>4. CASE ArmedBy(handle)
  <2>1. \A q \in Owners : target[q] = belongs[handle.before][q]
    BY <1>2, <1>4 DEF ArmedBy, Armed
  <2>2. target = belongs[handle.before]
    BY <1>1, <2>1 DEF StoresType, Accounts, Envelope
  <2>3. Settled'
    BY <1>1, <1>2, <2>2 DEF Settled, PlanStays
  <2> QED
    BY <1>1, <2>3, Recovering DEF Forwards, Publishing
<1> QED
  BY <1>2, <1>3, <1>4

\* Damage takes an answer away from a slot that has one, and from no other.
LEMMA DamageSteps ==
  ASSUME StoresType, Control, Saga, NEW s \in Slots, DamageSlot(s)
  PROVE  StepsInv'
<1>1. /\ UNCHANGED <<vaultRisk, target, backup, control, result>> /\ PlanStays
      /\ slot[s].state = "valid" /\ slot' = [slot EXCEPT ![s] = Corrupt] /\ SlotsFade
  BY DamageFades DEF DamageSlot, vaultVars, keyring, history, PlanStays, Saga, JournalInv
<1>2. \A t \in Slots : slot[t] = Missing => slot'[t] = Missing
  BY <1>1 DEF StoresType, Missing
<1>3. \A t \in Slots : slot'[t] = slot[t] \/ slot'[t] = Corrupt
  BY <1>1 DEF StoresType
<1>4. ASSUME handle \in Envelope
      PROVE  OtherSlot(SlotFor(handle.generation)) \in Slots
  BY <1>4, Parity DEF Envelope
<1>5. ArmedBy(handle) => ArmedBy(handle)'
  BY <1>1, ArmedKept DEF ArmedBy, control, PlanStays
<1>6. StepInv'
  BY <1>1, <1>2, <1>4 DEF Saga, StepInv, control, PlanStays, Unsettling, Settled, Publishing,
                          TheOtherSlot, Control, ControlType
<1>7. PlanInv'
  BY <1>1, PlanKept DEF Saga, control, Forwards, BeforeCommit, Publishing, Marking
<1>8. RollbackInv'
  BY <1>1, <1>5 DEF Saga, RollbackInv, control, PlanStays, Settled, Records, Restorable
<1>9. ASSUME Forwards PROVE ForwardInv'
  <2>1. \A r \in slotRisk', t \in Slots : IsActive(r[t]) => \E q \in slotRisk : IsActive(q[t])
    BY <1>1, NotEnvelopes DEF SlotsFade, IsActive
  <2>2. Armed(plan.before, plan.after, plan.owners, previous) =>
          Armed(plan.before, plan.after, plan.owners, previous)'
    BY <1>1, ArmedKept DEF control, PlanStays
  <2>3. TheOtherSlot' = TheOtherSlot \/ TheOtherSlot' = Corrupt
    BY <1>1, <1>3, <1>4, <1>9 DEF TheOtherSlot, control, Control, ControlType, ControlFlow
  <2>4. Says(TheOtherSlot, plan.before, plan.after, plan.owners, previous) =>
          Says(TheOtherSlot, plan.before, plan.after, plan.owners, previous)'
    BY <1>1, <2>3 DEF Says, IsActive, control, PlanStays
  <2>5. \A o \in plan.owners : Kept(plan.before, previous, o) => Kept(plan.before, previous, o)'
    BY <1>1 DEF Kept, control, PlanStays
  <2>6. slot["B"] = Missing => slot'["B"] = Missing
    BY <1>2 DEF Slots
  <2>7. \A r \in slotRisk', t \in Slots : IsActive(r[t])' <=> IsActive(r[t])
    BY DEF IsActive
  <2> QED
    BY <1>1, <1>9, <2>1, <2>2, <2>4, <2>5, <2>6, <2>7
       DEF Saga, ForwardInv, control, PlanStays, Publishing, Marking, Noted, Forwards
<1> QED
  BY <1>1, <1>6, <1>7, <1>8, <1>9 DEF StepsInv, ForwardInv, Forwards, control

\* Nothing happens.
LEMMA StepsStutter ==
  ASSUME StepsInv, UNCHANGED vars
  PROVE  StepsInv'
BY DEF vars, StepsInv, StepInv, PlanInv, ForwardInv, RollbackInv, Unsettling, Settled, Publishing,
       Marking, TheOtherSlot, Forwards, BeforeCommit, IsActive, Kept, Noted, Says, Armed, ArmedBy,
       Records, Restorable

\* Every step keeps what the steps rely on.
LEMMA StepsNext ==
  ASSUME StoresType, Control, Promises, Saga, [Next]_vars
  PROVE  StepsInv'
<1>1. CASE UNCHANGED vars
  BY <1>1, StepsStutter DEF Saga, StepsInv
<1>2. CASE StartOperation
  BY <1>2, Idles DEF StartOperation
<1>3. CASE OperationOnly \/ PlainCommit \/ Crash \/ PowerLoss \/ Recheck
  <2>1. \E r : Return(r)
    BY <1>3 DEF OperationOnly, PlainCommit, Crash, PowerLoss, Recheck
  <2> QED
    BY <2>1, EndsIdle
<1>4. ASSUME NEW o \in Owners, BackUp(o) \/ Mutate(o) \/ RollBack(o) PROVE StepsInv'
  BY <1>4, BackUpSteps, MutateSteps, RollBackSteps
<1>5. ASSUME NEW s \in Slots, DamageSlot(s) PROVE StepsInv'
  BY <1>5, DamageSteps
<1>6. ASSUME NEW kind \in Kinds, NEW owners \in SUBSET Owners, NEW needs \in BOOLEAN,
             NEW value \in Accounts, Begin(kind, owners, value, needs)
      PROVE  StepsInv'
  BY <1>6, BeginSteps
<1>7. CASE RemoveOldSlot \/ RenameTemp \/ SyncSlot \/ BackedUp \/ PublishBlobs \/ Activate
  BY <1>7, PublicationSteps, SyncSlotSteps, BackedUpSteps, PublishBlobsSteps, ActivateSteps
<1>8. CASE CommitVault \/ ConfirmCommit \/ Mark \/ RecoverPending \/ RolledBack
  BY <1>8, CommitSteps, ConfirmSteps, MarkSteps, RecoverySteps, RolledBackSteps
<1>9. CASE CleanedUp \/ (\E o \in Owners : CleanUp(o)) \/ RemoveSlot \/ SyncRemoval
  BY <1>9, CleanUpSteps, RemoveSlotSteps, SyncRemovalSteps
<1> QED
  BY <1>1, <1>2, <1>3, <1>4, <1>5, <1>6, <1>7, <1>8, <1>9 DEF Next, Forward, Step

----------------------------------------------------------------------------
(* The saga of a transaction.                                              *)

SagaInv == PromiseInv /\ Saga

LEMMA SagaInit == Init => SagaInv
<1> SUFFICES ASSUME Init PROVE SagaInv
  OBVIOUS
<1>1. PromiseInv
  BY PromiseInvInit
<1>2. /\ vaultRisk = {0} /\ 0 \in Graphs /\ belongs[0] = target /\ slotRisk = {slot}
      /\ \A s \in Slots : slot[s] = Missing
      /\ pc = "idle" /\ mode = "start"
  BY GraphsAssumption DEF Init
<1>3. Settled
  BY <1>2 DEF Settled
<1>4. JournalInv
  BY <1>2, NotEnvelopes DEF JournalInv
<1>5. StepsInv
  BY <1>2 DEF StepsInv, StepInv, PlanInv, ForwardInv, RollbackInv, Unsettling, Publishing, Forwards
<1> QED
  BY <1>1, <1>3, <1>4, <1>5 DEF SagaInv, Saga, StepsInv, AccountsInv

LEMMA SagaNext == SagaInv /\ [Next]_vars => SagaInv'
<1> SUFFICES ASSUME SagaInv, [Next]_vars PROVE SagaInv'
  OBVIOUS
<1>1. StoresType /\ Control /\ Promises /\ Saga
  BY DEF SagaInv, PromiseInv, CTypeInv
<1>2. JournalInv' /\ AccountsInv' /\ StepsInv'
  BY <1>1, JournalNext, AccountsNext, StepsNext
<1>3. PromiseInv'
  BY PromiseInvNext DEF SagaInv
<1> QED
  BY <1>2, <1>3 DEF SagaInv, Saga, StepsInv

LEMMA SagaAlways == Spec => []SagaInv
<1> QED
  BY SagaInit, SagaNext, PTL DEF Spec

\* When recover_pending_legacy_import finds no envelope, run_saved_host_operation
\* goes on to use the stores: the accounts are then those of every graph that may
\* be current.
THEOREM StoresAlwaysAgree == Spec => []StoresAgree
<1>1. SagaInv => StoresAgree
  <2> SUFFICES ASSUME SagaInv, AtRest PROVE Settled
    BY DEF StoresAgree, Settled
  <2>1. \A s \in Slots : slot[s] = Missing
    BY LoadMissing DEF AtRest, NoTransaction, SagaInv, PromiseInv, CTypeInv, StoresType
  <2> QED
    BY <2>1, SettledBySlot DEF Slots, SagaInv, Saga
<1> QED
  BY <1>1, SagaAlways, PTL

\* Neither the writes of a transaction's accounts nor recovery's rollback overwrite
\* the last copy of a secret: whichever graph a load or a power loss makes current, each secret that
\* belongs to it is in its keyring account or in the backup account.
THEOREM NoSecretIsDestroyed == Spec => []NoSecretDestroyed
<1>1. ASSUME SagaInv, NEW g \in vaultRisk, NEW o \in Owners
      PROVE  belongs[g][o] = NoSecret \/ belongs[g][o] \in {target[o], backup[o]}
  <2>1. CASE Settled
    BY <2>1 DEF Settled
  <2>2. ASSUME NEW b, NEW a, NEW entries, NEW prev, Armed(b, a, entries, prev)
        PROVE  belongs[g][o] = NoSecret \/ belongs[g][o] \in {target[o], backup[o]}
    <3>1. belongs[g] = belongs[b] \/ belongs[g] = target
      BY <2>2 DEF Armed
    <3>2. o \in entries => belongs[b][o] \in {backup[o], NoSecret}
      BY <2>2 DEF Armed, Kept
    <3>3. o \notin entries => belongs[b][o] = target[o]
      BY <2>2 DEF Armed
    <3> QED
      BY <3>1, <3>2, <3>3
  <2> QED
    BY <1>1, <2>1, <2>2 DEF SagaInv, Saga, AccountsInv
<1>2. SagaInv => NoSecretDestroyed
  BY <1>1 DEF NoSecretDestroyed
<1> QED
  BY <1>2, SagaAlways, PTL

----------------------------------------------------------------------------
(* What is visible, and what stays recoverable.                            *)

NothingActive == \A r \in slotRisk, s \in Slots : ~IsActive(r[s])

\* No slot shows Active any more when the backup accounts are deleted.
VisibleInv ==
  /\ Finishing => \A s \in Slots : ~IsActive(slot[s])
  /\ Publishing /\ then = "cleanup" => ~IsActive(TheOtherSlot)

\* The backup accounts of a transaction that a slot shows as Active are there.
ExactInv ==
  \A s \in Slots : IsActive(slot[s]) =>
    \A o \in slot[s].entries : Kept(slot[s].before, slot[s].previous, o)

\* The slots r have an answer; it names every account with a backup; and a
\* transaction it may have to decide is at its before or after graph.
Answered(r) ==
  /\ \A s \in Slots : r[s] # Corrupt
  /\ LoadEnvelope(r) # Corrupt
  /\ \A o \in Owners : backup[o] # NoSecret =>
       LoadEnvelope(r) \in Envelope /\ o \in LoadEnvelope(r).entries
  /\ \A s \in Slots : IsActive(r[s]) /\ r[s].kind # "import" =>
       vaultRisk \subseteq {r[s].before, r[s].after}

\* What the operation knows of the slots, and of the backups.
HandleInv ==
  /\ Publishing =>
       IF goal = "Preparing" THEN NothingActive /\ backup = EmptyAccounts
       ELSE TheOtherSlot \in Envelope /\ ValidPair(TheOtherSlot, handle)
  /\ pc = "backup" => slotRisk = {slot} /\ LoadEnvelope(slot) = handle
  /\ pc \in {"removeOlder", "syncOlder", "removeLatest"} => slot[SlotFor(handle.generation)] = handle
  /\ pc = "removeLatest" => slotRisk = {slot}
  /\ pc \notin {"idle", "recover", "body", "recheck"} =>
       \A o \in Owners : backup[o] # NoSecret => o \in handle.entries
  /\ pc = "cleanup" => \A o \in Owners : backup[o] # NoSecret => o \in todo
  /\ pc \in {"removeOlder", "syncOlder", "removeLatest", "syncLatest"} => backup = EmptyAccounts

\* What the handle has of the plan.
OriginInv ==
  Forwards =>
    /\ handle.kind = plan.kind /\ handle.blobs = plan.blobs
    /\ handle.phase \in {"Preparing", "BlobsDurable"} => handle.previous = NothingRecorded
    /\ pc = "publishBlobs" \/ ((Publishing \/ Marking) /\ goal = "BlobsDurable") => plan.blobs
    /\ BeforeCommit /\ plan.kind # "import" => vaultRisk = {plan.before}

OrderInv ==
  /\ \A r \in slotRisk : Answered(r)
  /\ (\A s \in Slots : slot[s] = Missing) => NothingActive
  /\ HandleInv /\ OriginInv

----------------------------------------------------------------------------
(* Faults are counted, not forgotten.                                      *)

\* Only the fault actions count faults.
LEMMA FaultCounts ==
  ASSUME StoresType, [Next]_vars
  PROVE  UNCHANGED faults \/ \E f \in Faults : Fault(f)
<1>f. {"crash", "powerLoss", "keyring", "vaultSync", "journal", "damage"} \subseteq Faults
  BY DEF Faults
<1>1. CASE UNCHANGED vars
  BY <1>1 DEF vars
<1>2. CASE PlainCommit \/ PowerLoss \/ Crash \/ \E s \in Slots : DamageSlot(s)
  BY <1>2, <1>f DEF PlainCommit, PowerLoss, Crash, DamageSlot
<1>3. ASSUME NEW kind \in Kinds, NEW owners \in SUBSET Owners, NEW needs \in BOOLEAN,
             NEW value \in Accounts, Begin(kind, owners, value, needs)
      PROVE  UNCHANGED faults
  BY <1>3 DEF Begin
<1>4. CASE RemoveOldSlot \/ RenameTemp \/ SyncSlot \/ RemoveSlot \/ SyncRemoval
  BY <1>4, <1>f DEF RemoveOldSlot, RenameTemp, SyncSlot, RemoveSlot, SyncRemoval, FailedPublication
<1>5. CASE \E o \in Owners : BackUp(o) \/ Mutate(o) \/ CleanUp(o) \/ RollBack(o)
  BY <1>5, <1>f DEF BackUp, Mutate, CleanUp, RollBack
<1>6. CASE PublishBlobs \/ CommitVault \/ ConfirmCommit \/ Recheck
  BY <1>6, <1>f DEF PublishBlobs, CommitVault, VaultPublished, ConfirmCommit, Recheck
<1>7. CASE RecoverPending
  BY <1>7, <1>f, RecoveryCases DEF RecoveryResumes
<1>8. CASE StartOperation \/ OperationOnly \/ BackedUp \/ Activate \/ Mark \/ CleanedUp \/ RolledBack
  BY <1>8 DEF StartOperation, OperationOnly, BackedUp, Activate, Mark, CleanedUp, RolledBack
<1> QED
  BY <1>1, <1>2, <1>3, <1>4, <1>5, <1>6, <1>7, <1>8 DEF Next, Forward, Step

\* A fault that has not happened did not happen in this step.
LEMMA FaultsGrow ==
  ASSUME StoresType, [Next]_vars, NEW f \in Faults, faults'[f] = 0
  PROVE  faults[f] = 0 /\ ~Fault(f)
<1>1. faults \in [Faults -> Nat]
  BY DEF StoresType
<1>2. ASSUME NEW g \in Faults, Fault(g) PROVE faults'[f] = IF g = f THEN faults[f] + 1 ELSE faults[f]
  BY <1>1, <1>2 DEF Fault
<1>3. ~Fault(f)
  BY <1>1, <1>2
<1>4. faults[f] = 0
  BY <1>1, <1>2, FaultCounts
<1> QED
  BY <1>3, <1>4

----------------------------------------------------------------------------
(* The two slots of a handle.                                              *)

\* The handle was in its slot, so the next envelope goes to the other one.
LEMMA PublishesOther ==
  ASSUME StoresType, JournalInv, handle \in Envelope, LoadEnvelope(slot) = handle, slot' = slot,
         handle'.generation = handle.generation + 1
  PROVE  TheOtherSlot' = handle
<1>1. slot[SlotFor(handle.generation)] = handle
  BY LoadedSlot
<1>2. OtherSlot(SlotFor(handle.generation + 1)) = SlotFor(handle.generation)
  BY Parity DEF Envelope
<1> QED
  BY <1>1, <1>2 DEF TheOtherSlot

\* A publication leaves the other slot alone.
LEMMA OtherStays ==
  ASSUME StoresType, handle \in Envelope, handle' = handle, NEW v,
         slot' = [slot EXCEPT ![SlotFor(handle.generation)] = v]
  PROVE  TheOtherSlot' = TheOtherSlot /\ slot'[SlotFor(handle.generation)] = v
<1>1. OtherSlot(SlotFor(handle.generation)) # SlotFor(handle.generation)
  BY Parity DEF Envelope
<1> QED
  BY <1>1, SlotForType DEF TheOtherSlot, StoresType

\* There are two slots.
LEMMA EverySlot ==
  ASSUME handle \in Envelope, NEW s \in Slots
  PROVE  s = SlotFor(handle.generation) \/ s = OtherSlot(SlotFor(handle.generation))
BY Parity DEF Envelope

----------------------------------------------------------------------------
(* No slot shows Active any more when the backup accounts are deleted.     *)

\* The older slot of an undecided import or of a preparation is not Active.
LEMMA QuietPair ==
  ASSUME NEW r \in [Slots -> SlotValues], LoadEnvelope(r) \in Envelope,
         LoadEnvelope(r).phase \in {"Preparing", "BlobsDurable"}
  PROVE  \A s \in Slots : ~IsActive(r[s])
<1>1. r["A"] \in SlotValues /\ r["B"] \in SlotValues
  BY DEF Slots
<1>2. \A o, n : ValidPair(o, n) /\ n.phase \in {"Preparing", "BlobsDurable"} => o.phase # "Active"
  BY DEF ValidPair, ValidTransition, SamePreviousPairs
<1>3. ~IsActive(r["A"]) /\ ~IsActive(r["B"])
  BY <1>1, <1>2, SlotStates, NotEnvelopes DEF LoadEnvelope, IsActive
<1> QED
  BY <1>3 DEF Slots

\* An operation that is neither finishing nor about to.
LEMMA VisibleElsewhere ==
  ASSUME ~Finishing', Publishing' => then' # "cleanup"
  PROVE  VisibleInv'
BY DEF VisibleInv

LEMMA VisibleFail ==
  ASSUME (\E r : Return(r)) \/ (\E w : Recover(w))
  PROVE  VisibleInv'
<1>1. pc' \in {"idle", "recover"}
  BY DEF Return, Recover
<1> QED
  BY <1>1, VisibleElsewhere DEF Finishing, Publishing

LEMMA VisibleRecovered ==
  ASSUME Recovered, Control, ~Forwards
  PROVE  VisibleInv'
<1>1. pc' \in {"idle", "body", "recheck"}
  BY DEF Recovered, Return, Goto, Control, ControlType, Forwards
<1> QED
  BY <1>1, VisibleElsewhere DEF Finishing, Publishing

\* A publication other than of the terminal phase's second copy.
LEMMA VisiblePublish ==
  ASSUME StoresType, Control, JournalInv, handle \in Envelope, slot' = slot,
         NEW phase \in Phases, NEW prev \in [Owners -> PreviousStates], NEW step,
         PublishNext(phase, prev, step),
         step = "cleanup" => handle.phase # "Active"
  PROVE  VisibleInv'
<1>1. CASE Fail(goal = "VaultDurable")
  BY <1>1, Fails, VisibleFail
<1>2. CASE ~Fail(goal = "VaultDurable")
  <2>1. /\ pc' = "remove" /\ then' = step /\ LoadEnvelope(slot) = handle
        /\ handle'.generation = handle.generation + 1
    BY <1>2, Publishes DEF Control, ControlType
  <2>2. TheOtherSlot' = handle
    BY <2>1, PublishesOther
  <2> QED
    BY <2>1, <2>2 DEF VisibleInv, Finishing, Publishing, IsActive
<1> QED
  BY <1>1, <1>2

\* No step makes an Active slot visible while backups are deleted.
LEMMA VisibleNext ==
  ASSUME StoresType, Control, Saga, VisibleInv, [Next]_vars
  PROVE  VisibleInv'
<1>j. JournalInv
  BY DEF Saga
<1>h. pc \notin {"idle", "recover", "body", "recheck"} => handle \in Envelope
  BY DEF Control, ControlType
<1>1. CASE UNCHANGED vars
  BY <1>1 DEF vars, VisibleInv, Finishing, Publishing, TheOtherSlot, IsActive
<1>2. CASE \/ OperationOnly \/ PlainCommit \/ Crash \/ PowerLoss \/ Recheck
  <2>1. \E r : Return(r)
    BY <1>2 DEF OperationOnly, PlainCommit, Crash, PowerLoss, Recheck
  <2> QED
    BY <2>1, VisibleFail
<1>3. ASSUME NEW kind \in Kinds, NEW owners \in SUBSET Owners, NEW needs \in BOOLEAN,
             NEW value \in Accounts, Begin(kind, owners, value, needs)
      PROVE  VisibleInv'
  BY <1>3, VisibleElsewhere DEF Begin, Finishing, Publishing
<1>4. CASE StartOperation \/ BackedUp \/ RolledBack
  <2>1. pc' \in {"recover", "publishBlobs", "activate", "mark"}
    BY <1>4 DEF StartOperation, BackedUp, RolledBack, Goto
  <2> QED
    BY <2>1, VisibleElsewhere DEF Finishing, Publishing
<1>5. ASSUME Fail(FALSE) \/ Fail(TRUE) PROVE VisibleInv'
  BY <1>5, Fails, VisibleFail
<1>6. CASE PublishBlobs \/ CommitVault \/ ConfirmCommit \/ \E o \in Owners : BackUp(o) \/ Mutate(o)
  <2>1. Fail(FALSE) \/ Fail(TRUE) \/ pc' \in {"mark", "confirm", "backup", "mutate"}
    BY <1>6 DEF PublishBlobs, CommitVault, ConfirmCommit, BackUp, Mutate, Goto
  <2> QED
    BY <1>5, <2>1, VisibleElsewhere DEF Finishing, Publishing
<1>7. ASSUME NEW o \in Owners, RollBack(o) PROVE VisibleInv'
  <2>1. Return("repair") \/ pc' = "rollback"
    BY <1>7, RollBackRestores
  <2> QED
    BY <2>1, VisibleFail, VisibleElsewhere DEF Finishing, Publishing
<1>8. CASE RemoveOldSlot \/ RenameTemp
  <2>1. CASE FailedPublication
    BY <1>8, <2>1, PublicationFails, VisibleFail
       DEF FailedPublication, RemoveOldSlot, RenameTemp, Publishing
  <2>2. CASE ~FailedPublication
    <3>1. /\ Publishing /\ pc' \in {"rename", "sync"} /\ UNCHANGED <<handle, then>>
          /\ \E v : slot' = [slot EXCEPT ![SlotFor(handle.generation)] = v]
      BY <1>8, <2>2 DEF RemoveOldSlot, RenameTemp, Goto, SetSlot, Publishing
    <3>2. TheOtherSlot' = TheOtherSlot
      BY <1>h, <3>1, OtherStays DEF Publishing
    <3> QED
      BY <3>1, <3>2 DEF VisibleInv, Finishing, Publishing, IsActive
  <2> QED
    BY <2>1, <2>2
<1>9. CASE SyncSlot
  <2>1. CASE FailPublication
    BY <1>9, <2>1, PublicationFails, VisibleFail DEF SyncSlot, Publishing
  <2>2. CASE ~FailPublication
    <3>1. /\ pc = "sync" /\ slot' = slot /\ slot[SlotFor(handle.generation)] = handle
          /\ pc' = then /\ UNCHANGED <<handle, then>>
      BY <1>9, <2>2 DEF SyncSlot, FailedPublication, SyncJournal, Goto, Loop
    <3>2. then \in {"backup", "markAgain", "activate", "activateAgain", "mutate", "cleanup"}
      BY <3>1 DEF Control, ControlFlow, Publishing, Forwards
    <3>3. CASE then = "cleanup"
      <4>1. handle.phase # "Active"
        BY <3>1, <3>3 DEF Control, ControlFlow, Publishing, Forwards, Saga, StepInv
      <4>2. \A s \in Slots : ~IsActive(slot[s])
        BY <1>h, <3>1, <3>3, <4>1, EverySlot DEF VisibleInv, Publishing, TheOtherSlot, IsActive
      <4> QED
        BY <3>1, <3>3, <4>2 DEF VisibleInv, Publishing, IsActive
    <3>4. CASE then # "cleanup"
      BY <3>1, <3>2, <3>4, VisibleElsewhere DEF Finishing, Publishing
    <3> QED
      BY <3>3, <3>4
  <2> QED
    BY <2>1, <2>2
<1>10. CASE Activate
  <2>1. /\ handle \in Envelope /\ previous \in [Owners -> PreviousStates] /\ slot' = slot
        /\ "Active" \in Phases
    BY <1>10, <1>h DEF Activate, Control, ControlType, journal, Phases
  <2> QED
    BY <1>5, <1>10, <1>j, <2>1, VisiblePublish DEF Activate
<1>11. CASE Mark
  <2>1. /\ handle \in Envelope /\ handle.previous \in [Owners -> PreviousStates] /\ slot' = slot
        /\ goal \in Phases /\ goal # "Active" /\ pc \in {"mark", "markAgain"}
        /\ pc = "markAgain" => handle.phase = goal
    BY <1>11, <1>h DEF Mark, Control, ControlType, ControlFlow, Marking, Forwards, journal, Envelope,
                       Saga, StepInv
  <2>2. CASE Marked /\ BothSlotsSay(slot, handle, goal)
    <3>1. pc' \in {"activate", "cleanup"}
      BY <2>2 DEF Marked, Goto, Loop
    <3>2. \A s \in Slots : ~IsActive(slot'[s])
      BY <2>1, <2>2 DEF BothSlotsSay, IsActive
    <3> QED
      BY <3>1, <3>2 DEF VisibleInv, Publishing, IsActive
  <2>3. CASE Fail(goal = "VaultDurable")
    BY <2>3, Fails, VisibleFail
  <2>4. CASE PublishNext(goal, handle.previous, IF pc = "mark" THEN "markAgain" ELSE AfterMark)
    BY <1>j, <2>1, <2>4, VisiblePublish
  <2> QED
    BY <1>11, <2>2, <2>3, <2>4 DEF Mark
<1>12. CASE CleanedUp \/ \E o \in Owners : CleanUp(o)
  <2>1. Fail(TRUE) \/ (pc = "cleanup" /\ pc' \in {"cleanup", "removeOlder"} /\ slot' = slot)
    BY <1>12 DEF CleanedUp, CleanUp, Goto, journal
  <2> QED
    BY <1>5, <2>1 DEF VisibleInv, Finishing, Publishing, IsActive
<1>13. CASE RemoveSlot
  <2>1. \/ Fail(TRUE)
        \/ /\ Finishing /\ pc' \in {"syncOlder", "syncLatest"}
           /\ \E s \in Slots : slot' = [slot EXCEPT ![s] = Missing]
    BY <1>13, SlotForType DEF RemoveSlot, SetSlot, Goto, Finishing
  <2>2. CASE ~Fail(TRUE)
    <3>1. \A s \in Slots : slot'[s] = slot[s] \/ slot'[s] = Missing
      BY <2>1, <2>2 DEF StoresType
    <3> QED
      BY <2>1, <2>2, <3>1, NotEnvelopes DEF VisibleInv, Publishing, IsActive
  <2> QED
    BY <1>5, <2>2
<1>14. CASE SyncRemoval
  <2>1. CASE Fail(TRUE)
    BY <1>5, <2>1
  <2>2. CASE pc = "syncOlder" /\ Goto("removeLatest") /\ slot' = slot
    BY <2>2 DEF Goto, VisibleInv, Finishing, Publishing, IsActive
  <2>3. CASE Finished
    BY <2>3, VisibleFail, VisibleRecovered DEF Finished, Forwards
  <2> QED
    BY <1>14, <2>1, <2>2, <2>3 DEF SyncRemoval, SyncJournal
<1>15. CASE RecoverPending
  <2>1. ~Forwards /\ slot' = slot
    BY <1>15 DEF RecoverPending, Control, ControlFlow, journal
  <2>2. CASE Recovered \/ Return("repair")
    BY <2>1, <2>2, VisibleFail, VisibleRecovered
  <2>3. CASE LoadEnvelope(slot) \in Envelope /\ RecoveryResumes(LoadEnvelope(slot))
    <3>1. CASE LoadEnvelope(slot).phase \in {"Preparing", "BlobsDurable"}
      <4>1. \A s \in Slots : ~IsActive(slot[s])
        BY <2>3, <3>1, QuietPair DEF StoresType
      <4>2. pc' = "cleanup"
        BY <2>3, <3>1 DEF RecoveryResumes, ResumeLoop
      <4> QED
        BY <2>1, <4>1, <4>2 DEF VisibleInv, Publishing, IsActive
    <3>2. CASE LoadEnvelope(slot).phase \notin {"Preparing", "BlobsDurable"}
      <4>1. pc' \in {"mark", "rollback"}
        BY <2>3, <3>2 DEF RecoveryResumes, ResumeLoop, ResumeMark
      <4> QED
        BY <4>1, VisibleElsewhere DEF Finishing, Publishing
    <3> QED
      BY <3>1, <3>2
  <2> QED
    BY <1>15, <2>2, <2>3, RecoveryCases
<1>16. ASSUME NEW s \in Slots, DamageSlot(s) PROVE VisibleInv'
  <2>1. /\ \A t \in Slots : slot'[t] = slot[t] \/ slot'[t] = Corrupt
        /\ UNCHANGED <<pc, then, handle>>
    BY <1>16 DEF DamageSlot, StoresType, control
  <2>2. \A t \in Slots : IsActive(slot'[t]) => IsActive(slot[t])
    BY <2>1, NotEnvelopes DEF IsActive
  <2> QED
    BY <2>1, <2>2, SlotForType DEF VisibleInv, Finishing, Publishing, TheOtherSlot, IsActive
<1> QED
  BY <1>1, <1>2, <1>3, <1>4, <1>6, <1>7, <1>8, <1>9, <1>10, <1>11, <1>12, <1>13, <1>14, <1>15, <1>16
     DEF Next, Forward, Step

----------------------------------------------------------------------------
(* Without a power loss, a rollback finds the backup accounts.             *)

\* An envelope whose accounts are all in the backup accounts.
Backed(e) == \A o \in e.entries : Kept(e.before, e.previous, o)

\* The graphs, the accounts' backups and the Active slots are as before.
LEMMA ExactKept ==
  ASSUME StoresType, JournalInv, ExactInv,
         \A g \in Graphs : g <= planned => belongs'[g] = belongs[g],
         \A s \in Slots : IsActive(slot'[s]) =>
           \/ slot'[s] = slot[s] /\ backup' = backup
           \/ slot'[s] = handle /\ Backed(handle) /\ UNCHANGED <<backup, belongs>>
  PROVE  ExactInv'
<1> SUFFICES ASSUME NEW s \in Slots, IsActive(slot'[s]), NEW o \in slot'[s].entries
             PROVE  Kept(slot[s].before, slot[s].previous, o)'
  BY DEF ExactInv, IsActive
<1>1. CASE slot'[s] = slot[s] /\ backup' = backup
  <2>1. Kept(slot[s].before, slot[s].previous, o)
    BY <1>1 DEF ExactInv
  <2>2. slot[s].before \in Graphs /\ slot[s].before <= planned
    BY <1>1 DEF JournalInv, Records, IsActive, Envelope
  <2>3. belongs'[slot[s].before] = belongs[slot[s].before]
    BY <2>2
  <2> QED
    BY <1>1, <2>1, <2>3 DEF Kept
<1>2. CASE slot'[s] = handle /\ Backed(handle) /\ UNCHANGED <<backup, belongs>>
  BY <1>2 DEF Backed, Kept
<1> QED
  BY <1>1, <1>2

\* The envelope about to be written can be rolled back if it is Active.
LEMMA HandleBacked ==
  ASSUME StoresType, Control, Saga, Publishing, IsActive(handle)
  PROVE  Backed(handle)
<1>1. handle.phase = goal /\ goal = "Active" /\ Forwards
  BY DEF IsActive, Saga, StepInv, Control, ControlFlow
<1>2. /\ handle.before = plan.before /\ handle.entries = plan.owners /\ handle.previous = previous
      /\ \A o \in plan.owners : Kept(plan.before, previous, o)
  BY <1>1 DEF Saga, PlanInv, ForwardInv, Noted
<1> QED
  BY <1>2 DEF Backed

\* Only a power loss can show an Active slot whose backups are gone.
LEMMA ExactNext ==
  ASSUME StoresType, Control, Promises, Saga, VisibleInv, ExactInv, [Next]_vars, ~PowerLoss
  PROVE  ExactInv'
<1>j. JournalInv
  BY DEF Saga
<1>q. ASSUME \A s \in Slots : IsActive(slot'[s]) => slot'[s] = slot[s], UNCHANGED <<backup, belongs>>
      PROVE  ExactInv'
  BY <1>j, <1>q, ExactKept
<1>m. ASSUME NEW s \in Slots, NEW v, ~IsActive(v), slot' = [slot EXCEPT ![s] = v]
      PROVE  \A t \in Slots : IsActive(slot'[t]) => slot'[t] = slot[t]
  BY <1>m DEF StoresType
<1>1. CASE UNCHANGED vars
  BY <1>1, <1>q DEF vars
<1>2. CASE \/ StartOperation \/ OperationOnly \/ BackedUp \/ PublishBlobs \/ Activate \/ CommitVault
           \/ ConfirmCommit \/ Mark \/ CleanedUp \/ RecoverPending \/ RolledBack \/ Recheck \/ Crash
           \/ \E o \in Owners : Mutate(o) \/ RollBack(o)
  <2>1. UNCHANGED <<backup, belongs, slot>>
    BY <1>2 DEF StartOperation, OperationOnly, BackedUp, PublishBlobs, Activate, CommitVault,
                ConfirmCommit, Mark, CleanedUp, RecoverPending, RolledBack, Recheck, Crash, Mutate,
                RollBack, keyring, history, journal
  <2> QED
    BY <1>q, <2>1
<1>3. CASE RemoveOldSlot \/ SyncSlot \/ RemoveSlot \/ SyncRemoval
  <2>1. UNCHANGED <<backup, belongs>>
    BY <1>3 DEF RemoveOldSlot, SyncSlot, RemoveSlot, SyncRemoval, keyring, history
  <2>2. slot' = slot \/ \E s \in Slots : slot' = [slot EXCEPT ![s] = Missing]
    BY <1>3, SlotForType DEF RemoveOldSlot, SyncSlot, RemoveSlot, SyncRemoval, SetSlot, SyncJournal,
                             FailedPublication, journal
  <2> QED
    BY <1>q, <1>m, <2>1, <2>2, NotEnvelopes DEF IsActive
<1>4. CASE RenameTemp
  <2>1. UNCHANGED <<backup, belongs>> /\ Publishing
    BY <1>4 DEF RenameTemp, keyring, history, Publishing
  <2>2. slot' = slot \/ slot' = [slot EXCEPT ![SlotFor(handle.generation)] = handle]
    BY <1>4 DEF RenameTemp, SetSlot, FailedPublication, journal
  <2>3. \A s \in Slots : IsActive(slot'[s]) => slot'[s] = slot[s] \/ (slot'[s] = handle /\ Backed(handle))
    BY <2>1, <2>2, HandleBacked DEF StoresType
  <2> QED
    BY <1>j, <2>1, <2>3, ExactKept
<1>5. ASSUME NEW s \in Slots, DamageSlot(s) PROVE ExactInv'
  <2>1. slot' = [slot EXCEPT ![s] = Corrupt] /\ UNCHANGED <<backup, belongs>>
    BY <1>5 DEF DamageSlot, keyring, history
  <2> QED
    BY <1>q, <1>m, <2>1, NotEnvelopes DEF IsActive
<1>6. CASE \E o \in Owners : BackUp(o) \/ CleanUp(o)
  <2>1. pc \in {"backup", "cleanup"} /\ UNCHANGED <<belongs, slot>>
    BY <1>6 DEF BackUp, CleanUp, history, journal
  <2>2. \A s \in Slots : ~IsActive(slot[s])
    BY <2>1 DEF VisibleInv, Finishing, Saga, ForwardInv, JournalInv, Control, ControlFlow
  <2> QED
    BY <2>1, <2>2 DEF ExactInv, IsActive
<1>7. ASSUME pc = "body", UNCHANGED slot PROVE ExactInv'
  BY <1>7, NotEnvelopes DEF Saga, StepInv, ExactInv, IsActive
<1>8. CASE PlainCommit
  BY <1>7, <1>8 DEF PlainCommit, journal
<1>9. ASSUME NEW kind \in Kinds, NEW owners \in SUBSET Owners, NEW needs \in BOOLEAN,
             NEW value \in Accounts, Begin(kind, owners, value, needs)
      PROVE  ExactInv'
  BY <1>7, <1>9 DEF Begin, journal
<1> QED
  BY <1>1, <1>2, <1>3, <1>4, <1>5, <1>6, <1>8, <1>9 DEF Next, Forward, Step

\* The saga, what is visible of it, and the backups while nothing visible is lost.
VisibleSaga ==
  /\ SagaInv /\ VisibleInv
  /\ faults["powerLoss"] = 0 => ExactInv

LEMMA VisibleSagaInit == Init => VisibleSaga
<1> SUFFICES ASSUME Init PROVE VisibleInv /\ ExactInv
  BY SagaInit DEF VisibleSaga
<1>1. pc = "idle" /\ \A s \in Slots : slot[s] = Missing
  BY DEF Init
<1> QED
  BY <1>1, NotEnvelopes DEF VisibleInv, ExactInv, Finishing, Publishing, IsActive

LEMMA VisibleSagaNext == VisibleSaga /\ [Next]_vars => VisibleSaga'
<1> SUFFICES ASSUME VisibleSaga, [Next]_vars PROVE VisibleSaga'
  OBVIOUS
<1>1. StoresType /\ Control /\ Promises /\ Saga /\ VisibleInv
  BY DEF VisibleSaga, SagaInv, PromiseInv, CTypeInv
<1>2. SagaInv' /\ VisibleInv'
  BY <1>1, SagaNext, VisibleNext DEF VisibleSaga
<1>3. ASSUME faults'["powerLoss"] = 0 PROVE ExactInv'
  <2>1. "powerLoss" \in Faults
    BY DEF Faults
  <2>2. faults["powerLoss"] = 0 /\ ~PowerLoss
    BY <1>1, <1>3, <2>1, FaultsGrow DEF PowerLoss
  <2> QED
    BY <1>1, <2>2, ExactNext DEF VisibleSaga
<1> QED
  BY <1>2, <1>3 DEF VisibleSaga

LEMMA VisibleSagaAlways == Spec => []VisibleSaga
BY VisibleSagaInit, VisibleSagaNext, PTL DEF Spec

\* As long as the power lasts, recovery never rolls an account back to anything
\* but its value in the before graph.
THEOREM RollbacksAreExact == Spec => [](faults["powerLoss"] = 0 => RollbackIsExact)
<1>1. VisibleSaga => (faults["powerLoss"] = 0 => RollbackIsExact)
  <2> DEFINE e == LoadEnvelope(slot)
  <2> SUFFICES ASSUME VisibleSaga, faults["powerLoss"] = 0, e.state = "valid", e.phase = "Active",
                      NEW o \in e.entries
               PROVE  belongs[e.before][o] = IF e.previous[o] = "BackedUp" THEN backup[o] ELSE NoSecret
    BY DEF RollbackIsExact
  <2>1. slot \in [Slots -> SlotValues] /\ ExactInv
    BY DEF VisibleSaga, SagaInv, PromiseInv, CTypeInv, StoresType
  <2>2. e \in Envelope /\ \E s \in Slots : e = slot[s]
    BY <2>1, LoadEnvelopeType, SlotStates
  <2> HIDE DEF e
  <2> QED
    BY <2>1, <2>2 DEF ExactInv, IsActive, Kept
<1> QED
  BY <1>1, VisibleSagaAlways, PTL

----------------------------------------------------------------------------
(* Slots with an answer.                                                   *)

\* load_envelope_internal with one slot present.
LEMMA LoadOne ==
  ASSUME NEW r \in [Slots -> SlotValues], NEW s \in Slots, r[s] \in Envelope, r[OtherSlot(s)] = Missing
  PROVE  LoadEnvelope(r) = r[s]
<1>1. r[s].state = "valid" /\ r[OtherSlot(s)].state # "valid"
  BY DEF Envelope, Missing
<1> QED
  BY <1>1 DEF LoadEnvelope, OtherSlot, Slots

\* load_envelope_internal with two slots that follow each other.
LEMMA LoadNewer ==
  ASSUME NEW r \in [Slots -> SlotValues], NEW s \in Slots, r[s] \in Envelope,
         r[OtherSlot(s)] \in Envelope, ValidPair(r[OtherSlot(s)], r[s])
  PROVE  LoadEnvelope(r) = r[s]
<1>1. r[s].state = "valid" /\ r[OtherSlot(s)].state = "valid"
  BY DEF Envelope
<1>2. ~ValidPair(r[s], r[OtherSlot(s)])
  <2>1. r[s].generation \in Nat /\ r[OtherSlot(s)].generation \in Nat
    BY DEF Envelope
  <2>2. r[s].generation = r[OtherSlot(s)].generation + 1
    BY DEF ValidPair
  <2>3. r[OtherSlot(s)].generation # r[s].generation + 1
    BY <2>1, <2>2
  <2> QED
    BY <2>3 DEF ValidPair
<1> QED
  BY <1>1, <1>2 DEF LoadEnvelope, OtherSlot, Slots

\* load_envelope_internal with both slots absent.
LEMMA LoadNothing ==
  ASSUME NEW r, \A s \in Slots : r[s] = Missing
  PROVE  LoadEnvelope(r) = Missing
BY DEF LoadEnvelope, Slots, Missing

\* Slots that show nothing show that there is no backup account.
LEMMA NoBackups ==
  ASSUME StoresType, slot \in slotRisk, \A r \in slotRisk : Answered(r),
         \A s \in Slots : slot[s] = Missing
  PROVE  backup = EmptyAccounts
<1>1. LoadEnvelope(slot) \notin Envelope
  BY LoadNothing, NotEnvelopes
<1>2. \A o \in Owners : backup[o] = NoSecret
  BY <1>1 DEF Answered
<1> QED
  BY <1>2 DEF StoresType, Accounts, EmptyAccounts

\* Fewer graphs at risk and fewer backups need no more answers.
LEMMA AnsweredKept ==
  ASSUME vaultRisk' \subseteq vaultRisk,
         \A o \in Owners : backup'[o] # NoSecret => backup[o] # NoSecret
  PROVE  \A r : Answered(r) => Answered(r)'
<1> SUFFICES ASSUME NEW r, Answered(r) PROVE Answered(r)'
  OBVIOUS
<1> QED
  BY DEF Answered, IsActive

\* Every pair of slots that may be found has an answer, and an empty one
\* follows no Active one.
AnswerInv ==
  /\ \A r \in slotRisk : Answered(r)
  /\ (\A s \in Slots : slot[s] = Missing) => NothingActive

\* Nothing is written to the journal.
LEMMA AnswersStay ==
  ASSUME AnswerInv, slot \in slotRisk, vaultRisk' \subseteq vaultRisk,
         \A o \in Owners : backup'[o] # NoSecret => backup[o] # NoSecret,
         UNCHANGED journal \/ (slot' \in slotRisk /\ slotRisk' = {slot'})
  PROVE  AnswerInv'
<1>1. \A r : Answered(r) => Answered(r)'
  BY AnsweredKept
<1>2. slotRisk' \subseteq slotRisk
  BY DEF journal
<1>3. \A r \in slotRisk' : Answered(r)'
  BY <1>1, <1>2 DEF AnswerInv
<1>4. ASSUME \A s \in Slots : slot'[s] = Missing PROVE NothingActive'
  <2>1. CASE UNCHANGED journal
    BY <1>4, <2>1 DEF AnswerInv, NothingActive, IsActive, journal
  <2>2. CASE slotRisk' = {slot'}
    BY <1>4, <2>2, NotEnvelopes DEF NothingActive, IsActive
  <2> QED
    BY <2>1, <2>2
<1> QED
  BY <1>3, <1>4 DEF AnswerInv

\* A slot changes, and the slots still have an answer.
LEMMA AnswersGrow ==
  ASSUME AnswerInv, ~Reordered, UNCHANGED <<vaultRisk, backup>>, NEW s, NEW v, SetSlot(s, v),
         Answered(slot'),
         (\A t \in Slots : slot'[t] = Missing) => NothingActive
  PROVE  AnswerInv'
<1>1. \A r : Answered(r) => Answered(r)'
  BY AnsweredKept
<1>2. slotRisk' = slotRisk \cup {slot'}
  BY DEF SetSlot
<1>3. \A r \in slotRisk' : Answered(r)
  BY <1>2 DEF AnswerInv
<1>4. \A r \in slotRisk' : Answered(r)'
  BY <1>1, <1>3
<1>5. ASSUME \A t \in Slots : slot'[t] = Missing PROVE NothingActive'
  BY <1>2, <1>5, NotEnvelopes DEF NothingActive, IsActive
<1> QED
  BY <1>4, <1>5 DEF AnswerInv

\* What is not Active needs no graph.
LEMMA AnsweredQuietly ==
  ASSUME NEW r, \A s \in Slots : r[s] # Corrupt /\ ~IsActive(r[s]), LoadEnvelope(r) # Corrupt,
         backup = EmptyAccounts
  PROVE  Answered(r)
BY DEF Answered, EmptyAccounts

\* What a publication leaves in the other slot, and knows of the accounts.
LEMMA PublicationGround ==
  ASSUME StoresType, Control, Saga, OrderInv, Publishing
  PROVE  /\ handle \in Envelope /\ handle.phase = goal
         /\ SlotFor(handle.generation) \in Slots /\ OtherSlot(SlotFor(handle.generation)) \in Slots
         /\ OtherSlot(SlotFor(handle.generation)) # SlotFor(handle.generation)
         /\ \A o \in Owners : backup[o] # NoSecret => o \in handle.entries
         /\ \/ /\ goal = "Preparing" /\ TheOtherSlot = Missing /\ NothingActive
               /\ backup = EmptyAccounts
            \/ /\ goal # "Preparing" /\ TheOtherSlot \in Envelope
               /\ ValidPair(TheOtherSlot, handle) /\ TheOtherSlot.entries = handle.entries
<1>1. handle \in Envelope /\ handle.phase = goal
  BY DEF Control, ControlType, Publishing, Saga, StepInv
<1>2. \A o \in Owners : backup[o] # NoSecret => o \in handle.entries
  BY DEF OrderInv, HandleInv, Publishing
<1>3. CASE goal = "Preparing"
  <2>1. Forwards /\ handle.generation = 1 /\ slot["B"] = Missing
    BY <1>3 DEF Control, ControlFlow, Saga, ForwardInv
  <2>2. TheOtherSlot = Missing
    BY <1>1, <2>1, Parity DEF TheOtherSlot, OtherSlot, Envelope
  <2> QED
    BY <1>1, <1>2, <1>3, <2>2, Parity DEF OrderInv, HandleInv, Envelope
<1>4. CASE goal # "Preparing"
  <2>1. TheOtherSlot \in Envelope /\ ValidPair(TheOtherSlot, handle)
    BY <1>4 DEF OrderInv, HandleInv
  <2>2. TheOtherSlot.entries = handle.entries
    BY <2>1 DEF ValidPair
  <2> QED
    BY <1>1, <1>2, <1>4, <2>1, <2>2, Parity DEF Envelope
<1> QED
  BY <1>3, <1>4

\* write_slot removes the older slot: the newer one still answers.
LEMMA AnswersRemove ==
  ASSUME StoresType, Control, Saga, OrderInv, ~Reordered, Publishing,
         UNCHANGED <<vaultRisk, backup>>, SetSlot(SlotFor(handle.generation), Missing)
  PROVE  AnswerInv'
<1> DEFINE s == SlotFor(handle.generation)
           x == slot'
<1>1. x \in [Slots -> SlotValues] /\ x = [slot EXCEPT ![s] = Missing] /\ slot \in slotRisk
  BY SlotForType DEF SetSlot, StoresType, SlotValues, Saga, JournalInv
<1>2. s \in Slots /\ x[s] = Missing /\ x[OtherSlot(s)] = TheOtherSlot
      /\ \A t \in Slots : t = s \/ t = OtherSlot(s)
  BY <1>1, PublicationGround, EverySlot DEF StoresType, TheOtherSlot
<1>3. AnswerInv /\ Answered(slot)
  BY <1>1 DEF OrderInv, AnswerInv
<1> HIDE DEF s, x
<1>4. CASE goal = "Preparing"
  <2>1. NothingActive /\ backup = EmptyAccounts /\ \A t \in Slots : x[t] = Missing
    BY <1>2, <1>4, PublicationGround
  <2>2. Answered(x)
    BY <2>1, AnsweredQuietly, LoadNothing, NotEnvelopes DEF IsActive
  <2> QED
    BY <1>3, <2>1, <2>2, AnswersGrow DEF x
<1>5. CASE goal # "Preparing"
  <2>1. /\ TheOtherSlot \in Envelope /\ TheOtherSlot.entries = handle.entries
        /\ \A o \in Owners : backup[o] # NoSecret => o \in handle.entries
    BY <1>5, PublicationGround
  <2>2. OtherSlot(s) \in Slots /\ OtherSlot(OtherSlot(s)) = s
    BY <1>2 DEF OtherSlot, Slots
  <2>3. LoadEnvelope(x) = TheOtherSlot
    BY <1>1, <1>2, <2>1, <2>2, LoadOne
  <2>4. \A t \in Slots : x[t] = Missing \/ x[t] = slot[t]
    BY <1>1 DEF StoresType
  <2>5. Answered(x)
    BY <1>3, <2>1, <2>3, <2>4, NotEnvelopes DEF Answered, IsActive
  <2>6. ~(\A t \in Slots : x[t] = Missing)
    BY <1>2, <2>1, <2>2, NotEnvelopes
  <2> QED
    BY <1>3, <2>5, <2>6, AnswersGrow DEF x
<1> QED
  BY <1>4, <1>5

\* write_slot renames the next envelope into place: it follows the other slot.
LEMMA AnswersRename ==
  ASSUME StoresType, Control, Promises, Saga, OrderInv, ~Reordered, Publishing,
         UNCHANGED <<vaultRisk, backup>>, SetSlot(SlotFor(handle.generation), handle)
  PROVE  AnswerInv'
<1> DEFINE s == SlotFor(handle.generation)
           x == slot'
<1>h. handle \in Envelope /\ handle.phase = goal
  BY PublicationGround
<1>1. x \in [Slots -> SlotValues] /\ x = [slot EXCEPT ![s] = handle] /\ slot \in slotRisk
  BY <1>h, SlotForType DEF SetSlot, StoresType, SlotValues, Saga, JournalInv
<1>2. s \in Slots /\ x[s] = handle /\ x[OtherSlot(s)] = TheOtherSlot
      /\ \A t \in Slots : t = s \/ t = OtherSlot(s)
  BY <1>1, PublicationGround, EverySlot DEF StoresType, TheOtherSlot
<1>3. AnswerInv /\ Answered(slot)
  BY <1>1 DEF OrderInv, AnswerInv
<1>4. \A o \in Owners : backup[o] # NoSecret => o \in handle.entries
  BY PublicationGround
<1>5. IsActive(handle) /\ handle.kind # "import" => vaultRisk \subseteq {handle.before, handle.after}
  <2>1. SUFFICES ASSUME goal = "Active", handle.kind # "import" PROVE vaultRisk = {handle.before}
    BY <1>h DEF IsActive
  <2>2. Forwards /\ BeforeCommit
    BY <2>1 DEF Control, ControlFlow, BeforeCommit
  <2> QED
    BY <2>1, <2>2 DEF OrderInv, OriginInv, Saga, PlanInv
<1> HIDE DEF s, x
<1>6. LoadEnvelope(x) = handle
  <2>1. CASE goal = "Preparing"
    BY <1>h, <1>1, <1>2, <2>1, PublicationGround, LoadOne
  <2>2. CASE goal # "Preparing"
    BY <1>h, <1>1, <1>2, <2>2, PublicationGround, LoadNewer
  <2> QED
    BY <2>1, <2>2
<1>7. \A t \in Slots : x[t] = handle \/ x[t] = slot[t]
  BY <1>1 DEF StoresType
<1>8. Answered(x)
  BY <1>h, <1>3, <1>4, <1>5, <1>6, <1>7, NotEnvelopes DEF Answered, IsActive
<1>9. ~(\A t \in Slots : x[t] = Missing)
  BY <1>h, <1>2, NotEnvelopes
<1> QED
  BY <1>3, <1>8, <1>9, AnswersGrow DEF x, s

\* finish: the slots that are left still have an answer.
LEMMA AnswersFinish ==
  ASSUME StoresType, Control, Saga, VisibleInv, OrderInv, ~Reordered, RemoveSlot, ~Fail(TRUE)
  PROVE  AnswerInv'
<1>1. /\ handle \in Envelope /\ pc \in {"removeOlder", "removeLatest"}
      /\ UNCHANGED <<vaultRisk, backup>> /\ slot \in slotRisk /\ backup = EmptyAccounts
      /\ slot[SlotFor(handle.generation)] = handle
      /\ \A s \in Slots : ~IsActive(slot[s])
      /\ AnswerInv /\ Answered(slot)
  BY DEF RemoveSlot, Control, ControlType, vaultVars, keyring, Saga, JournalInv, OrderInv, HandleInv,
         VisibleInv, Finishing, AnswerInv
<1> DEFINE s == SlotFor(handle.generation)
           x == slot'
<1>2. s \in Slots /\ OtherSlot(s) \in Slots /\ OtherSlot(s) # s
      /\ \A t \in Slots : t = s \/ t = OtherSlot(s)
  BY <1>1, Parity, EverySlot DEF Envelope
<1>3. CASE pc = "removeOlder"
  <2>1. SetSlot(OtherSlot(s), Missing) /\ x = [slot EXCEPT ![OtherSlot(s)] = Missing]
    BY <1>3 DEF RemoveSlot, SetSlot
  <2>2. x \in [Slots -> SlotValues]
    BY <2>1 DEF StoresType, SlotValues
  <2>3. x[s] = handle /\ x[OtherSlot(s)] = Missing
    BY <1>1, <1>2, <2>1 DEF StoresType
  <2> HIDE DEF s, x
  <2>4. LoadEnvelope(x) = handle
    BY <1>1, <1>2, <2>2, <2>3, LoadOne
  <2>5. \A t \in Slots : x[t] # Corrupt /\ ~IsActive(x[t])
    BY <1>1, <1>2, <2>3, NotEnvelopes DEF IsActive, s
  <2>6. Answered(x)
    BY <1>1, <2>4, <2>5, AnsweredQuietly, NotEnvelopes
  <2>7. ~(\A t \in Slots : x[t] = Missing)
    BY <1>1, <1>2, <2>3, NotEnvelopes
  <2> QED
    BY <1>1, <2>1, <2>6, <2>7, AnswersGrow DEF x
<1>4. CASE pc = "removeLatest"
  <2>1. SetSlot(s, Missing) /\ x = [slot EXCEPT ![s] = Missing]
    BY <1>4 DEF RemoveSlot, SetSlot
  <2>2. TheOtherSlot = Missing /\ slotRisk = {slot}
    BY <1>4 DEF Saga, StepInv, OrderInv, HandleInv
  <2>3. \A t \in Slots : x[t] = Missing
    BY <1>2, <2>1, <2>2 DEF StoresType, TheOtherSlot
  <2>4. NothingActive
    BY <1>1, <2>2 DEF NothingActive
  <2> HIDE DEF s, x
  <2>5. Answered(x)
    BY <1>1, <2>3, AnsweredQuietly, LoadNothing, NotEnvelopes DEF IsActive
  <2> QED
    BY <1>1, <2>1, <2>4, <2>5, AnswersGrow DEF x
<1> QED
  BY <1>1, <1>3, <1>4

\* An account is backed up that the only envelope names.
LEMMA AnswersBackUp ==
  ASSUME StoresType, Control, OrderInv, NEW o \in Owners, BackUp(o)
  PROVE  AnswerInv'
<1>1. /\ pc = "backup" /\ handle \in Envelope /\ o \in handle.entries
      /\ UNCHANGED <<vaultRisk, slot, slotRisk>> /\ slotRisk = {slot} /\ LoadEnvelope(slot) = handle
      /\ Answered(slot)
  BY DEF BackUp, Control, ControlType, vaultVars, journal, OrderInv, HandleInv
<1>2. \A q \in Owners : q # o => backup'[q] = backup[q]
  BY DEF BackUp, StoresType, Accounts
<1>3. Answered(slot)'
  BY <1>1, <1>2 DEF Answered, IsActive
<1>4. ~(\A s \in Slots : slot[s] = Missing)
  BY <1>1, LoadNothing, NotEnvelopes
<1> QED
  BY <1>1, <1>3, <1>4 DEF AnswerInv

\* The commit of the graph that every Active envelope names.
LEMMA AnswersCommit ==
  ASSUME StoresType, Control, Saga, OrderInv, CommitVault
  PROVE  AnswerInv'
<1>1. /\ pc = "mutate" /\ Forwards /\ UNCHANGED <<backup, slot, slotRisk>>
      /\ Armed(plan.before, plan.after, plan.owners, previous)
      /\ vaultRisk' \subseteq vaultRisk \cup {plan.after}
  BY DEF CommitVault, VaultPublished, vaultVars, keyring, journal, Control, ControlFlow, Saga, ForwardInv
<1>2. ASSUME NEW r \in slotRisk PROVE Answered(r)'
  <2>1. Answered(r)
    BY DEF OrderInv
  <2>2. ASSUME NEW s \in Slots, IsActive(r[s]) PROVE r[s].after = plan.after
    BY <1>1, <2>2, NotEnvelopes DEF Armed, Says, IsActive
  <2> QED
    BY <1>1, <2>1, <2>2 DEF Answered, IsActive
<1>3. (\A s \in Slots : slot[s] = Missing) => NothingActive
  BY DEF OrderInv
<1> QED
  BY <1>1, <1>2, <1>3 DEF AnswerInv, NothingActive, IsActive

LEMMA AnswersPlainCommit ==
  ASSUME StoresType, Control, Saga, OrderInv, PlainCommit
  PROVE  AnswerInv'
<1>1. NothingActive /\ UNCHANGED <<backup, slot, slotRisk>>
  BY DEF PlainCommit, OrderInv, Saga, StepInv, keyring, journal
<1>2. ASSUME NEW r \in slotRisk PROVE Answered(r)'
  BY <1>1, <1>2 DEF OrderInv, NothingActive, Answered, IsActive
<1> QED
  BY <1>1, <1>2 DEF AnswerInv, NothingActive, IsActive

\* Every step keeps an answer in all slot contents a power loss may leave.
LEMMA AnswersNext ==
  ASSUME StoresType, Control, Promises, Saga, VisibleInv, OrderInv, ~Reordered, [Next]_vars,
         ~(\E s \in Slots : DamageSlot(s))
  PROVE  AnswerInv'
<1>r. AnswerInv /\ slot \in slotRisk /\ vault \in vaultRisk
  BY DEF OrderInv, AnswerInv, Saga, JournalInv, Promises, CommitInv
<1>q. ASSUME vaultRisk' \subseteq vaultRisk, UNCHANGED backup,
             UNCHANGED journal \/ (slot' \in slotRisk /\ slotRisk' = {slot'})
      PROVE  AnswerInv'
  BY <1>r, <1>q, AnswersStay
<1>1. CASE UNCHANGED vars
  BY <1>1, <1>q DEF vars, journal
<1>2. CASE \/ StartOperation \/ OperationOnly \/ BackedUp \/ PublishBlobs \/ Activate \/ Mark
           \/ CleanedUp \/ RolledBack \/ Crash \/ \E o \in Owners : Mutate(o) \/ RollBack(o)
  <2>1. UNCHANGED <<vaultRisk, backup, journal>>
    BY <1>2 DEF StartOperation, OperationOnly, BackedUp, PublishBlobs, Activate, Mark, CleanedUp,
                RolledBack, Crash, Mutate, RollBack, vaultVars, keyring
  <2> QED
    BY <1>q, <2>1
<1>3. CASE ConfirmCommit \/ Recheck \/ RecoverPending
  <2>1. UNCHANGED <<backup, journal>>
    BY <1>3 DEF ConfirmCommit, Recheck, RecoverPending, keyring
  <2>2. vaultRisk' \subseteq vaultRisk
    <3>1. CASE ConfirmCommit \/ Recheck
      BY <1>r, <3>1 DEF ConfirmCommit, Recheck, VaultConfirmed, vaultVars
    <3>2. CASE RecoverPending
      BY <1>r, <3>2, RecoveryCases DEF RecoveryResumes, VaultConfirmed, vaultVars
    <3> QED
      BY <1>3, <3>1, <3>2
  <2> QED
    BY <1>q, <2>1, <2>2
<1>4. CASE RemoveOldSlot
  <2>1. Publishing /\ UNCHANGED <<vaultRisk, backup>>
    BY <1>4 DEF RemoveOldSlot, Publishing, vaultVars, keyring
  <2>2. CASE UNCHANGED journal
    BY <1>q, <2>1, <2>2
  <2> QED
    BY <1>4, <2>1, <2>2, AnswersRemove DEF RemoveOldSlot, FailedPublication
<1>5. CASE RenameTemp
  <2>1. Publishing /\ UNCHANGED <<vaultRisk, backup>>
    BY <1>5 DEF RenameTemp, Publishing, vaultVars, keyring
  <2>2. CASE UNCHANGED journal
    BY <1>q, <2>1, <2>2
  <2> QED
    BY <1>5, <2>1, <2>2, AnswersRename DEF RenameTemp, FailedPublication
<1>6. CASE SyncSlot \/ SyncRemoval
  <2>1. UNCHANGED <<vaultRisk, backup>>
    BY <1>6 DEF SyncSlot, SyncRemoval, vaultVars, keyring
  <2>2. UNCHANGED journal \/ (slot' = slot /\ slotRisk' = {slot})
    BY <1>6 DEF SyncSlot, SyncRemoval, SyncJournal, FailedPublication
  <2> QED
    BY <1>r, <1>q, <2>1, <2>2
<1>7. CASE RemoveSlot
  <2>1. CASE Fail(TRUE)
    <3>1. pc' \in {"idle", "recover"}
      BY <2>1, Fails DEF Return, Recover
    <3>2. UNCHANGED <<vaultRisk, backup, journal>>
      BY <1>7, <3>1 DEF RemoveSlot, Goto, vaultVars, keyring
    <3> QED
      BY <1>q, <3>2
  <2> QED
    BY <1>7, <2>1, AnswersFinish
<1>8. CASE PowerLoss
  BY <1>8, <1>q DEF PowerLoss, keyring
<1>9. ASSUME NEW o \in Owners, CleanUp(o) PROVE AnswerInv'
  <2>1. UNCHANGED <<vaultRisk, journal>>
    BY <1>9 DEF CleanUp, vaultVars
  <2>2. \A q \in Owners : backup'[q] # NoSecret => backup[q] # NoSecret
    BY <1>9 DEF CleanUp, StoresType, Accounts
  <2> QED
    BY <1>r, <2>1, <2>2, AnswersStay
<1>10. ASSUME NEW kind \in Kinds, NEW owners \in SUBSET Owners, NEW needs \in BOOLEAN,
              NEW value \in Accounts, Begin(kind, owners, value, needs)
       PROVE  AnswerInv'
  BY <1>10, <1>q, <1>r DEF Begin, PlanningBase, keyring
<1> QED
  BY <1>1, <1>2, <1>3, <1>4, <1>5, <1>6, <1>7, <1>8, <1>9, <1>10,
     AnswersBackUp, AnswersCommit, AnswersPlainCommit DEF Next, Forward, Step

----------------------------------------------------------------------------
(* What the operation knows of the slots, the backups and its plan.        *)

\* An operation that has ended, or that recovery takes over.
LEMMA HandleIdle ==
  ASSUME pc' \in {"idle", "recover", "body", "recheck"}
  PROVE  HandleInv'
BY DEF HandleInv, Publishing

LEMMA HandleFail ==
  ASSUME (\E r : Return(r)) \/ (\E w : Recover(w))
  PROVE  HandleInv'
BY HandleIdle DEF Return, Recover

LEMMA HandleFailed ==
  ASSUME StoresType, Control, NEW c \in BOOLEAN, Fail(c)
  PROVE  HandleInv'
BY Fails, HandleFail

\* The handle keeps its accounts on the way to a step that asks no more of it.
LEMMA HandleOn ==
  ASSUME HandleInv, pc \notin {"idle", "recover", "body", "recheck"}, UNCHANGED <<handle, backup>>,
         pc' \in {"publishBlobs", "activate", "activateAgain", "mutate", "confirm", "mark", "markAgain",
                  "rollback"}
  PROVE  HandleInv'
BY DEF HandleInv, Publishing

\* A loop over all accounts of the handle.
LEMMA HandleLoops ==
  ASSUME \A o \in Owners : backup[o] # NoSecret => o \in handle'.entries, backup' = backup,
         pc' \in {"cleanup", "mark", "rollback"}, pc' = "cleanup" => todo' = handle'.entries
  PROVE  HandleInv'
BY DEF HandleInv, Publishing

\* The next envelope follows the one in its slot.
LEMMA NextPair ==
  ASSUME NEW e \in Envelope, NEW n \in Envelope,
         n.generation = e.generation + 1, n.entries = e.entries, n.before = e.before,
         n.after = e.after, n.blobs = e.blobs, n.tx = e.tx,
         \/ n.previous = e.previous /\ <<e.phase, n.phase>> \in SamePreviousPairs
         \/ n.previous = e.previous /\ n.blobs /\ n.phase = "BlobsDurable"
            /\ e.phase \in {"Preparing", "BlobsDurable"}
         \/ n.phase = "Active" /\ e.phase = (IF n.blobs THEN "BlobsDurable" ELSE "Preparing")
            /\ EntriesActivate(e, n)
  PROVE  ValidPair(e, n)
BY DEF ValidPair, ValidTransition

\* The next envelope follows the current one.
LEMMA HandlePublishes ==
  ASSUME StoresType, Control, JournalInv, HandleInv, handle \in Envelope,
         pc \notin {"idle", "recover", "body", "recheck"},
         NEW phase \in Phases, NEW prev \in [Owners -> PreviousStates], NEW step,
         phase # "Preparing", PublishNext(phase, prev, step), UNCHANGED <<slot, backup>>,
         \/ prev = handle.previous /\ <<handle.phase, phase>> \in SamePreviousPairs
         \/ prev = handle.previous /\ handle.blobs /\ phase = "BlobsDurable"
            /\ handle.phase \in {"Preparing", "BlobsDurable"}
         \/ /\ phase = "Active" /\ handle.phase = ActivationSource
            /\ \A o \in handle.entries : handle.previous[o] = "Unknown" /\ prev[o] # "Unknown"
  PROVE  HandleInv'
<1>1. CASE Fail(goal = "VaultDurable")
  BY <1>1, HandleFailed
<1>2. CASE ~Fail(goal = "VaultDurable")
  <2>1. /\ handle' \in Envelope /\ pc' = "remove" /\ goal' = phase /\ LoadEnvelope(slot) = handle
        /\ handle'.generation = handle.generation + 1 /\ handle'.phase = phase
        /\ handle'.previous = prev /\ handle'.entries = handle.entries
        /\ handle'.before = handle.before /\ handle'.after = handle.after
        /\ handle'.blobs = handle.blobs /\ handle'.tx = handle.tx
    BY <1>2, Publishes DEF Control, ControlType
  <2>2. TheOtherSlot' = handle
    BY <2>1, PublishesOther
  <2> DEFINE n == handle'
  <2>3. ValidPair(handle, n)
    <3> HIDE DEF n
    <3> QED
      BY <2>1, NextPair DEF n, ActivationSource, EntriesActivate
  <2>4. ValidPair(TheOtherSlot, handle)'
    BY <2>2, <2>3
  <2> QED
    BY <2>1, <2>2, <2>4 DEF HandleInv, Publishing
<1> QED
  BY <1>1, <1>2

LEMMA HandleBegin ==
  ASSUME StoresType, Control, Saga, OrderInv,
         NEW kind \in Kinds, NEW owners \in SUBSET Owners, NEW needs \in BOOLEAN,
         NEW value \in Accounts, Begin(kind, owners, value, needs)
  PROVE  HandleInv'
<1>1. /\ pc' = "remove" /\ goal' = "Preparing" /\ UNCHANGED <<backup, slot, slotRisk>>
      /\ \A s \in Slots : slot[s] = Missing
  BY DEF Begin, keyring, journal, Saga, StepInv
<1>2. NothingActive /\ backup = EmptyAccounts
  BY <1>1, NoBackups DEF OrderInv, Saga, JournalInv
<1> QED
  BY <1>1, <1>2 DEF HandleInv, Publishing, NothingActive, IsActive, EmptyAccounts

LEMMA HandlePublication ==
  ASSUME StoresType, Control, Saga, OrderInv, ~Reordered, RemoveOldSlot \/ RenameTemp
  PROVE  HandleInv'
<1>1. CASE FailedPublication
  BY <1>1, PublicationFails, HandleFail DEF FailedPublication, RemoveOldSlot, RenameTemp, Publishing
<1>2. CASE ~FailedPublication
  <2>1. /\ Publishing /\ pc' \in {"rename", "sync"} /\ UNCHANGED <<handle, goal, backup>>
        /\ SetSlot(SlotFor(handle.generation), Missing) \/ SetSlot(SlotFor(handle.generation), handle)
    BY <1>2 DEF RemoveOldSlot, RenameTemp, Goto, Publishing, keyring
  <2>2. handle \in Envelope /\ handle.phase = goal
        /\ \A o \in Owners : backup[o] # NoSecret => o \in handle.entries
    BY <2>1, PublicationGround
  <2>3. CASE goal = "Preparing"
    <3>1. NothingActive /\ backup = EmptyAccounts
      BY <2>1, <2>3, PublicationGround
    <3>2. slotRisk' = slotRisk \cup {slot'}
          /\ \A s \in Slots : slot'[s] = slot[s] \/ slot'[s] = Missing \/ slot'[s] = handle
      BY <2>1 DEF SetSlot, StoresType
    <3>3. \A s \in Slots : ~IsActive(slot'[s])
      BY <2>2, <2>3, <3>1, <3>2, NotEnvelopes DEF NothingActive, IsActive, Saga, JournalInv
    <3>4. NothingActive'
      BY <3>1, <3>2, <3>3 DEF NothingActive, IsActive
    <3> QED
      BY <2>1, <2>2, <2>3, <3>1, <3>4 DEF HandleInv, Publishing, EmptyAccounts
  <2>4. CASE goal # "Preparing"
    <3>1. TheOtherSlot \in Envelope /\ ValidPair(TheOtherSlot, handle)
      BY <2>1, <2>4, PublicationGround
    <3>2. TheOtherSlot' = TheOtherSlot
      BY <2>1, <2>2, OtherStays DEF SetSlot
    <3> QED
      BY <2>1, <2>2, <2>4, <3>1, <3>2 DEF HandleInv, Publishing
  <2> QED
    BY <2>3, <2>4
<1> QED
  BY <1>1, <1>2

LEMMA HandleSync ==
  ASSUME StoresType, Control, Saga, OrderInv, SyncSlot
  PROVE  HandleInv'
<1>1. CASE FailPublication
  BY <1>1, PublicationFails, HandleFail DEF SyncSlot, Publishing
<1>2. CASE ~FailPublication
  <2>1. /\ pc = "sync" /\ Publishing /\ slot' = slot /\ slotRisk' = {slot}
        /\ slot[SlotFor(handle.generation)] = handle /\ UNCHANGED <<handle, backup>>
        /\ pc' = then
        /\ then \in {"backup", "mutate", "cleanup"} => todo' = handle.entries
    BY <1>2 DEF SyncSlot, FailedPublication, SyncJournal, Goto, Loop, Publishing, keyring
  <2>2. handle \in Envelope /\ HandleInv
        /\ \A o \in Owners : backup[o] # NoSecret => o \in handle.entries
    BY <2>1, PublicationGround DEF OrderInv
  <2>3. /\ then \in {"backup", "markAgain", "activate", "activateAgain", "mutate", "cleanup"}
        /\ then = "backup" => goal = "Preparing"
    BY <2>1 DEF Control, ControlFlow
  <2>4. CASE then = "backup"
    <3>1. TheOtherSlot = Missing
      BY <2>1, <2>3, <2>4, PublicationGround
    <3>2. LoadEnvelope(slot) = handle
      BY <2>1, <2>2, <3>1, LoadOne, SlotForType DEF StoresType, TheOtherSlot
    <3> QED
      BY <2>1, <2>2, <2>4, <3>2 DEF HandleInv, Publishing
  <2>5. CASE then = "cleanup"
    BY <2>1, <2>2, <2>5, HandleLoops
  <2>6. CASE then \notin {"backup", "cleanup"}
    BY <2>1, <2>2, <2>3, <2>6, HandleOn DEF Publishing
  <2> QED
    BY <2>4, <2>5, <2>6
<1> QED
  BY <1>1, <1>2

LEMMA HandleBackUp ==
  ASSUME StoresType, Control, OrderInv, NEW o \in Owners, BackUp(o)
  PROVE  HandleInv'
<1>1. CASE Fail(FALSE)
  BY <1>1, HandleFailed
<1>2. CASE ~Fail(FALSE)
  <2>1. /\ pc = "backup" /\ pc' = pc /\ UNCHANGED <<handle, slot, slotRisk>> /\ o \in handle.entries
        /\ backup' = [backup EXCEPT ![o] = target[o]]
        /\ slotRisk = {slot} /\ LoadEnvelope(slot) = handle
        /\ \A q \in Owners : backup[q] # NoSecret => q \in handle.entries
    BY <1>2 DEF BackUp, journal, Control, ControlType, OrderInv, HandleInv
  <2>2. \A q \in Owners : backup'[q] # NoSecret => q \in handle.entries
    BY <2>1 DEF StoresType, Accounts
  <2> QED
    BY <2>1, <2>2 DEF HandleInv, Publishing
<1> QED
  BY <1>1, <1>2

LEMMA HandleActivate ==
  ASSUME StoresType, Control, Saga, OrderInv, Activate
  PROVE  HandleInv'
<1>1. CASE Fail(FALSE)
  BY <1>1, HandleFailed
<1>2. CASE ~Fail(FALSE)
  <2>1. /\ pc \in {"activate", "activateAgain"} /\ Forwards /\ handle \in Envelope
        /\ previous \in [Owners -> PreviousStates] /\ UNCHANGED <<slot, backup>>
        /\ PublishNext("Active", previous, IF pc = "activate" THEN "activateAgain" ELSE "mutate")
        /\ pc = "activate" => handle.phase = ActivationSource
        /\ JournalInv /\ HandleInv
    BY <1>2 DEF Activate, Control, ControlType, ControlFlow, keyring, journal, Saga, OrderInv
  <2>2. /\ handle.entries = plan.owners /\ \A o \in plan.owners : previous[o] # "Unknown"
        /\ handle.phase \in {"Preparing", "BlobsDurable"} => handle.previous = NothingRecorded
        /\ pc = "activateAgain" => handle.phase = "Active" /\ handle.previous = previous
    BY <2>1 DEF Saga, PlanInv, ForwardInv, Noted, Kept, OrderInv, OriginInv
  <2>3. CASE pc = "activate"
    <3>1. \A o \in handle.entries : handle.previous[o] = "Unknown" /\ previous[o] # "Unknown"
      BY <2>1, <2>2, <2>3 DEF ActivationSource, NothingRecorded, StoresType, Plan
    <3> QED
      BY <2>1, <2>3, <3>1, HandlePublishes DEF Phases
  <2>4. CASE pc = "activateAgain"
    BY <2>1, <2>2, <2>4, HandlePublishes DEF Phases, SamePreviousPairs
  <2> QED
    BY <2>1, <2>3, <2>4
<1> QED
  BY <1>1, <1>2

LEMMA HandleMark ==
  ASSUME StoresType, Control, Saga, OrderInv, Mark
  PROVE  HandleInv'
<1>1. CASE Fail(goal = "VaultDurable")
  BY <1>1, HandleFailed
<1>2. CASE ~Fail(goal = "VaultDurable")
  <2>1. /\ pc \in {"mark", "markAgain"} /\ handle \in Envelope /\ HandleInv /\ JournalInv
        /\ handle.previous \in [Owners -> PreviousStates] /\ UNCHANGED <<slot, backup>>
        /\ goal \in {"BlobsDurable", "VaultDurable", "RollbackTargetsRestored"} /\ goal \in Phases
        /\ goal = "BlobsDurable" => Forwards
        /\ pc = "markAgain" => handle.phase = goal
        /\ \A o \in Owners : backup[o] # NoSecret => o \in handle.entries
    BY DEF Mark, Control, ControlType, ControlFlow, Marking, Envelope, keyring, journal, Saga, StepInv,
           OrderInv, HandleInv, Publishing
  <2>2. CASE Marked
    BY <2>1, <2>2, HandleOn, HandleLoops DEF Marked, Goto, Loop
  <2>3. CASE PublishNext(goal, handle.previous, IF pc = "mark" THEN "markAgain" ELSE AfterMark)
             /\ (pc = "mark" => handle.phase \in MarkSource)
    <3>1. goal = "BlobsDurable" => handle.blobs
      BY <2>1 DEF OrderInv, OriginInv, Marking
    <3>2. handle.phase \in MarkSource
      BY <2>1, <2>3 DEF MarkSource
    <3> QED
      BY <2>1, <2>3, <3>1, <3>2, HandlePublishes DEF MarkSource, SamePreviousPairs
  <2> QED
    BY <1>2, <2>2, <2>3 DEF Mark
<1> QED
  BY <1>1, <1>2

\* Backups are deleted before the slots, and the older slot before the latest.
LEMMA HandleFinishing ==
  ASSUME StoresType, Control, Saga, OrderInv,
         CleanedUp \/ RemoveSlot \/ SyncRemoval \/ \E o \in Owners : CleanUp(o)
  PROVE  HandleInv'
<1>h. /\ pc \in {"cleanup", "removeOlder", "syncOlder", "removeLatest", "syncLatest"}
      /\ handle \in Envelope /\ HandleInv
  BY DEF CleanedUp, CleanUp, RemoveSlot, SyncRemoval, Control, ControlType, OrderInv
<1>1. CASE Fail(TRUE)
  BY <1>1, HandleFailed
<1>2. ASSUME NEW o \in Owners, CleanUp(o), ~Fail(TRUE) PROVE HandleInv'
  <2>1. /\ pc = "cleanup" /\ pc' = pc /\ handle' = handle /\ todo' = todo \ {o}
        /\ backup' = [backup EXCEPT ![o] = NoSecret]
    BY <1>2 DEF CleanUp
  <2>2. \A q \in Owners : backup'[q] # NoSecret => backup[q] # NoSecret /\ q # o
    BY <2>1 DEF StoresType, Accounts
  <2> QED
    BY <1>h, <2>1, <2>2 DEF HandleInv, Publishing
<1>3. CASE CleanedUp /\ ~Fail(TRUE)
  <2>1. /\ pc = "cleanup" /\ pc' = "removeOlder" /\ todo = {} /\ LoadEnvelope(slot) = handle
        /\ UNCHANGED <<handle, slot, backup>>
    BY <1>3 DEF CleanedUp, Goto, keyring, journal
  <2>2. slot[SlotFor(handle.generation)] = handle
    BY <1>h, <2>1, LoadedSlot DEF Saga
  <2>3. backup = EmptyAccounts
    <3>1. \A o \in Owners : backup[o] = NoSecret
      BY <1>h, <2>1 DEF HandleInv
    <3> QED
      BY <3>1 DEF StoresType, Accounts, EmptyAccounts
  <2> QED
    BY <2>1, <2>2, <2>3 DEF HandleInv, Publishing, EmptyAccounts
<1>4. CASE RemoveSlot /\ ~Fail(TRUE)
  <2>1. /\ UNCHANGED <<handle, backup>> /\ backup = EmptyAccounts
        /\ slot[SlotFor(handle.generation)] = handle
        /\ \/ /\ pc' = "syncOlder"
              /\ slot' = [slot EXCEPT ![OtherSlot(SlotFor(handle.generation))] = Missing]
           \/ pc' = "syncLatest"
    BY <1>h, <1>4 DEF RemoveSlot, SetSlot, Goto, keyring, HandleInv
  <2>2. pc' = "syncOlder" => slot'[SlotFor(handle.generation)] = handle
    BY <1>h, <2>1, Parity DEF Envelope, StoresType
  <2> QED
    BY <2>1, <2>2 DEF HandleInv, Publishing, EmptyAccounts
<1>5. CASE SyncRemoval /\ ~Fail(TRUE)
  <2>1. /\ UNCHANGED <<slot, backup>> /\ slotRisk' = {slot} /\ backup = EmptyAccounts
        /\ \/ pc = "syncOlder" /\ Goto("removeLatest")
           \/ pc = "syncLatest" /\ Finished
    BY <1>h, <1>5 DEF SyncRemoval, SyncJournal, keyring, HandleInv
  <2>2. CASE pc = "syncOlder" /\ Goto("removeLatest")
    BY <1>h, <2>1, <2>2 DEF Goto, HandleInv, Publishing, EmptyAccounts
  <2>3. CASE Finished
    <3>1. pc' \in {"idle", "body", "recheck"}
      BY <2>3 DEF Finished, Recovered, Return, Goto, Control, ControlType
    <3> QED
      BY <3>1, HandleIdle
  <2> QED
    BY <2>1, <2>2, <2>3
<1> QED
  BY <1>1, <1>2, <1>3, <1>4, <1>5

\* A recovered envelope is the loaded one, and names every account with a backup.
LEMMA HandleRecovery ==
  ASSUME StoresType, Control, Saga, OrderInv, RecoverPending
  PROVE  HandleInv'
<1>1. mode # "forward" /\ mode \in {"start", "forward", "fail", "giveUp", "post"} /\ backup' = backup
      /\ Answered(slot)
  BY DEF RecoverPending, Control, ControlType, ControlFlow, Forwards, keyring, OrderInv, Saga, JournalInv
<1>2. CASE Recovered \/ Return("repair")
  <2>1. pc' \in {"idle", "body", "recheck"}
    BY <1>1, <1>2 DEF Recovered, Return, Goto
  <2> QED
    BY <2>1, HandleIdle
<1>3. CASE LoadEnvelope(slot) \in Envelope /\ RecoveryResumes(LoadEnvelope(slot))
  <2>1. /\ handle' = LoadEnvelope(slot) /\ pc' \in {"cleanup", "mark", "rollback"}
        /\ pc' = "cleanup" => todo' = LoadEnvelope(slot).entries
    BY <1>3 DEF RecoveryResumes, ResumeLoop, ResumeMark
  <2>2. \A o \in Owners : backup[o] # NoSecret => o \in LoadEnvelope(slot).entries
    BY <1>1 DEF Answered
  <2> QED
    BY <1>1, <2>1, <2>2, HandleLoops
<1> QED
  BY <1>2, <1>3, RecoveryCases

\* Slots that are not damaged, and steps that say no more of them.
LEMMA HandleNext ==
  ASSUME StoresType, Control, Saga, OrderInv, ~Reordered, [Next]_vars,
         ~(\E s \in Slots : DamageSlot(s))
  PROVE  HandleInv'
<1>r. HandleInv
  BY DEF OrderInv
<1>1. CASE UNCHANGED vars
  BY <1>1, <1>r DEF vars, HandleInv, Publishing, TheOtherSlot, NothingActive, IsActive, EmptyAccounts
<1>2. CASE \/ StartOperation \/ OperationOnly \/ PlainCommit \/ Crash \/ PowerLoss \/ Recheck
  <2>1. pc' \in {"idle", "recover"}
    BY <1>2 DEF StartOperation, OperationOnly, PlainCommit, Crash, PowerLoss, Recheck, Return
  <2> QED
    BY <2>1, HandleIdle
<1>3. ASSUME Fail(FALSE) \/ Fail(TRUE) PROVE HandleInv'
  BY <1>3, HandleFailed
<1>4. CASE \/ BackedUp \/ PublishBlobs \/ CommitVault \/ ConfirmCommit
           \/ RolledBack \/ \E o \in Owners : Mutate(o)
  <2>1. \/ Fail(FALSE) \/ Fail(TRUE)
        \/ /\ pc \notin {"idle", "recover", "body", "recheck"} /\ UNCHANGED <<handle, backup>>
           /\ pc' \in {"publishBlobs", "activate", "mutate", "confirm", "mark"}
    BY <1>4 DEF BackedUp, PublishBlobs, CommitVault, ConfirmCommit, RolledBack, Mutate, Goto, keyring
  <2> QED
    BY <1>r, <1>3, <2>1, HandleOn
<1>5. ASSUME NEW o \in Owners, RollBack(o) PROVE HandleInv'
  <2>1. /\ backup' = backup /\ pc = "rollback"
        /\ Return("repair") \/ UNCHANGED <<handle, pc>>
    BY <1>5, RollBackRestores DEF RollBack
  <2> QED
    BY <1>r, <2>1, HandleFail, HandleOn
<1> QED
  BY <1>1, <1>2, <1>4, <1>5, HandleBegin, HandlePublication, HandleSync, HandleBackUp, HandleActivate,
     HandleMark, HandleFinishing, HandleRecovery DEF Next, Forward, Step

\* A step that goes on with the plan.
LEMMA OriginKept ==
  ASSUME OriginInv, plan' = plan, Forwards' => Forwards,
         Forwards' =>
           /\ handle'.kind = handle.kind /\ handle'.blobs = handle.blobs
           /\ handle'.phase \in {"Preparing", "BlobsDurable"} =>
                /\ handle.phase \in {"Preparing", "BlobsDurable"}
                /\ handle'.previous = handle.previous
           /\ (pc = "publishBlobs" \/ ((Publishing \/ Marking) /\ goal = "BlobsDurable"))' =>
                \/ plan.blobs
                \/ pc = "publishBlobs" \/ ((Publishing \/ Marking) /\ goal = "BlobsDurable")
           /\ BeforeCommit' => BeforeCommit /\ vaultRisk' = vaultRisk
  PROVE  OriginInv'
BY DEF OriginInv

LEMMA OriginNew ==
  ASSUME ~Forwards'
  PROVE  OriginInv'
BY DEF OriginInv

LEMMA OriginEnds ==
  ASSUME (\E r : Return(r)) \/ (\E w \in {"fail", "giveUp", "post"} : Recover(w))
  PROVE  OriginInv'
BY OriginNew DEF Return, Recover, Forwards

LEMMA OriginFailed ==
  ASSUME StoresType, Control, NEW c \in BOOLEAN, Fail(c)
  PROVE  OriginInv'
BY Fails, OriginEnds

\* The next envelope has the plan's kind and its previous states.
LEMMA OriginPublishes ==
  ASSUME StoresType, Control, OriginInv, handle \in Envelope, plan' = plan, vaultRisk' = vaultRisk,
         NEW phase \in Phases, NEW prev \in [Owners -> PreviousStates], NEW step,
         PublishNext(phase, prev, step), phase # "Preparing",
         Forwards /\ phase # "VaultDurable" => BeforeCommit,
         Forwards /\ phase = "BlobsDurable" =>
           /\ plan.blobs /\ handle.phase \in {"Preparing", "BlobsDurable"} /\ prev = handle.previous
  PROVE  OriginInv'
<1>1. CASE Fail(goal = "VaultDurable")
  BY <1>1, OriginFailed
<1>2. CASE ~Fail(goal = "VaultDurable")
  <2>1. /\ pc' = "remove" /\ goal' = phase /\ mode' = mode /\ handle'.phase = phase
        /\ handle'.previous = prev /\ handle'.blobs = handle.blobs /\ handle'.kind = handle.kind
    BY <1>2, Publishes DEF Control, ControlType
  <2> QED
    BY <2>1, OriginKept DEF Forwards, BeforeCommit, Publishing, Marking
<1> QED
  BY <1>1, <1>2

\* Every step keeps what the handle has of the plan.
LEMMA OriginNext ==
  ASSUME StoresType, Control, Promises, Saga, OriginInv, [Next]_vars
  PROVE  OriginInv'
<1>1. CASE UNCHANGED vars
  BY <1>1 DEF vars, OriginInv, Forwards, BeforeCommit, Publishing, Marking
<1>2. CASE \/ OperationOnly \/ PlainCommit \/ Crash \/ PowerLoss \/ Recheck
  <2>1. \E r : Return(r)
    BY <1>2 DEF OperationOnly, PlainCommit, Crash, PowerLoss, Recheck
  <2> QED
    BY <2>1, OriginEnds
<1>3. CASE StartOperation \/ RecoverPending \/ RolledBack \/ \E o \in Owners : RollBack(o)
  <2>1. ~Forwards
    BY <1>3 DEF StartOperation, RecoverPending, RolledBack, RollBack, Control, ControlFlow
  <2>2. CASE StartOperation \/ RolledBack
    BY <2>1, <2>2, OriginNew DEF StartOperation, RolledBack, Forwards
  <2>3. CASE RecoverPending
    <3>1. mode' \in {mode, "start"}
      BY <2>1, <2>3, RecoveryCases DEF RecoveryResumes, ResumeLoop, ResumeMark, Recovered, Return, Goto,
                                       Control, ControlType, Forwards
    <3> QED
      BY <2>1, <3>1, OriginNew DEF Forwards
  <2>4. ASSUME NEW o \in Owners, RollBack(o) PROVE OriginInv'
    <3>1. mode' \in {mode, "start"}
      BY <2>4, RollBackRestores DEF Return
    <3> QED
      BY <2>1, <3>1, OriginNew DEF Forwards
  <2> QED
    BY <1>3, <2>2, <2>3, <2>4
<1>4. ASSUME NEW kind \in Kinds, NEW owners \in SUBSET Owners, NEW needs \in BOOLEAN,
             NEW value \in Accounts, Begin(kind, owners, value, needs)
      PROVE  OriginInv'
  <2>1. /\ handle'.kind = kind /\ handle'.blobs = needs /\ handle'.previous = NothingRecorded
        /\ plan'.kind = kind /\ plan'.blobs = needs /\ plan'.before = vault
        /\ pc' = "remove" /\ goal' = "Preparing"
        /\ kind # "import" => vaultRisk' = {vault}
    BY <1>4 DEF Begin, PlanningBase
  <2> QED
    BY <2>1 DEF OriginInv, Publishing, Marking
<1>5. ASSUME Fail(FALSE) \/ Fail(TRUE) PROVE OriginInv'
  BY <1>5, OriginFailed
<1>6. CASE RemoveOldSlot \/ RenameTemp \/ SyncSlot
  <2>1. Publishing /\ UNCHANGED <<plan, vaultRisk>>
    BY <1>6 DEF RemoveOldSlot, RenameTemp, SyncSlot, Publishing, vaultVars
  <2>2. CASE FailPublication
    BY <2>1, <2>2, PublicationFails, OriginEnds
  <2>3. CASE ~FailPublication
    <3>1. /\ UNCHANGED <<handle, mode, goal>>
          /\ pc' \in {"rename", "sync", then}
      BY <1>6, <2>3 DEF RemoveOldSlot, RenameTemp, SyncSlot, FailedPublication, Goto, Loop
    <3>2. Forwards =>
            \/ goal = "Preparing" /\ then = "backup"
            \/ goal = "BlobsDurable" /\ then \in {"markAgain", "activate"}
            \/ goal = "Active" /\ then \in {"activateAgain", "mutate"}
            \/ goal = "VaultDurable" /\ then \in {"markAgain", "cleanup"}
      BY <2>1 DEF Control, ControlFlow
    <3> QED
      BY <2>1, <3>1, <3>2, OriginKept DEF Forwards, BeforeCommit, Publishing, Marking
  <2> QED
    BY <2>2, <2>3
<1>7. CASE \E o \in Owners : BackUp(o) \/ Mutate(o)
  <2>1. \/ Fail(FALSE)
        \/ /\ UNCHANGED <<plan, vaultRisk, handle, mode, pc, goal>>
    BY <1>7 DEF BackUp, Mutate, vaultVars
  <2> QED
    BY <1>5, <2>1, OriginKept DEF Forwards, BeforeCommit, Publishing, Marking
<1>8. CASE BackedUp \/ PublishBlobs
  <2>1. \/ Fail(FALSE)
        \/ /\ UNCHANGED <<plan, vaultRisk, handle, mode>> /\ pc \in {"backup", "publishBlobs"}
           /\ \/ pc' = "publishBlobs" /\ plan.blobs
              \/ pc' = "activate"
              \/ pc = "publishBlobs" /\ pc' = "mark" /\ goal' = "BlobsDurable"
    BY <1>8 DEF BackedUp, PublishBlobs, Goto, vaultVars
  <2> QED
    BY <1>5, <2>1, OriginKept DEF Forwards, BeforeCommit, Publishing, Marking
<1>9. CASE CommitVault \/ ConfirmCommit
  <2>1. \/ Fail(FALSE) \/ Fail(TRUE)
        \/ /\ UNCHANGED <<plan, handle, mode>>
           /\ pc' = "confirm" \/ (pc' = "mark" /\ goal' = "VaultDurable")
    BY <1>9 DEF CommitVault, ConfirmCommit, Goto
  <2> QED
    BY <1>5, <2>1, OriginKept DEF Forwards, BeforeCommit, Publishing, Marking
<1>10. CASE Activate
  <2>1. /\ handle \in Envelope /\ previous \in [Owners -> PreviousStates] /\ "Active" \in Phases
        /\ UNCHANGED <<plan, vaultRisk>> /\ BeforeCommit
    BY <1>10 DEF Activate, Control, ControlType, ControlFlow, vaultVars, Phases, BeforeCommit
  <2> QED
    BY <1>5, <1>10, <2>1, OriginPublishes DEF Activate
<1>11. CASE Mark
  <2>1. /\ handle \in Envelope /\ handle.previous \in [Owners -> PreviousStates]
        /\ UNCHANGED <<plan, vaultRisk>> /\ pc \in {"mark", "markAgain"}
        /\ goal \in {"BlobsDurable", "VaultDurable", "RollbackTargetsRestored"} /\ goal \in Phases
        /\ Forwards /\ goal # "VaultDurable" => goal = "BlobsDurable" /\ BeforeCommit
        /\ pc = "markAgain" => handle.phase = goal
    BY <1>11 DEF Mark, Control, ControlType, ControlFlow, Marking, Envelope, vaultVars, BeforeCommit,
                 Saga, StepInv
  <2>2. CASE Marked
    <3>1. UNCHANGED <<handle, mode>> /\ pc' = IF goal = "BlobsDurable" THEN "activate" ELSE "cleanup"
      BY <2>2 DEF Marked, Goto, Loop
    <3> QED
      BY <2>1, <3>1, OriginKept DEF Forwards, BeforeCommit, Publishing, Marking
  <2>3. CASE Fail(goal = "VaultDurable")
    BY <2>3, OriginFailed
  <2>4. CASE /\ PublishNext(goal, handle.previous, IF pc = "mark" THEN "markAgain" ELSE AfterMark)
             /\ pc = "mark" => handle.phase \in MarkSource
    <3>1. Forwards /\ goal = "BlobsDurable" =>
            plan.blobs /\ handle.phase \in {"Preparing", "BlobsDurable"}
      BY <2>1, <2>4 DEF MarkSource, OriginInv, Marking
    <3> QED
      BY <2>1, <2>4, <3>1, OriginPublishes
  <2> QED
    BY <1>11, <2>2, <2>3, <2>4 DEF Mark
<1>12. CASE CleanedUp \/ RemoveSlot \/ SyncRemoval \/ \E o \in Owners : CleanUp(o)
  <2>1. /\ UNCHANGED <<plan, vaultRisk>>
        /\ \/ Fail(TRUE)
           \/ UNCHANGED <<handle, mode>> /\ pc' \in {"cleanup", "removeOlder", "syncOlder",
                                                     "removeLatest", "syncLatest"}
           \/ Finished
    BY <1>12 DEF CleanedUp, CleanUp, RemoveSlot, SyncRemoval, Goto, vaultVars
  <2>2. CASE Finished
    <3>1. ~Forwards'
      BY <2>2 DEF Finished, Recovered, Return, Goto, Control, ControlType, Forwards
    <3> QED
      BY <3>1, OriginNew
  <2> QED
    BY <1>5, <2>1, <2>2, OriginKept DEF Forwards, BeforeCommit, Publishing, Marking
<1>13. ASSUME NEW s \in Slots, DamageSlot(s) PROVE OriginInv'
  BY <1>13, OriginKept DEF DamageSlot, control, vaultVars, Forwards, BeforeCommit, Publishing, Marking
<1> QED
  BY <1>1, <1>2, <1>3, <1>4, <1>6, <1>7, <1>8, <1>9, <1>10, <1>11, <1>12, <1>13 DEF Next, Forward, Step

----------------------------------------------------------------------------
(* Where the directory keeps the order of its changes.                     *)

\* The saga, and the order of the slots while none is unreadable.
OrderedSaga ==
  /\ VisibleSaga
  /\ faults["damage"] = 0 => OrderInv

LEMMA OrderedSagaInit == Init => OrderedSaga
<1> SUFFICES ASSUME Init PROVE OrderInv
  BY VisibleSagaInit DEF OrderedSaga
<1>1. /\ pc = "idle" /\ mode = "start" /\ slotRisk = {slot} /\ backup = EmptyAccounts
      /\ \A s \in Slots : slot[s] = Missing
  BY DEF Init
<1>2. Answered(slot)
  BY <1>1, AnsweredQuietly, LoadNothing, NotEnvelopes DEF IsActive
<1>3. NothingActive
  BY <1>1, NotEnvelopes DEF NothingActive, IsActive
<1> QED
  BY <1>1, <1>2, <1>3, HandleIdle DEF OrderInv, HandleInv, OriginInv, Publishing, Forwards

LEMMA OrderedSagaNext ==
  ASSUME ~Reordered
  PROVE  OrderedSaga /\ [Next]_vars => OrderedSaga'
<1> SUFFICES ASSUME OrderedSaga, [Next]_vars PROVE OrderedSaga'
  OBVIOUS
<1>1. StoresType /\ Control /\ Promises /\ Saga /\ VisibleInv
  BY DEF OrderedSaga, VisibleSaga, SagaInv, PromiseInv, CTypeInv
<1>2. VisibleSaga'
  BY VisibleSagaNext DEF OrderedSaga
<1>3. ASSUME faults'["damage"] = 0 PROVE OrderInv'
  <2>1. "damage" \in Faults
    BY DEF Faults
  <2>2. faults["damage"] = 0 /\ ~(\E s \in Slots : DamageSlot(s))
    BY <1>1, <1>3, <2>1, FaultsGrow DEF DamageSlot
  <2>3. OrderInv
    BY <2>2 DEF OrderedSaga
  <2>4. AnswerInv' /\ HandleInv' /\ OriginInv'
    BY <1>1, <2>2, <2>3, AnswersNext, HandleNext, OriginNext DEF OrderInv
  <2> QED
    BY <2>4 DEF OrderInv, AnswerInv
<1> QED
  BY <1>2, <1>3 DEF OrderedSaga

LEMMA OrderedSagaAlways ==
  ASSUME ~Reordered
  PROVE  Spec => []OrderedSaga
<1>1. OrderedSaga /\ [Next]_vars => OrderedSaga'
  BY OrderedSagaNext
<1> QED
  BY <1>1, OrderedSagaInit, PTL DEF Spec

\* load_envelope_internal always has an answer, and recover_pending_legacy_import
\* finds the before or the after graph of a transaction that it has to decide.
THEOREM RecoveryAlwaysDecides ==
  ASSUME ~Reordered
  PROVE  Spec => []RecoveryDecides
<1>1. OrderedSaga => RecoveryDecides
  <2> DEFINE e == LoadEnvelope(slot)
  <2> SUFFICES ASSUME OrderedSaga, faults["damage"] = 0
               PROVE  /\ e # Corrupt
                      /\ e.state = "valid" /\ e.phase = "Active" /\ e.kind # "import" =>
                           vaultRisk \subseteq {e.before, e.after}
    BY DEF RecoveryDecides
  <2>1. slot \in [Slots -> SlotValues] /\ Answered(slot)
    BY DEF OrderedSaga, VisibleSaga, SagaInv, PromiseInv, CTypeInv, StoresType, OrderInv, Saga,
           JournalInv
  <2>2. e # Corrupt
    BY <2>1 DEF Answered
  <2>3. e.state = "valid" => e \in Envelope /\ \E s \in Slots : e = slot[s]
    BY <2>1, LoadEnvelopeType, SlotStates
  <2> HIDE DEF e
  <2> QED
    BY <2>1, <2>2, <2>3 DEF Answered, IsActive
<1> QED
  BY <1>1, OrderedSagaAlways, PTL

\* finish removes the journal, the only record of the backup accounts, when
\* cleanup_legacy_import_backups has deleted every one of them.
THEOREM NoBackupIsOrphaned ==
  ASSUME ~Reordered
  PROVE  Spec => [](faults["damage"] = 0 => NoOrphanBackup)
<1>1. OrderedSaga => (faults["damage"] = 0 => NoOrphanBackup)
  <2> SUFFICES ASSUME OrderedSaga, faults["damage"] = 0, AtRest
               PROVE  backup = EmptyAccounts
    BY DEF NoOrphanBackup
  <2>1. StoresType /\ slot \in slotRisk /\ \A r \in slotRisk : Answered(r)
    BY DEF OrderedSaga, VisibleSaga, SagaInv, PromiseInv, CTypeInv, OrderInv, Saga, JournalInv
  <2>2. \A s \in Slots : slot[s] = Missing
    BY <2>1, LoadMissing DEF AtRest, NoTransaction, StoresType
  <2> QED
    BY <2>1, <2>2, NoBackups
<1> QED
  BY <1>1, OrderedSagaAlways, PTL
===============================================================================
