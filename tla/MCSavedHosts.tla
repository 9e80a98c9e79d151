---------------------------- MODULE MCSavedHosts ----------------------------
(***************************************************************************)
(* What hangs on a saved host: the transaction that changes it together    *)
(* with its secrets, and the tunnel of a rule that refers to it. A         *)
(* behaviour is one of one of these, so the run explores one after the     *)
(* other; the transaction is this module's own variables and constants,    *)
(* and rests while a tunnel runs.                                          *)
(***************************************************************************)
EXTENDS CredentialTransaction, TLC

CONSTANTS r1, c1, e1, None

VARIABLES
  which,  \* the instance that a behaviour is one of
  \* the variables of PortForward, in the order of its module
  v1, v2, v3, v4, v5, v6, v7, v8, v9, v10, v11, v12, v13, v14, v15, v16, v17

Budget(crash, powerLoss, keyringErr, vaultSync, journalErr, damage) ==
  [f \in Faults |->
     CASE f = "crash" -> crash
       [] f = "powerLoss" -> powerLoss
       [] f = "keyring" -> keyringErr
       [] f = "vaultSync" -> vaultSync
       [] f = "journal" -> journalErr
       [] f = "damage" -> damage]

\* Faults of the stores and a crash, or a damaged journal slot and a crash.
StoreFaults == Budget(1, 1, 1, 1, 0, 0)
SlotDamage == Budget(1, 0, 1, 0, 0, 1)
MCBudgets == {StoreFaults, SlotDamage}
OnlyStoreFaults == {StoreFaults}

MCGraphs == 0..MaxGraph

\* Two starts, which are as interchangeable as the secrets that name them, with a
\* stop or with an edit, which stops the rule too; one start with both.
Stopped == INSTANCE PortForward WITH
  Starts <- Secrets, Stops <- {c1}, Edits <- {}, revision <- v1, config <- v2, lock <- v3,
  pc <- v4, seen <- v5, used <- v6, entry <- v7, cancelled <- v8, failed <- v9, open <- v10,
  stored <- v11, forward <- v12, task <- v13, ending <- v14, watch <- v15, missed <- v16,
  stop <- v17
Edited == INSTANCE PortForward WITH
  Starts <- Secrets, Stops <- {}, Edits <- {e1}, revision <- v1, config <- v2, lock <- v3,
  pc <- v4, seen <- v5, used <- v6, entry <- v7, cancelled <- v8, failed <- v9, open <- v10,
  stored <- v11, forward <- v12, task <- v13, ending <- v14, watch <- v15, missed <- v16,
  stop <- v17
Both == INSTANCE PortForward WITH
  Starts <- {r1}, Stops <- {c1}, Edits <- {e1}, revision <- v1, config <- v2, lock <- v3,
  pc <- v4, seen <- v5, used <- v6, entry <- v7, cancelled <- v8, failed <- v9, open <- v10,
  stored <- v11, forward <- v12, task <- v13, ending <- v14, watch <- v15, missed <- v16,
  stop <- v17

ASSUME InstancesAreSound ==
  Stopped!PortForwardAssumption /\ Edited!PortForwardAssumption /\ Both!PortForwardAssumption

instanceVars ==
  <<v1, v2, v3, v4, v5, v6, v7, v8, v9, v10, v11, v12, v13, v14, v15, v16, v17>>

SuiteInit ==
  /\ Init
  /\ \/ /\ which = "transaction"
        /\ v1 = "" /\ v2 = "" /\ v3 = "" /\ v4 = "" /\ v5 = "" /\ v6 = "" /\ v7 = ""
        /\ v8 = "" /\ v9 = "" /\ v10 = "" /\ v11 = "" /\ v12 = "" /\ v13 = "" /\ v14 = ""
        /\ v15 = "" /\ v16 = "" /\ v17 = ""
     \/ which = "stopped" /\ target = EmptyAccounts /\ Stopped!Init
     \/ which = "edited" /\ target = EmptyAccounts /\ Edited!Init
     \/ which = "both" /\ target = EmptyAccounts /\ Both!Init

SuiteNext ==
  \/ which = "transaction" /\ Next /\ UNCHANGED <<which, instanceVars>>
  \/ which = "stopped" /\ UNCHANGED <<which, vars>> /\ Stopped!Next
  \/ which = "edited" /\ UNCHANGED <<which, vars>> /\ Edited!Next
  \/ which = "both" /\ UNCHANGED <<which, vars>> /\ Both!Next
  \* All requests of the rule may be over.
  \/ which # "transaction" /\ UNCHANGED <<which, vars, instanceVars>>

SuiteSpec == SuiteInit /\ [][SuiteNext]_<<which, vars, instanceVars>>

\* The transaction alone.
TransactionSpec ==
  (SuiteInit /\ which = "transaction") /\ [][SuiteNext]_<<which, vars, instanceVars>>

Symmetry == Permutations(Secrets) \cup Permutations(Owners)

-----------------------------------------------------------------------------
\* Starts, a stop and an edit of one rule meet between any of their steps:
\* an open connection belongs to a start that is at work, to the entry of the rule
\* or to a stop or watcher that is about to close it; a tunnel runs the rule that
\* is stored and can be reached by a later stop; and a watcher or start removes no
\* entry but its own.
TunnelsSound ==
  /\ which = "stopped" => Stopped!TunnelsSound
  /\ which = "edited" => Edited!TunnelsSound
  /\ which = "both" => Both!TunnelsSound

=============================================================================
