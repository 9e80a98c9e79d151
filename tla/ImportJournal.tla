---------------------------- MODULE ImportJournal ----------------------------
(***************************************************************************)
(* The recovery journal of the cross-store credential transactions         *)
(* (src-tauri/src/legacy_import_transaction.rs): two fixed slot files, the *)
(* envelope each may hold, and how a reader decides between them.          *)
(*                                                                         *)
(* Format versions, checksums and identifiers are abstracted: a slot holds *)
(* nothing, an envelope that validates, or bytes that do not.              *)
(***************************************************************************)
EXTENDS Naturals

CONSTANTS
    Owners,     \* credential accounts (host, identity, proxy, group ... owners)
    Graphs      \* Vault graph commitments

Slots == {"A", "B"}

\* begin writes generation 1 to slot A; every later publication goes to the
\* other slot with the next generation, so parity determines the slot.
SlotFor(generation) == IF generation % 2 = 1 THEN "A" ELSE "B"
OtherSlot(s) == IF s = "A" THEN "B" ELSE "A"

Phases == {"Preparing", "BlobsDurable", "Active", "RollbackTargetsRestored", "VaultDurable"}
PreviousStates == {"Unknown", "BackedUp", "Absent"}

\* entries is the set of owners of the transaction; previous[o] is Unknown
\* for every other owner.  kind, the flow that began it, is not in the file: it
\* is there for a property only.
Envelope ==
    [state : {"valid"}, tx : Nat, generation : Nat, phase : Phases, blobs : BOOLEAN,
     before : Graphs, after : Graphs, entries : SUBSET Owners,
     previous : [Owners -> PreviousStates],
     kind : {"identity", "host", "import"}]

Missing == [state |-> "missing"]
Corrupt == [state |-> "corrupt"]
SlotValues == Envelope \cup {Missing, Corrupt}

NothingRecorded == [o \in Owners |-> "Unknown"]

\* preparing_entries_advance_once
AdvanceOnce(older, newer) ==
    \E o \in older.entries :
        /\ older.previous[o] = "Unknown"
        /\ newer.previous[o] # "Unknown"
        /\ \A q \in older.entries \ {o} : older.previous[q] = newer.previous[q]

\* preparing_entries_activate
EntriesActivate(older, newer) ==
    \A o \in older.entries :
        /\ newer.previous[o] # "Unknown"
        /\ older.previous[o] \in {"Unknown", newer.previous[o]}

\* The phase pairs (older, newer) two valid slots may show, with the same
\* recorded previous states.
SamePreviousPairs ==
    {<<"Active", "Active">>,
     <<"Active", "RollbackTargetsRestored">>,
     <<"RollbackTargetsRestored", "RollbackTargetsRestored">>,
     <<"Active", "VaultDurable">>,
     <<"VaultDurable", "VaultDurable">>}

ValidTransition(older, newer) ==
    LET pair == <<older.phase, newer.phase>>
    IN  \/ pair = <<"Preparing", "Preparing">> /\ AdvanceOnce(older, newer)
        \/ /\ pair = IF newer.blobs THEN <<"BlobsDurable", "Active">> ELSE <<"Preparing", "Active">>
           /\ EntriesActivate(older, newer)
        \/ /\ pair \in {<<"Preparing", "BlobsDurable">>, <<"BlobsDurable", "BlobsDurable">>}
           /\ newer.blobs
           /\ older.previous = newer.previous
        \/ pair \in SamePreviousPairs /\ older.previous = newer.previous

\* validate_slot_pair, with the older envelope first.
ValidPair(older, newer) ==
    /\ older.tx = newer.tx
    /\ older.before = newer.before
    /\ older.after = newer.after
    /\ older.blobs = newer.blobs
    /\ older.entries = newer.entries
    /\ newer.generation = older.generation + 1
    /\ ValidTransition(older, newer)

\* load_envelope_internal: Missing when there is no transaction, Corrupt when
\* the slots give no answer (RecoverySlotsUnavailable), else the envelope.
LoadEnvelope(slot) ==
    LET a == slot["A"]
        b == slot["B"]
    IN  IF a.state = "valid" /\ b.state = "valid"
        THEN IF ValidPair(a, b) THEN b ELSE IF ValidPair(b, a) THEN a ELSE Corrupt
        ELSE IF a.state = "valid" THEN a
        ELSE IF b.state = "valid" THEN b
        ELSE IF a = Missing /\ b = Missing THEN Missing ELSE Corrupt

\* both_slots_have_semantics: both slots say phase about handle's transaction.
BothSlotsSay(slot, handle, phase) ==
    /\ \A s \in Slots :
          /\ slot[s].state = "valid"
          /\ slot[s].tx = handle.tx
          /\ slot[s].phase = phase
          /\ slot[s].previous = handle.previous
    /\ ValidPair(slot["A"], slot["B"]) \/ ValidPair(slot["B"], slot["A"])
=============================================================================
