------------------------- MODULE VaultStoreInvariant -------------------------
(***************************************************************************)
(* The inductive invariant behind the safety properties of VaultStore, in  *)
(* named parts.  It speaks about undamaged stores: as long as no snapshot  *)
(* has become unreadable, the generations in both views of both slots form *)
(* one growing chain of graphs, whose top is what a reader loads.          *)
(***************************************************************************)
EXTENDS VaultStore

\* The part about the two views v, d of the slots and the acknowledged edits a.
Recorded(v, d) == AllSnapshots(v) \cup AllSnapshots(d)

\* Every snapshot is readable and in the slot of its generation.
InOrder(v, d) ==
    \A s \in Slots : \A f \in Snapshots(v[s]) \cup Snapshots(d[s]) :
        f.ok = TRUE /\ ForGeneration(f.gen) = s

\* A later generation contains the edits of every earlier one.
Chain(v, d) ==
    \A f, h \in Recorded(v, d) : f.gen <= h.gen => f.edits \subseteq h.edits

\* What is only in the durable view is not newer than everything visible.
VisibleIsNewest(v, d) ==
    \A f \in AllSnapshots(d) : \E h \in AllSnapshots(v) : f.gen <= h.gen

\* Acknowledged edits are in a snapshot that no power loss can take away.
Anchored(v, d, a) ==
    a = {} \/ \E s \in Slots : \E f \in Snapshots(v[s]) :
                  f \in d[s] /\ a \subseteq f.edits

Filesystem(v, d, a) ==
    InOrder(v, d) /\ Chain(v, d) /\ VisibleIsNewest(v, d) /\ Anchored(v, d, a)

\* Until its hard link, a commit is newer than everything recorded and
\* contains all of it.
BeforePublication ==
    pc \in {"create", "write", "link"} =>
        /\ work.gen >= 1
        /\ \A f \in Recorded(vis, dur) : f.gen < work.gen /\ f.edits \subseteq work.edits

\* From the link on it is in its slot, and the newest; once synced, durable.
AfterPublication ==
    pc \in {"sync", "durable", "uncertain", "indeterminate", "compact", "return"} =>
        /\ FinalEntry \in vis[WorkSlot]
        /\ pc \in {"durable", "compact"} => FinalEntry \in dur[WorkSlot]
        /\ \A f \in Recorded(vis, dur) : f.gen <= work.gen

\* A confirmation that has synced the selected slot finds it synced.
Confirming ==
    pc \in {"confirmCompeting", "confirmReload"} => dur[WorkSlot] = vis[WorkSlot]

\* A token t sealed by the running process is not from the future, and says
\* what the snapshot of its generation says, as long as that is visible.
TokenSound(t, v) ==
    /\ t.gen = 0 => t.edits = {}
    /\ t.gen > 0 => \E h \in AllSnapshots(v) : t.gen <= h.gen
    /\ \A f \in AllSnapshots(v) : f.gen = t.gen => f.edits = t.edits

Tokens ==
    \A p \in Procs :
        /\ token[p].seal <= key[p]
        /\ token[p].seal = key[p] => TokenSound(token[p], vis)

Sound ==
    /\ Filesystem(vis, dur, acked)
    /\ BeforePublication
    /\ AfterPublication
    /\ Confirming
    /\ Tokens

\* The inductive invariant: while no snapshot is damaged, the parts above hold
\* together.  commit_locked, load_locked, verify_inventory_revision and
\* confirm_current_snapshot_durability rely on them.
Inv == faults.damage = 0 => Sound

----------------------------------------------------------------------------
(* Failed commits.  This part holds in damaged stores too.                 *)

\* The graphs that a recorded snapshot or a client's token holds.
Held ==
    {{}} \cup {f.edits : f \in Recorded(vis, dur)} \cup {token[p].edits : p \in Procs}

\* No graph that anyone may still commit or load holds an edit reported as
\* failed; until the hard link, none but the commit itself holds its own edit
\* (commit_locked returns Err only before the link).
FailInv ==
    /\ failed \subseteq used
    /\ \A E \in Held : E \subseteq used /\ E \cap failed = {}
    /\ pc # "idle" => work.edits \subseteq used /\ work.edits \cap failed = {}
    /\ pc \in {"create", "write", "link"} =>
          work.edit \subseteq used /\ \A E \in Held : E \cap work.edit = {}

\* While a commit runs, its generation is at least 1.
WorkStarted ==
    pc \in {"create", "write", "link", "sync", "durable", "uncertain",
            "indeterminate", "compact", "return"} => work.gen >= 1

\* The inductive invariant of the store: its types, a commit that has begun, the
\* soundness of an undamaged store, and what failed commits left behind
\* (commit_locked, load_locked, compact_after_commit).
IInv == TypeOK /\ WorkStarted /\ Inv /\ FailInv
=============================================================================
