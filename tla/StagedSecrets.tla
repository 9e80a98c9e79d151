---------------------------- MODULE StagedSecrets ----------------------------
(***************************************************************************)
(* The in-memory stores of one-shot secrets: EphemeralCredentialStore      *)
(* (passwords and passphrases) and ManagedKeyStagingStore (key bundles).   *)
(* A window stages a secret and passes its reference in a later command,   *)
(* which takes the secret out.  Every operation reads the clock before it  *)
(* waits for the lock, so it may act on a time that has passed; an expiry  *)
(* task per entry runs beside them.  References are random and may come    *)
(* back: a reference is fresh only among the entries present.              *)
(***************************************************************************)
EXTENDS Naturals, Sequences, FiniteSets, FiniteSetsExt

CONSTANTS
  Refs,          \* references
  Owners,        \* window labels
  Callers,       \* commands in flight
  Sizes,         \* sizes of secrets
  MaxEntries,    \* limits of the store
  MaxPerOwner,
  MaxBytes,
  TTL,           \* life time of an entry
  MaxTime,       \* bound: the clock
  MaxSecrets     \* bound: secrets ever staged

\* What a model must choose.
StagedAssumption ==
  /\ MaxEntries \in Nat /\ MaxPerOwner \in Nat /\ MaxBytes \in Nat
  /\ TTL \in Nat \ {0} /\ MaxTime \in Nat /\ MaxSecrets \in Nat
  /\ Sizes \subseteq Nat

VARIABLES
  now,       \* the clock
  entries,   \* the map of the store
  gen,       \* next_generation; also the identity of a secret
  timers,    \* expiry tasks that have not finished
  call,      \* the command each caller is in
  taken,     \* how often each secret was taken out
  origin,    \* history: owner and expiry of each secret
  handed,    \* history: the secrets commands went on with
  purged     \* history: the secrets purge_owner removed

vars == <<now, entries, gen, timers, call, taken, origin, handed, purged>>

Secrets == 1 .. MaxSecrets
Idle == [op |-> "idle"]
Times == 0 .. MaxTime + TTL

TypeOK ==
  /\ now \in 0 .. MaxTime
  /\ DOMAIN entries \subseteq Refs
  /\ \A r \in DOMAIN entries :
       entries[r] \in [owner : Owners, expires : Times, gen : Secrets, size : Sizes]
  /\ gen \in 0 .. MaxSecrets
  /\ \A t \in timers : t \in [ref : Refs, gen : Secrets, expires : Times]
  /\ taken \in [Secrets -> Nat]
  /\ \A h \in handed : h \in [gen : Secrets, owner : Owners, at : Times]

Init ==
  /\ now = 0
  /\ entries = [r \in {} |-> {}]
  /\ gen = 0
  /\ timers = {}
  /\ call = [c \in Callers |-> Idle]
  /\ taken = [g \in Secrets |-> 0]
  /\ origin = <<>>
  /\ handed = {}
  /\ purged = {}

Tick ==
  /\ now < MaxTime
  /\ now' = now + 1
  /\ UNCHANGED <<entries, gen, timers, call, taken, origin, handed, purged>>

Keep(S) == [r \in S |-> entries[r]]
Bytes(f) == MapThenSumSet(LAMBDA r : f[r].size, DOMAIN f)

-----------------------------------------------------------------------------
(* insert                                                                  *)

InsertCall(c, o, size) ==
  /\ call[c] = Idle
  /\ gen < MaxSecrets
  /\ call' = [call EXCEPT ![c] = [op |-> "insert", owner |-> o, size |-> size, at |-> now]]
  /\ UNCHANGED <<now, entries, gen, timers, taken, origin, handed, purged>>

\* Mutant: the bytes of the new secret are not counted.
ExceedsWithoutNew(f, o, size) ==
  \/ Cardinality(DOMAIN f) >= MaxEntries
  \/ Cardinality({r \in DOMAIN f : f[r].owner = o}) >= MaxPerOwner
  \/ Bytes(f) > MaxBytes

Exceeds(f, o, size) ==
  \/ Cardinality(DOMAIN f) >= MaxEntries
  \/ Cardinality({r \in DOMAIN f : f[r].owner = o}) >= MaxPerOwner
  \/ Bytes(f) + size > MaxBytes

FreshRefs(f) == Refs \ DOMAIN f

\* Under the lock: expired entries go, the limits are checked, and the entry
\* is added under a fresh reference together with its expiry task.
InsertLocked(c) ==
  LET o == call[c].owner
      e == [owner |-> o, expires |-> call[c].at + TTL, gen |-> gen + 1,
            size |-> call[c].size]
      kept == Keep({r \in DOMAIN entries : entries[r].expires > call[c].at})
  IN  /\ call[c].op = "insert"
      /\ gen < MaxSecrets
      /\ call' = [call EXCEPT ![c] = Idle]
      /\ \/ /\ Exceeds(kept, o, call[c].size)
            /\ entries' = kept
            /\ UNCHANGED <<gen, timers, origin>>
         \/ /\ ~Exceeds(kept, o, call[c].size)
            /\ \E r \in FreshRefs(kept) :
                 /\ entries' = [x \in DOMAIN kept \cup {r} |-> IF x = r THEN e ELSE kept[x]]
                 /\ timers' = timers \cup {[ref |-> r, gen |-> gen + 1, expires |-> e.expires]}
            /\ gen' = gen + 1
            /\ origin' = Append(origin, [owner |-> o, expires |-> e.expires])
      /\ UNCHANGED <<now, taken, handed, purged>>

-----------------------------------------------------------------------------
(* schedule_expiry: the task ends early when its entry is dropped, else it  *)
(* waits for the deadline and removes the entry if it is still the same.   *)

Present(t) == t.ref \in DOMAIN entries /\ entries[t.ref].gen = t.gen

ExpiresNow(t) == Present(t) /\ entries[t.ref].expires <= now

\* The entry was dropped before the deadline was seen.
CancelTimer(t) ==
  /\ t \in timers
  /\ ~Present(t)
  /\ timers' = timers \ {t}
  /\ UNCHANGED <<now, entries, gen, call, taken, origin, handed, purged>>

\* Mutant: no expiry task is scheduled.
FireTimerNever(t) == FALSE

FireTimer(t) ==
  /\ t \in timers
  /\ t.expires <= now
  /\ timers' = timers \ {t}
  /\ entries' = IF ExpiresNow(t) THEN Keep(DOMAIN entries \ {t.ref}) ELSE entries
  /\ UNCHANGED <<now, gen, call, taken, origin, handed, purged>>

-----------------------------------------------------------------------------
(* take_many: an ordered group of references.                              *)

TakeCall(c, o, refs) ==
  /\ call[c] = Idle
  /\ call' = [call EXCEPT ![c] = [op |-> "take", owner |-> o, refs |-> refs, at |-> now]]
  /\ UNCHANGED <<now, entries, gen, timers, taken, origin, handed, purged>>

\* What the n-th reference of a group is found to be.
Check(o, refs, at, n) ==
  LET r == refs[n] IN
  CASE \E k \in 1 .. n - 1 : refs[k] = r -> "InvalidReference"
    [] (\A k \in 1 .. n - 1 : refs[k] # r) /\ r \notin DOMAIN entries -> "NotFound"
    [] (\A k \in 1 .. n - 1 : refs[k] # r) /\ r \in DOMAIN entries
         /\ at >= entries[r].expires -> "Expired"
    [] (\A k \in 1 .. n - 1 : refs[k] # r) /\ r \in DOMAIN entries
         /\ at < entries[r].expires /\ entries[r].owner # o -> "OwnerMismatch"
    [] OTHER -> "Ok"

Invalid(o, refs, at) == {n \in DOMAIN refs : Check(o, refs, at, n) # "Ok"}

\* Mutant: the references before the failing one are consumed.
LostOnFailurePrefix(o, refs, at) == {refs[n] : n \in 1 .. Min(Invalid(o, refs, at))}

\* The first failing reference ends the group; only an expired one is removed.
LostOnFailure(o, refs, at) ==
  LET n == Min(Invalid(o, refs, at))
  IN  IF Check(o, refs, at, n) = "Expired" THEN {refs[n]} ELSE {}

\* Mutant: a taken entry stays in the map.
AfterTakeKept(S) == entries

AfterTake(S) == Keep(DOMAIN entries \ S)

Record(S, o, at) == {[gen |-> entries[r].gen, owner |-> o, at |-> at] : r \in S}

CountTaken(S) ==
  [g \in Secrets |-> IF \E r \in S : entries[r].gen = g THEN taken[g] + 1 ELSE taken[g]]

TakeLocked(c) ==
  LET o == call[c].owner
      refs == call[c].refs
      at == call[c].at
      S == {refs[n] : n \in DOMAIN refs}
  IN  /\ call[c].op = "take"
      /\ call' = [call EXCEPT ![c] = Idle]
      /\ IF Invalid(o, refs, at) = {}
         THEN /\ entries' = AfterTake(S)
              /\ taken' = CountTaken(S)
              /\ handed' = handed \cup Record(S, o, at)
         ELSE /\ entries' = Keep(DOMAIN entries \ LostOnFailure(o, refs, at))
              /\ UNCHANGED <<taken, handed>>
      /\ UNCHANGED <<now, gen, timers, origin, purged>>

-----------------------------------------------------------------------------
(* The drain of a session or port-forward start: one take per field, joined *)
(* and all of them run to the end; one failure drops the others' secrets.  *)

DrainCall(c, o, refs) ==
  /\ call[c] = Idle
  /\ call' = [call EXCEPT ![c] = [op |-> "drain", owner |-> o, refs |-> refs, at |-> now,
                                  got |-> {}, failed |-> FALSE]]
  /\ UNCHANGED <<now, entries, gen, timers, taken, origin, handed, purged>>

DrainOne(c, r) ==
  LET o == call[c].owner
      at == call[c].at
      ok == Check(o, <<r>>, at, 1) = "Ok"
  IN  /\ call[c].op = "drain"
      /\ r \in call[c].refs
      /\ entries' = IF ok THEN AfterTake({r})
                    ELSE IF Check(o, <<r>>, at, 1) = "Expired"
                    THEN Keep(DOMAIN entries \ {r}) ELSE entries
      /\ taken' = IF ok THEN CountTaken({r}) ELSE taken
      /\ call' = [call EXCEPT ![c].refs = @ \ {r},
                              ![c].got = IF ok THEN @ \cup Record({r}, o, at) ELSE @,
                              ![c].failed = @ \/ ~ok]
      /\ UNCHANGED <<now, gen, timers, origin, handed, purged>>

DrainEnd(c) ==
  /\ call[c].op = "drain"
  /\ call[c].refs = {}
  /\ handed' = IF call[c].failed THEN handed ELSE handed \cup call[c].got
  /\ call' = [call EXCEPT ![c] = Idle]
  /\ UNCHANGED <<now, entries, gen, timers, taken, origin, purged>>

-----------------------------------------------------------------------------
\* purge_owner, when a window is destroyed.
PurgeOwner(o) ==
  /\ entries' = Keep({r \in DOMAIN entries : entries[r].owner # o})
  /\ purged' = purged \cup {entries[r].gen : r \in {x \in DOMAIN entries : entries[x].owner = o}}
  /\ UNCHANGED <<now, gen, timers, call, taken, origin, handed>>

Groups == {<<r>> : r \in Refs} \cup {<<r, s>> : r \in Refs, s \in Refs}

Next ==
  \/ Tick
  \/ \E c \in Callers, o \in Owners, s \in Sizes : InsertCall(c, o, s)
  \/ \E c \in Callers, o \in Owners, g \in Groups : TakeCall(c, o, g)
  \/ \E c \in Callers, o \in Owners, S \in kSubset(2, Refs) : DrainCall(c, o, S)
  \/ \E c \in Callers : InsertLocked(c) \/ TakeLocked(c) \/ DrainEnd(c)
  \/ \E c \in Callers, r \in Refs : DrainOne(c, r)
  \/ \E t \in timers : CancelTimer(t) \/ FireTimer(t)
  \/ \E o \in Owners : PurgeOwner(o)

Spec == Init /\ [][Next]_vars

-----------------------------------------------------------------------------
(* Properties.                                                             *)

\* A staged secret leaves the store at most once, whatever commands race for
\* its reference and even if the reference is issued again.
TakenOnce == \A g \in Secrets : taken[g] <= 1

\* A command goes on only with secrets that its own window staged and that had
\* not expired when the command asked for them.
HandedToOwnerInTime ==
  \A h \in handed : h.owner = origin[h.gen].owner /\ h.at < origin[h.gen].expires

\* The limits on entries, entries of a window and bytes hold at every moment.
WithinLimits ==
  /\ Cardinality(DOMAIN entries) <= MaxEntries
  /\ \A o \in Owners : Cardinality({r \in DOMAIN entries : entries[r].owner = o}) <= MaxPerOwner
  /\ Bytes(entries) <= MaxBytes

\* A group that fails leaves every member that has not expired in the store:
\* take_many consumes all of its references or none.
GroupIsAtomicStep ==
  \A c \in Callers :
    (call[c] # Idle /\ call[c].op = "take" /\ call'[c] = Idle /\ taken' = taken) =>
      \A r \in DOMAIN entries :
        entries[r].expires > call[c].at => r \in DOMAIN entries'

\* A secret is not lost before its time: an entry disappears only by being
\* taken, by its deadline, or with its window.
NotLostEarlyStep ==
  \A r \in DOMAIN entries :
    (r \notin DOMAIN entries' \/ entries'[r].gen # entries[r].gen) =>
      \/ entries[r].expires <= now
      \/ taken'[entries[r].gen] > taken[entries[r].gen]
      \/ entries[r].gen \in purged'

\* A secret is handed out at most once, to its owner and before its deadline.
HandedOutOnce == TypeOK /\ TakenOnce /\ HandedToOwnerInTime

\* What the store promises of its secrets and of its size: a secret leaves it at most
\* once, to its owner and before its deadline, and the limits hold at every moment.
StagedSound == HandedOutOnce /\ WithinLimits

\* No step consumes a part of a group or loses an entry that has time left.
GroupIsAtomic == [][GroupIsAtomicStep /\ NotLostEarlyStep]_vars

\* The first secret is staged under r, with a deadline that the clock reaches.
StagedToExpire(r) == Present([ref |-> r, gen |-> 1]) /\ entries[r].expires <= MaxTime
FirstStaged(r) == Present([ref |-> r, gen |-> 1])

\* Some expiry task runs.
TimerFires == \E t \in timers : FireTimer(t)
=============================================================================
