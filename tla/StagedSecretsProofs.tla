------------------------- MODULE StagedSecretsProofs -------------------------
(***************************************************************************)
(* Theorems about StagedSecrets, for any references, windows, callers,     *)
(* limits and life times: a secret is handed out at most once, to its      *)
(* owner and in time; a group is taken whole or not at all and nothing is  *)
(* lost early; and the limits hold, the one on bytes included, for which   *)
(* the sum over a finite map is shown to be what one expects of it.        *)
(***************************************************************************)
EXTENDS StagedSecrets, TLAPS, FiniteSetTheorems, WellFoundedInduction

----------------------------------------------------------------------------
(* Types.                                                                  *)

Entry == [owner : Owners, expires : Times, gen : Secrets, size : Sizes]
Handed == [gen : Secrets, owner : Owners, at : Times]

CallTypes ==
  {Idle} \cup [op : {"insert"}, owner : Owners, size : Sizes, at : 0 .. MaxTime]
         \cup [op : {"take"}, owner : Owners, refs : Groups, at : 0 .. MaxTime]
         \cup [op : {"drain"}, owner : Owners, refs : SUBSET Refs, at : 0 .. MaxTime,
               got : SUBSET Handed, failed : BOOLEAN]

\* A command has read the clock before now.
CallInv ==
  /\ call \in [Callers -> CallTypes]
  /\ \A c \in Callers : call[c] # Idle => call[c].at <= now

EntriesType == entries \in [DOMAIN entries -> Entry] /\ DOMAIN entries \subseteq Refs

OriginType ==
  /\ origin \in Seq([owner : Owners, expires : Times])
  /\ Len(origin) = gen

----------------------------------------------------------------------------
(* A secret in the store has not been taken.                               *)

\* An entry is the secret that was staged, it is the only one of its
\* generation, and nobody has taken it.
StoredInv ==
  /\ \A r \in DOMAIN entries :
       /\ entries[r].gen <= gen
       /\ taken[entries[r].gen] = 0
       /\ entries[r].owner = origin[entries[r].gen].owner
       /\ entries[r].expires = origin[entries[r].gen].expires
  /\ \A r, s \in DOMAIN entries : entries[r].gen = entries[s].gen => r = s
  /\ \A g \in Secrets : taken[g] <= 1 /\ (g > gen => taken[g] = 0)

\* h is a secret of its owner, asked for before its deadline.
InTime(h) ==
  h.gen <= gen /\ h.owner = origin[h.gen].owner /\ h.at < origin[h.gen].expires

\* So are the secrets that a drain holds until all of its takes have ended.
HandedInv ==
  /\ \A h \in handed : InTime(h)
  /\ \A c \in Callers : call[c] # Idle /\ call[c].op = "drain" => \A h \in call[c].got : InTime(h)

StagedInv ==
  TypeOK /\ CallInv /\ EntriesType /\ OriginType /\ StoredInv /\ HandedInv

\* The invariant holds in an empty store.
LEMMA StagedInit == StagedAssumption /\ Init => StagedInv
<1> SUFFICES ASSUME StagedAssumption, Init PROVE StagedInv
  OBVIOUS
<1>1. TypeOK
  BY DEF Init, TypeOK, StagedAssumption, Secrets, Times
<1>2. CallInv
  BY DEF Init, CallInv, CallTypes, Idle
<1>3. EntriesType /\ OriginType
  BY DEF Init, EntriesType, OriginType
<1>4. StoredInv /\ HandedInv
  BY DEF Init, StoredInv, HandedInv, Secrets, Idle, StagedAssumption
<1> QED
  BY <1>1, <1>2, <1>3, <1>4 DEF StagedInv

----------------------------------------------------------------------------
(* The entries that a step keeps.                                          *)

\* Entries leave the store, some of them because they are taken.
LEMMA EntriesLeave ==
  ASSUME StagedInv, NEW S \in SUBSET DOMAIN entries, NEW T \in SUBSET DOMAIN entries,
         S \cap T = {}, entries' = Keep(S), taken' = CountTaken(T), UNCHANGED <<gen, origin>>
  PROVE  EntriesType' /\ StoredInv' /\ taken' \in [Secrets -> Nat]
<1>1. DOMAIN entries' = S /\ \A r \in S : entries'[r] = entries[r]
  BY DEF Keep
<1>2. EntriesType'
  BY DEF Keep, StagedInv, EntriesType
<1>3. \A r \in DOMAIN entries : entries[r].gen \in Secrets /\ taken[entries[r].gen] = 0
  BY DEF StagedInv, StoredInv, TypeOK
<1>4. taken \in [Secrets -> Nat] /\ taken' \in [Secrets -> Nat]
  BY DEF StagedInv, TypeOK, CountTaken
<1>5. \A g \in Secrets : taken'[g] = IF \E r \in T : entries[r].gen = g THEN 1 ELSE taken[g]
  BY <1>3, <1>4 DEF CountTaken
<1>6. \A r \in S : taken'[entries[r].gen] = 0
  BY <1>3, <1>5 DEF StagedInv, StoredInv
<1>7. ASSUME NEW g \in Secrets
      PROVE  taken'[g] <= 1 /\ (g > gen => taken'[g] = 0)
  <2>1. taken[g] <= 1 /\ (g > gen => taken[g] = 0)
    BY DEF StagedInv, StoredInv
  <2>2. \A r \in T : entries[r].gen <= gen
    BY DEF StagedInv, StoredInv
  <2>3. gen \in Nat /\ g \in Nat
    BY DEF StagedInv, TypeOK, Secrets
  <2>4. CASE \E r \in T : entries[r].gen = g
    BY <1>5, <2>2, <2>3, <2>4
  <2>5. CASE ~\E r \in T : entries[r].gen = g
    BY <1>5, <2>1, <2>5
  <2> QED
    BY <2>4, <2>5
<1>8. \A r \in S : /\ entries'[r].gen <= gen' /\ entries'[r].owner = origin'[entries'[r].gen].owner
                   /\ entries'[r].expires = origin'[entries'[r].gen].expires
  BY <1>1 DEF StagedInv, StoredInv
<1>9. \A r, s \in S : entries'[r].gen = entries'[s].gen => r = s
  BY <1>1 DEF StagedInv, StoredInv
<1> QED
  BY <1>1, <1>2, <1>4, <1>6, <1>7, <1>8, <1>9 DEF StoredInv

\* Entries leave the store untaken.
LEMMA EntriesDropped ==
  ASSUME StagedInv, NEW S \in SUBSET DOMAIN entries, entries' = Keep(S),
         UNCHANGED <<gen, origin, taken>>
  PROVE  EntriesType' /\ StoredInv'
<1>1. CountTaken({}) = taken
  BY DEF CountTaken, StagedInv, TypeOK
<1> QED
  BY <1>1, EntriesLeave

\* The history grows with the secret that is staged.
LEMMA OriginGrows ==
  ASSUME StagedInv, gen' = gen + 1, NEW x \in [owner : Owners, expires : Times],
         origin' = Append(origin, x)
  PROVE  OriginType' /\ origin'[gen + 1] = x /\ \A g \in 1 .. gen : origin'[g] = origin[g]
BY DEF StagedInv, OriginType, TypeOK

\* A secret is staged under a fresh reference.
LEMMA EntryAdded ==
  ASSUME StagedInv, gen + 1 \in Secrets, NEW S \in SUBSET DOMAIN entries,
         NEW r \in Refs, r \notin S, NEW e \in Entry, e.gen = gen + 1,
         entries' = [x \in S \cup {r} |-> IF x = r THEN e ELSE entries[x]],
         origin'[gen + 1] = [owner |-> e.owner, expires |-> e.expires],
         \A g \in 1 .. gen : origin'[g] = origin[g],
         gen' = gen + 1, taken' = taken
  PROVE  EntriesType' /\ StoredInv'
<1>1. DOMAIN entries' = S \cup {r} /\ entries'[r] = e /\ \A x \in S : entries'[x] = entries[x]
  OBVIOUS
<1>2. gen \in Nat
  BY DEF StagedInv, TypeOK
<1>3. EntriesType'
  BY DEF StagedInv, EntriesType
<1>4. \A x \in S : entries[x].gen \in 1 .. gen
  BY <1>2 DEF StagedInv, StoredInv, EntriesType, Entry, Secrets
<1>5. \A x \in DOMAIN entries' :
        /\ entries'[x].gen <= gen'
        /\ taken'[entries'[x].gen] = 0
        /\ entries'[x].owner = origin'[entries'[x].gen].owner
        /\ entries'[x].expires = origin'[entries'[x].gen].expires
  <2>1. taken[gen + 1] = 0
    BY <1>2 DEF StagedInv, StoredInv
  <2> QED
    BY <1>1, <1>2, <1>4, <2>1 DEF StagedInv, StoredInv
<1>6. \A x, y \in DOMAIN entries' : entries'[x].gen = entries'[y].gen => x = y
  BY <1>1, <1>2, <1>4 DEF StagedInv, StoredInv
<1>7. \A g \in Secrets : taken'[g] <= 1 /\ (g > gen' => taken'[g] = 0)
  BY <1>2 DEF StagedInv, StoredInv, Secrets
<1> QED
  BY <1>3, <1>5, <1>6, <1>7 DEF StoredInv

\* The history of the secrets that were staged does not change.
Remembers == gen <= gen' /\ \A g \in 1 .. gen : origin'[g] = origin[g]

\* What was in time stays in time.
LEMMA InTimeStays ==
  ASSUME StagedInv, Remembers, gen' \in Nat, NEW h \in Handed, InTime(h)
  PROVE  InTime(h)'
<1>1. h.gen \in 1 .. gen /\ gen \in Nat
  BY DEF InTime, Handed, Secrets, StagedInv, TypeOK
<1> QED
  BY <1>1 DEF InTime, Remembers

\* What a successful take hands out.
LEMMA RecordInTime ==
  ASSUME StagedInv, NEW S \in SUBSET DOMAIN entries, NEW o \in Owners, NEW at \in 0 .. MaxTime,
         \A r \in S : entries[r].owner = o /\ at < entries[r].expires, StagedAssumption
  PROVE  Record(S, o, at) \in SUBSET Handed /\ \A h \in Record(S, o, at) : InTime(h)
<1>1. ASSUME NEW r \in S
      PROVE  LET h == [gen |-> entries[r].gen, owner |-> o, at |-> at]
             IN  h \in Handed /\ InTime(h)
  <2>1. entries[r].gen \in Secrets /\ at \in Times
    BY DEF StagedInv, TypeOK, Times, StagedAssumption
  <2> QED
    BY <2>1 DEF StagedInv, StoredInv, Handed, InTime
<1> QED
  BY <1>1 DEF Record

\* Secrets that were handed out, or that a drain holds, stay in time; new ones are.
LEMMA HandedStays ==
  ASSUME StagedInv, Remembers, gen' \in Nat, call' \in [Callers -> CallTypes],
         NEW S \in SUBSET Handed, \A h \in S : InTime(h), handed' \subseteq handed \cup S,
         \A c \in Callers : call'[c] # Idle /\ call'[c].op = "drain" =>
           \/ call'[c].got \subseteq S
           \/ call[c] # Idle /\ call[c].op = "drain" /\ call'[c].got \subseteq call[c].got \cup S
  PROVE  HandedInv'
<1>1. handed \in SUBSET Handed
  BY DEF StagedInv, TypeOK, Handed
<1>2. \A c \in Callers : call[c] # Idle /\ call[c].op = "drain" => call[c].got \in SUBSET Handed
  BY DEF StagedInv, CallInv, CallTypes
<1>3. \A h \in handed \cup S : InTime(h)'
  BY <1>1, InTimeStays DEF StagedInv, HandedInv
<1>4. ASSUME NEW c \in Callers, call'[c] # Idle, call'[c].op = "drain", NEW h \in call'[c].got
      PROVE  InTime(h)'
  BY <1>2, <1>4, InTimeStays DEF StagedInv, HandedInv
<1>5. \A h \in handed' : InTime(h)'
  BY <1>3
<1> QED
  BY <1>4, <1>5 DEF HandedInv, Idle

----------------------------------------------------------------------------
(* One step.                                                               *)

\* What every step shows of the types; the entries come from the lemmas above.
LEMMA TypesStep ==
  ASSUME StagedInv, EntriesType', now' \in 0 .. MaxTime, gen' \in 0 .. MaxSecrets,
         timers' \subseteq timers \cup [ref : Refs, gen : Secrets, expires : Times],
         taken' \in [Secrets -> Nat], handed' \subseteq handed \cup Handed
  PROVE  TypeOK'
<1>1. \A r \in DOMAIN entries' : entries'[r] \in Entry
  BY DEF EntriesType
<1> QED
  BY <1>1 DEF StagedInv, TypeOK, EntriesType, Entry, Handed

\* Time passes.
LEMMA TickStep ==
  ASSUME StagedAssumption, StagedInv, Tick
  PROVE  StagedInv'
<1>1. now \in Nat /\ now' \in 0 .. MaxTime /\ now <= now'
  BY DEF Tick, StagedInv, TypeOK, StagedAssumption
<1>2. \A c \in Callers : call[c] # Idle => call[c].at \in Nat
  BY DEF StagedInv, CallInv, CallTypes
<1>3. CallInv'
  BY <1>1, <1>2 DEF StagedInv, CallInv, Tick
<1> QED
  BY <1>1, <1>3 DEF Tick, StagedInv, TypeOK, EntriesType, OriginType, StoredInv, HandedInv, InTime

\* A command begins: it reads the clock, and waits for the lock.
LEMMA CallStep ==
  ASSUME StagedInv, NEW c \in Callers, call[c] = Idle, NEW k \in CallTypes,
         k # Idle, k.at = now, k.op = "drain" => k.got = {}, call' = [call EXCEPT ![c] = k],
         UNCHANGED <<now, entries, gen, timers, taken, origin, handed, purged>>
  PROVE  StagedInv'
<1>1. call' \in [Callers -> CallTypes] /\ now \in Nat
  BY DEF StagedInv, CallInv, TypeOK
<1>2. \A d \in Callers : call'[d] = IF d = c THEN k ELSE call[d]
  BY DEF StagedInv, CallInv
<1>3. CallInv'
  BY <1>1, <1>2 DEF StagedInv, CallInv
<1>4. HandedInv'
  BY <1>2 DEF StagedInv, HandedInv, InTime
<1> QED
  BY <1>3, <1>4 DEF StagedInv, TypeOK, EntriesType, OriginType, StoredInv

\* The beginning of each kind of command.
LEMMA BeginStep ==
  ASSUME StagedInv,
         \/ \E c \in Callers, o \in Owners, s \in Sizes : InsertCall(c, o, s)
         \/ \E c \in Callers, o \in Owners, g \in Groups : TakeCall(c, o, g)
         \/ \E c \in Callers, o \in Owners, S \in kSubset(2, Refs) : DrainCall(c, o, S)
  PROVE  StagedInv'
<1>1. now \in 0 .. MaxTime
  BY DEF StagedInv, TypeOK
<1>2. ASSUME NEW c \in Callers, NEW o \in Owners, NEW s \in Sizes, InsertCall(c, o, s)
      PROVE  StagedInv'
  <2> DEFINE k == [op |-> "insert", owner |-> o, size |-> s, at |-> now]
  <2>1. k \in CallTypes /\ k # Idle /\ k.at = now /\ k.op # "drain"
    BY <1>1 DEF CallTypes, Idle
  <2> QED
    BY <1>2, <2>1, CallStep DEF InsertCall
<1>3. ASSUME NEW c \in Callers, NEW o \in Owners, NEW g \in Groups, TakeCall(c, o, g)
      PROVE  StagedInv'
  <2> DEFINE k == [op |-> "take", owner |-> o, refs |-> g, at |-> now]
  <2>1. k \in CallTypes /\ k # Idle /\ k.at = now /\ k.op # "drain"
    BY <1>1 DEF CallTypes, Idle
  <2> QED
    BY <1>3, <2>1, CallStep DEF TakeCall
<1>4. ASSUME NEW c \in Callers, NEW o \in Owners, NEW S \in kSubset(2, Refs), DrainCall(c, o, S)
      PROVE  StagedInv'
  <2> DEFINE k == [op |-> "drain", owner |-> o, refs |-> S, at |-> now, got |-> {}, failed |-> FALSE]
  <2>1. k \in CallTypes /\ k # Idle /\ k.at = now /\ k.got = {}
    BY <1>1 DEF CallTypes, Idle, kSubset
  <2> QED
    BY <1>4, <2>1, CallStep DEF DrainCall
<1> QED
  BY <1>2, <1>3, <1>4

\* Expired entries go, and the secret is refused or staged.
LEMMA InsertStep ==
  ASSUME StagedAssumption, StagedInv, NEW c \in Callers, InsertLocked(c)
  PROVE  StagedInv'
<1> DEFINE o == call[c].owner
           at == call[c].at
           e == [owner |-> o, expires |-> at + TTL, gen |-> gen + 1, size |-> call[c].size]
           S == {r \in DOMAIN entries : entries[r].expires > at}
<1>1. /\ call[c].op = "insert" /\ gen < MaxSecrets
      /\ call' = [call EXCEPT ![c] = Idle]
      /\ UNCHANGED <<now, taken, handed, purged>>
      /\ \/ entries' = Keep(S) /\ UNCHANGED <<gen, timers, origin>>
         \/ /\ \E r \in FreshRefs(Keep(S)) :
                 /\ entries' = [x \in DOMAIN Keep(S) \cup {r} |-> IF x = r THEN e ELSE Keep(S)[x]]
                 /\ timers' = timers \cup {[ref |-> r, gen |-> gen + 1, expires |-> e.expires]}
            /\ gen' = gen + 1
            /\ origin' = Append(origin, [owner |-> o, expires |-> e.expires])
  BY Zenon DEF InsertLocked
<1>2. /\ gen \in Nat /\ gen \in 0 .. MaxSecrets /\ gen + 1 \in Secrets
      /\ taken \in [Secrets -> Nat] /\ now \in 0 .. MaxTime
  BY <1>1 DEF StagedInv, TypeOK, Secrets, StagedAssumption
<1>3. o \in Owners /\ at \in 0 .. MaxTime /\ call[c].size \in Sizes
  BY <1>1 DEF StagedInv, CallInv, CallTypes, Idle
<1>4. at + TTL \in Times /\ e \in Entry
  BY <1>2, <1>3 DEF Times, Entry, StagedAssumption
<1>5. /\ call' \in [Callers -> CallTypes]
      /\ \A d \in Callers : call'[d] = IF d = c THEN Idle ELSE call[d]
  BY <1>1 DEF StagedInv, CallInv, CallTypes
<1>6. CallInv'
  BY <1>1, <1>5 DEF StagedInv, CallInv
<1>7. CASE entries' = Keep(S) /\ UNCHANGED <<gen, timers, origin>>
  <2>1. EntriesType' /\ StoredInv'
    BY <1>1, <1>7, EntriesDropped
  <2>2. TypeOK' /\ OriginType' /\ HandedInv'
    BY <1>1, <1>2, <1>5, <1>7, <2>1, TypesStep DEF StagedInv, OriginType, HandedInv, InTime
  <2> QED
    BY <1>6, <2>1, <2>2 DEF StagedInv
<1>8. ASSUME NEW r \in FreshRefs(Keep(S)),
             entries' = [x \in DOMAIN Keep(S) \cup {r} |-> IF x = r THEN e ELSE Keep(S)[x]],
             timers' = timers \cup {[ref |-> r, gen |-> gen + 1, expires |-> e.expires]},
             gen' = gen + 1, origin' = Append(origin, [owner |-> o, expires |-> e.expires])
      PROVE  StagedInv'
  <2>1. r \in Refs /\ r \notin S
    BY <1>8 DEF FreshRefs, Keep
  <2>2. entries' = [x \in S \cup {r} |-> IF x = r THEN e ELSE entries[x]]
    BY <1>8 DEF Keep
  <2>3. /\ OriginType' /\ origin'[gen + 1] = [owner |-> e.owner, expires |-> e.expires]
        /\ \A g \in 1 .. gen : origin'[g] = origin[g]
    BY <1>3, <1>4, <1>8, OriginGrows
  <2>4. gen' = gen + 1 /\ taken' = taken /\ S \in SUBSET DOMAIN entries
    BY <1>1, <1>8
  <2>5. Remembers /\ gen' \in Nat
    BY <1>2, <2>3, <2>4 DEF Remembers
  <2>6. e.gen = gen + 1
    OBVIOUS
  <2> HIDE DEF e, S
  <2>7. EntriesType' /\ StoredInv'
    BY <1>2, <1>4, <2>1, <2>2, <2>3, <2>4, <2>6, EntryAdded
  <2>8. TypeOK'
    <3>1. [ref |-> r, gen |-> gen + 1, expires |-> e.expires] \in [ref : Refs, gen : Secrets, expires : Times]
      BY <1>2, <1>4, <2>1 DEF Entry
    <3>2. gen' \in 0 .. MaxSecrets
      BY <1>2, <2>4 DEF Secrets
    <3>3. timers' \subseteq timers \cup [ref : Refs, gen : Secrets, expires : Times]
      BY <1>8, <3>1
    <3>4. now' \in 0 .. MaxTime /\ taken' \in [Secrets -> Nat] /\ handed' \subseteq handed
      BY <1>1, <1>2, <2>4
    <3> QED
      BY <2>7, <3>2, <3>3, <3>4, TypesStep
  <2>9. HandedInv'
    <3>1. \A d \in Callers : call'[d] # Idle => call'[d] = call[d]
      BY <1>5
    <3> QED
      BY <1>1, <1>5, <2>5, <3>1, HandedStays, {} \in SUBSET Handed
  <2> QED
    BY <1>6, <2>3, <2>7, <2>8, <2>9 DEF StagedInv
<1> QED
  BY <1>1, <1>7, <1>8

\* An expiry task ends, or the entries of a window go.
LEMMA LeaveStep ==
  ASSUME StagedInv, NEW S \in SUBSET DOMAIN entries, entries' = Keep(S), timers' \subseteq timers,
         UNCHANGED <<now, gen, call, taken, origin, handed>>
  PROVE  StagedInv'
<1>1. EntriesType' /\ StoredInv'
  BY EntriesDropped
<1>2. TypeOK'
  BY <1>1, TypesStep DEF StagedInv, TypeOK
<1> QED
  BY <1>1, <1>2 DEF StagedInv, CallInv, OriginType, HandedInv, InTime

\* The steps of the expiry tasks and of the close of a window.
LEMMA TimerStep ==
  ASSUME StagedInv, (\E t \in timers : CancelTimer(t) \/ FireTimer(t)) \/ (\E o \in Owners : PurgeOwner(o))
  PROVE  StagedInv'
<1>1. entries = Keep(DOMAIN entries)
  BY DEF Keep, StagedInv, EntriesType
<1>2. \E S \in SUBSET DOMAIN entries : entries' = Keep(S)
  <2>1. ASSUME NEW o \in Owners, PurgeOwner(o)
        PROVE  \E S \in SUBSET DOMAIN entries : entries' = Keep(S)
    BY <2>1 DEF PurgeOwner
  <2>2. ASSUME NEW t \in timers, CancelTimer(t) \/ FireTimer(t)
        PROVE  entries' = Keep(DOMAIN entries) \/ entries' = Keep(DOMAIN entries \ {t.ref})
    BY <1>1, <2>2 DEF CancelTimer, FireTimer
  <2> QED
    BY <2>1, <2>2
<1>3. timers' \subseteq timers /\ UNCHANGED <<now, gen, call, taken, origin, handed>>
  BY DEF CancelTimer, FireTimer, PurgeOwner
<1> QED
  BY <1>2, <1>3, LeaveStep

\* A reference that is found to be fine is there, of the owner and in time.
LEMMA CheckOk ==
  ASSUME NEW o, NEW refs, NEW at \in Nat, NEW n, Check(o, refs, at, n) = "Ok",
         \A r \in DOMAIN entries : entries[r].expires \in Nat
  PROVE  refs[n] \in DOMAIN entries /\ at < entries[refs[n]].expires /\ entries[refs[n]].owner = o
BY DEF Check

\* Only a reference whose deadline has passed is found to be expired.
LEMMA CheckExpired ==
  ASSUME NEW o, NEW refs, NEW at, NEW n, Check(o, refs, at, n) = "Expired"
  PROVE  refs[n] \in DOMAIN entries /\ at >= entries[refs[n]].expires
BY DEF Check

\* What every take knows of its command.
LEMMA CommandType ==
  ASSUME StagedAssumption, StagedInv, NEW c \in Callers
  PROVE  /\ call[c].op = "take" => call[c] \in [op : {"take"}, owner : Owners, refs : Groups, at : 0 .. MaxTime]
         /\ call[c].op = "drain" =>
              call[c] \in [op : {"drain"}, owner : Owners, refs : SUBSET Refs, at : 0 .. MaxTime,
                           got : SUBSET Handed, failed : BOOLEAN]
         /\ \A r \in DOMAIN entries : entries[r].expires \in Nat
         /\ 0 .. MaxTime \subseteq Nat
BY DEF StagedAssumption, StagedInv, CallInv, CallTypes, Idle, TypeOK, Times

\* A group that is fine throughout is taken.
LEMMA TakenWhole ==
  ASSUME StagedAssumption, StagedInv, NEW o \in Owners, NEW at \in 0 .. MaxTime,
         NEW S \in SUBSET DOMAIN entries, \A r \in S : entries[r].owner = o /\ at < entries[r].expires,
         entries' = AfterTake(S), taken' = CountTaken(S), UNCHANGED <<gen, origin>>
  PROVE  /\ EntriesType' /\ StoredInv' /\ taken' \in [Secrets -> Nat]
         /\ Record(S, o, at) \in SUBSET Handed /\ \A h \in Record(S, o, at) : InTime(h)
<1> DEFINE R == DOMAIN entries \ S
<1>1. R \in SUBSET DOMAIN entries /\ R \cap S = {} /\ entries' = Keep(R)
  BY DEF AfterTake
<1> HIDE DEF R
<1> QED
  BY <1>1, EntriesLeave, RecordInTime

\* A group is taken whole, or at most its expired member is dropped.
LEMMA TakeStep ==
  ASSUME StagedAssumption, StagedInv, NEW c \in Callers, TakeLocked(c)
  PROVE  StagedInv'
<1> DEFINE o == call[c].owner
           refs == call[c].refs
           at == call[c].at
           S == {refs[n] : n \in DOMAIN refs}
<1>1. /\ call[c].op = "take" /\ call' = [call EXCEPT ![c] = Idle]
      /\ UNCHANGED <<now, gen, timers, origin, purged>>
      /\ IF Invalid(o, refs, at) = {}
         THEN entries' = AfterTake(S) /\ taken' = CountTaken(S) /\ handed' = handed \cup Record(S, o, at)
         ELSE /\ entries' = Keep(DOMAIN entries \ LostOnFailure(o, refs, at))
              /\ UNCHANGED <<taken, handed>>
  BY DEF TakeLocked
<1>2. o \in Owners /\ refs \in Groups /\ at \in 0 .. MaxTime /\ at \in Nat
      /\ \A r \in DOMAIN entries : entries[r].expires \in Nat
  BY <1>1, CommandType
<1>3. /\ call' \in [Callers -> CallTypes]
      /\ \A d \in Callers : call'[d] # Idle => call'[d] = call[d]
  BY <1>1 DEF StagedInv, CallInv, CallTypes
<1>4. CallInv' /\ OriginType' /\ Remembers /\ gen' \in Nat
  BY <1>1, <1>3 DEF StagedInv, CallInv, OriginType, Remembers, TypeOK
<1>5. CASE Invalid(o, refs, at) = {}
  <2>1. \A n \in DOMAIN refs : Check(o, refs, at, n) = "Ok"
    BY <1>5 DEF Invalid
  <2>2. S \in SUBSET DOMAIN entries /\ \A r \in S : entries[r].owner = o /\ at < entries[r].expires
    BY <1>2, <2>1, CheckOk
  <2> HIDE DEF S
  <2>3. /\ EntriesType' /\ StoredInv' /\ taken' \in [Secrets -> Nat]
        /\ Record(S, o, at) \in SUBSET Handed /\ \A h \in Record(S, o, at) : InTime(h)
    BY <1>1, <1>2, <1>5, <2>2, TakenWhole
  <2>4. TypeOK'
    BY <1>1, <1>5, <2>3, TypesStep DEF StagedInv, TypeOK
  <2>5. HandedInv'
    BY <1>1, <1>3, <1>4, <1>5, <2>3, HandedStays
  <2> QED
    BY <1>4, <2>3, <2>4, <2>5 DEF StagedInv
<1>6. CASE Invalid(o, refs, at) # {}
  <2>1. EntriesType' /\ StoredInv'
    BY <1>1, <1>6, EntriesDropped
  <2>2. TypeOK'
    BY <1>1, <1>6, <2>1, TypesStep DEF StagedInv, TypeOK
  <2>3. HandedInv'
    BY <1>1, <1>3, <1>4, <1>6, HandedStays, {} \in SUBSET Handed
  <2> QED
    BY <1>4, <2>1, <2>2, <2>3 DEF StagedInv
<1> QED
  BY <1>5, <1>6

\* One field of a session or port-forward start.
LEMMA DrainStep ==
  ASSUME StagedAssumption, StagedInv, NEW c \in Callers, NEW r \in Refs, DrainOne(c, r)
  PROVE  StagedInv'
<1> DEFINE o == call[c].owner
           at == call[c].at
           ok == Check(o, <<r>>, at, 1) = "Ok"
<1>1. /\ call[c].op = "drain"
      /\ entries' = IF ok THEN AfterTake({r})
                    ELSE IF Check(o, <<r>>, at, 1) = "Expired" THEN Keep(DOMAIN entries \ {r}) ELSE entries
      /\ taken' = IF ok THEN CountTaken({r}) ELSE taken
      /\ call' = [call EXCEPT ![c] = [call[c] EXCEPT !.refs = @ \ {r},
                    !.got = IF ok THEN @ \cup Record({r}, o, at) ELSE @, !.failed = @ \/ ~ok]]
      /\ UNCHANGED <<now, gen, timers, origin, handed, purged>>
  BY DEF DrainOne
<1>2. /\ call[c] \in [op : {"drain"}, owner : Owners, refs : SUBSET Refs, at : 0 .. MaxTime,
                      got : SUBSET Handed, failed : BOOLEAN]
      /\ at \in Nat /\ \A x \in DOMAIN entries : entries[x].expires \in Nat
  BY <1>1, CommandType
<1>3. ok => /\ {r} \in SUBSET DOMAIN entries
            /\ \A x \in {r} : entries[x].owner = o /\ at < entries[x].expires
  BY <1>2, CheckOk, <<r>>[1] = r
<1> DEFINE new == IF ok THEN Record({r}, o, at) ELSE {}
<1>4. /\ EntriesType' /\ StoredInv' /\ taken' \in [Secrets -> Nat]
      /\ new \in SUBSET Handed /\ \A h \in new : InTime(h)
  <2>1. CASE ok
    BY <1>1, <1>2, <1>3, <2>1, TakenWhole
  <2>2. CASE ~ok
    <3>1. entries = Keep(DOMAIN entries)
      BY DEF Keep, StagedInv, EntriesType
    <3>2. \E S \in SUBSET DOMAIN entries : entries' = Keep(S)
      BY <1>1, <2>2, <3>1
    <3> QED
      BY <1>1, <2>2, <3>2, EntriesDropped DEF StagedInv, TypeOK
  <2> QED
    BY <2>1, <2>2
<1> DEFINE k == [call[c] EXCEPT !.refs = @ \ {r}, !.got = @ \cup new, !.failed = @ \/ ~ok]
<1>5. call' = [call EXCEPT ![c] = k]
  BY <1>1, <1>2
<1>6. k \in CallTypes /\ k # Idle /\ k.at = at /\ k.got = call[c].got \cup new
  BY <1>2, <1>4 DEF CallTypes, Idle
<1> HIDE DEF k, new, ok
<1>7. /\ call' \in [Callers -> CallTypes]
      /\ \A d \in Callers : call'[d] = IF d = c THEN k ELSE call[d]
  BY <1>5, <1>6 DEF StagedInv, CallInv
<1>8. CallInv' /\ OriginType' /\ Remembers /\ gen' \in Nat
  BY <1>1, <1>2, <1>6, <1>7 DEF StagedInv, CallInv, OriginType, Remembers, TypeOK, Idle
<1>9. TypeOK'
  BY <1>1, <1>4, TypesStep DEF StagedInv, TypeOK
<1>10. HandedInv'
  <2>1. \A d \in Callers : call'[d] # Idle /\ call'[d].op = "drain" =>
          call[d] # Idle /\ call[d].op = "drain" /\ call'[d].got \subseteq call[d].got \cup new
    BY <1>1, <1>2, <1>6, <1>7 DEF Idle
  <2> QED
    BY <1>1, <1>4, <1>7, <1>8, <2>1, HandedStays
<1> QED
  BY <1>4, <1>8, <1>9, <1>10 DEF StagedInv

\* The end of a start hands out what its takes have got, unless one of them failed.
LEMMA DrainEndStep ==
  ASSUME StagedAssumption, StagedInv, NEW c \in Callers, DrainEnd(c)
  PROVE  StagedInv'
<1>1. /\ call[c].op = "drain" /\ call' = [call EXCEPT ![c] = Idle]
      /\ handed' \subseteq handed \cup call[c].got
      /\ UNCHANGED <<now, entries, gen, timers, taken, origin, purged>>
  BY DEF DrainEnd
<1>2. call[c] # Idle /\ call[c].got \in SUBSET Handed
  BY <1>1, CommandType DEF Idle
<1>3. \A h \in call[c].got : InTime(h)
  BY <1>1, <1>2 DEF StagedInv, HandedInv
<1>4. /\ call' \in [Callers -> CallTypes]
      /\ \A d \in Callers : call'[d] # Idle => call'[d] = call[d]
  BY <1>1 DEF StagedInv, CallInv, CallTypes
<1>5. /\ CallInv' /\ OriginType' /\ Remembers /\ gen' \in Nat /\ EntriesType' /\ StoredInv'
      /\ now' \in 0 .. MaxTime /\ gen' \in 0 .. MaxSecrets /\ taken' \in [Secrets -> Nat]
  BY <1>1, <1>4 DEF StagedInv, CallInv, OriginType, Remembers, TypeOK, EntriesType, StoredInv
<1>6. TypeOK'
  BY <1>1, <1>2, <1>5, TypesStep
<1>7. HandedInv'
  BY <1>1, <1>2, <1>3, <1>4, <1>5, HandedStays
<1> QED
  BY <1>5, <1>6, <1>7 DEF StagedInv

\* Every step keeps the invariant.
LEMMA StagedNext == StagedAssumption /\ StagedInv /\ [Next]_vars => StagedInv'
<1> SUFFICES ASSUME StagedAssumption, StagedInv, [Next]_vars PROVE StagedInv'
  OBVIOUS
<1>1. CASE UNCHANGED vars
  BY <1>1 DEF vars, StagedInv, TypeOK, CallInv, EntriesType, OriginType, StoredInv, HandedInv, InTime
<1> QED
  BY <1>1, TickStep, BeginStep, InsertStep, TakeStep, DrainEndStep, DrainStep, TimerStep DEF Next

\* The invariant behind the theorems.
LEMMA StagedAlways ==
  ASSUME StagedAssumption
  PROVE  Spec => []StagedInv
<1>1. Init => StagedInv
  BY StagedInit
<1>2. StagedInv /\ [Next]_vars => StagedInv'
  BY StagedNext
<1> QED
  BY <1>1, <1>2, PTL DEF Spec

\* A staged secret leaves EphemeralCredentialStore or ManagedKeyStagingStore at most
\* once, and a command goes on only with secrets that its own window staged and whose
\* deadline had not passed when the command read the clock.
THEOREM SecretsAreHandedOutOnce ==
  ASSUME StagedAssumption
  PROVE  Spec => []HandedOutOnce
<1>1. StagedInv => HandedOutOnce
  BY DEF StagedInv, HandedOutOnce, TakenOnce, StoredInv, HandedToOwnerInTime, HandedInv, InTime
<1> QED
  BY <1>1, StagedAlways, PTL

----------------------------------------------------------------------------
(* What leaves the store, and why.                                         *)

\* The entry under r stays as it is.
Stays(r) == r \in DOMAIN entries' /\ entries'[r] = entries[r]

\* Entries outside S stay.
LEMMA OthersStay ==
  ASSUME NEW S, entries' = Keep(DOMAIN entries \ S)
  PROVE  \A r \in DOMAIN entries \ S : Stays(r)
BY DEF Keep, Stays

\* A taken secret is counted.
LEMMA TakenCounts ==
  ASSUME StagedInv, NEW S \in SUBSET DOMAIN entries, taken' = CountTaken(S), NEW r \in S
  PROVE  taken'[entries[r].gen] > taken[entries[r].gen]
<1>1. entries[r].gen \in Secrets /\ taken[entries[r].gen] \in Nat
  BY DEF StagedInv, TypeOK
<1> QED
  BY <1>1 DEF CountTaken

\* An insert drops what had expired when it read the clock, and nothing else.
LEMMA InsertDrops ==
  ASSUME StagedAssumption, StagedInv, NEW c \in Callers, InsertLocked(c), NEW r \in DOMAIN entries
  PROVE  Stays(r) \/ entries[r].expires <= now
<1> DEFINE S == {x \in DOMAIN entries : entries[x].expires > call[c].at}
           e == [owner |-> call[c].owner, expires |-> call[c].at + TTL, gen |-> gen + 1,
                 size |-> call[c].size]
<1>1. /\ call[c].op = "insert"
      /\ \/ entries' = Keep(S)
         \/ \E x \in FreshRefs(Keep(S)) :
              entries' = [y \in DOMAIN Keep(S) \cup {x} |-> IF y = x THEN e ELSE Keep(S)[y]]
  BY Zenon DEF InsertLocked
<1>2. DOMAIN Keep(S) = S /\ \A x \in S : Keep(S)[x] = entries[x]
  BY DEF Keep
<1> HIDE DEF e
<1>3. ASSUME r \in S PROVE Stays(r)
  <2>1. CASE entries' = Keep(S)
    BY <1>2, <1>3, <2>1 DEF Stays
  <2>2. ASSUME NEW x \in Refs \ S,
               entries' = [y \in S \cup {x} |-> IF y = x THEN e ELSE Keep(S)[y]]
        PROVE  Stays(r)
    BY <1>2, <1>3, <2>2 DEF Stays
  <2> HIDE DEF S
  <2> QED
    BY <1>1, <1>2, <2>1, <2>2 DEF FreshRefs
<1>4. call[c].at \in Nat /\ call[c].at <= now /\ now \in Nat /\ entries[r].expires \in Nat
  BY <1>1 DEF StagedInv, CallInv, CallTypes, Idle, StagedAssumption, TypeOK, Times
<1> QED
  BY <1>3, <1>4

\* A take hands out what it takes; a failed one drops at most what had expired.
LEMMA TakeDrops ==
  ASSUME StagedAssumption, StagedInv, NEW c \in Callers, TakeLocked(c), NEW r \in DOMAIN entries
  PROVE  \/ Stays(r)
         \/ taken'[entries[r].gen] > taken[entries[r].gen]
         \/ entries[r].expires <= call[c].at
<1> DEFINE o == call[c].owner
           refs == call[c].refs
           at == call[c].at
           S == {refs[n] : n \in DOMAIN refs}
<1>1. /\ call[c].op = "take"
      /\ IF Invalid(o, refs, at) = {}
         THEN entries' = AfterTake(S) /\ taken' = CountTaken(S)
         ELSE entries' = Keep(DOMAIN entries \ LostOnFailure(o, refs, at))
  BY DEF TakeLocked
<1>2. at \in Nat /\ \A x \in DOMAIN entries : entries[x].expires \in Nat
  BY <1>1, CommandType
<1>3. CASE Invalid(o, refs, at) = {}
  <2>1. S \in SUBSET DOMAIN entries
    BY <1>2, <1>3, CheckOk DEF Invalid
  <2> HIDE DEF S
  <2> QED
    BY <1>1, <1>3, <2>1, OthersStay, TakenCounts DEF AfterTake
<1>4. CASE Invalid(o, refs, at) # {}
  <2>1. r \in LostOnFailure(o, refs, at) => entries[r].expires <= at
    BY <1>2, CheckExpired DEF LostOnFailure
  <2> QED
    BY <1>1, <1>4, <2>1, OthersStay
<1> QED
  BY <1>3, <1>4

\* One field of a start takes its secret, drops it as expired, or leaves it.
LEMMA DrainDrops ==
  ASSUME StagedAssumption, StagedInv, NEW c \in Callers, NEW x \in Refs, DrainOne(c, x),
         NEW r \in DOMAIN entries
  PROVE  \/ Stays(r)
         \/ taken'[entries[r].gen] > taken[entries[r].gen]
         \/ entries[r].expires <= now
<1> DEFINE o == call[c].owner
           at == call[c].at
           ok == Check(o, <<x>>, at, 1) = "Ok"
<1>1. /\ call[c].op = "drain"
      /\ entries' = IF ok THEN AfterTake({x})
                    ELSE IF Check(o, <<x>>, at, 1) = "Expired" THEN Keep(DOMAIN entries \ {x}) ELSE entries
      /\ taken' = IF ok THEN CountTaken({x}) ELSE taken
  BY DEF DrainOne
<1>2. /\ at \in Nat /\ \A y \in DOMAIN entries : entries[y].expires \in Nat
      /\ at <= now /\ now \in Nat
  BY <1>1, CommandType DEF StagedInv, CallInv, TypeOK, Idle
<1>3. CASE ok
  <2>1. {x} \in SUBSET DOMAIN entries
    BY <1>2, <1>3, CheckOk, <<x>>[1] = x
  <2>2. entries' = Keep(DOMAIN entries \ {x}) /\ taken' = CountTaken({x})
    BY <1>1, <1>3 DEF AfterTake
  <2>3. r # x => Stays(r)
    BY <2>2, OthersStay
  <2>4. r = x => taken'[entries[r].gen] > taken[entries[r].gen]
    BY <2>1, <2>2, TakenCounts
  <2> QED
    BY <2>3, <2>4
<1>4. CASE ~ok /\ Check(o, <<x>>, at, 1) = "Expired"
  <2>1. at >= entries[x].expires
    BY <1>4, CheckExpired, <<x>>[1] = x
  <2>2. entries' = Keep(DOMAIN entries \ {x})
    BY <1>1, <1>4
  <2>3. r # x => Stays(r)
    BY <2>2, OthersStay
  <2>4. r = x => entries[r].expires <= now
    BY <1>2, <2>1
  <2> QED
    BY <2>3, <2>4
<1>5. CASE ~ok /\ Check(o, <<x>>, at, 1) # "Expired"
  BY <1>1, <1>5 DEF Stays
<1> QED
  BY <1>3, <1>4, <1>5

\* Whatever the step, an entry stays, or has expired, is taken, or goes with its window.
LEMMA LostInTime ==
  ASSUME StagedAssumption, StagedInv, [Next]_vars, NEW r \in DOMAIN entries
  PROVE  \/ Stays(r)
         \/ entries[r].expires <= now
         \/ taken'[entries[r].gen] > taken[entries[r].gen]
         \/ entries[r].gen \in purged'
<1>1. CASE UNCHANGED entries
  BY <1>1 DEF Stays
<1>2. ASSUME NEW c \in Callers, TakeLocked(c)
      PROVE  entries[r].expires <= call[c].at => entries[r].expires <= now
  <2>1. call[c].op = "take"
    BY <1>2 DEF TakeLocked
  <2> QED
    BY <2>1, CommandType DEF StagedInv, CallInv, TypeOK, Idle
<1>3. ASSUME NEW t \in timers, FireTimer(t)
      PROVE  Stays(r) \/ entries[r].expires <= now
  BY <1>3, OthersStay DEF FireTimer, ExpiresNow, Stays
<1>4. ASSUME NEW o \in Owners, PurgeOwner(o)
      PROVE  Stays(r) \/ entries[r].gen \in purged'
  BY <1>4 DEF PurgeOwner, Keep, Stays
<1>5. CASE \/ Tick
           \/ \E c \in Callers, o \in Owners, s \in Sizes : InsertCall(c, o, s)
           \/ \E c \in Callers, o \in Owners, g \in Groups : TakeCall(c, o, g)
           \/ \E c \in Callers, o \in Owners, S \in kSubset(2, Refs) : DrainCall(c, o, S)
           \/ \E c \in Callers : DrainEnd(c)
           \/ \E t \in timers : CancelTimer(t)
           \/ UNCHANGED vars
  BY <1>1, <1>5 DEF Tick, InsertCall, TakeCall, DrainCall, DrainEnd, CancelTimer, vars
<1> QED
  BY <1>2, <1>3, <1>4, <1>5, InsertDrops, TakeDrops, DrainDrops DEF Next

\* A take that has begun ends in its own step under the lock.
LEMMA TakeEnds ==
  ASSUME StagedInv, [Next]_vars, NEW c \in Callers, call[c] # Idle, call[c].op = "take", call'[c] = Idle
  PROVE  TakeLocked(c)
<1>1. call \in [Callers -> CallTypes]
  BY DEF StagedInv, CallInv
<1>2. ASSUME NEW d \in Callers, NEW k, call' = [call EXCEPT ![d] = k], d # c
      PROVE  FALSE
  BY <1>1, <1>2
<1>3. ASSUME UNCHANGED call
      PROVE  FALSE
  BY <1>3
<1>4. ASSUME NEW d \in Callers, call[d] = Idle \/ call[d].op # "take", call'[c] # call[c]
      PROVE  d # c
  BY <1>4
<1>5. ASSUME NEW d \in Callers, NEW o \in Owners, NEW s \in Sizes, InsertCall(d, o, s)
      PROVE  FALSE
  BY <1>2, <1>4, <1>5 DEF InsertCall
<1>6. ASSUME NEW d \in Callers, NEW o \in Owners, NEW g \in Groups, TakeCall(d, o, g)
      PROVE  FALSE
  BY <1>2, <1>4, <1>6 DEF TakeCall
<1>7. ASSUME NEW d \in Callers, NEW o \in Owners, NEW S \in kSubset(2, Refs), DrainCall(d, o, S)
      PROVE  FALSE
  BY <1>2, <1>4, <1>7 DEF DrainCall
<1>8. ASSUME NEW d \in Callers, InsertLocked(d)
      PROVE  FALSE
  BY <1>2, <1>4, <1>8 DEF InsertLocked
<1>9. ASSUME NEW d \in Callers, TakeLocked(d), d # c
      PROVE  FALSE
  BY <1>2, <1>9 DEF TakeLocked
<1>10. ASSUME NEW d \in Callers, DrainEnd(d)
       PROVE  FALSE
  BY <1>2, <1>4, <1>10 DEF DrainEnd
<1>11. ASSUME NEW d \in Callers, NEW r \in Refs, DrainOne(d, r)
       PROVE  FALSE
  <2>1. d # c /\ call'[c] = call[c]
    BY <1>1, <1>4, <1>11 DEF DrainOne
  <2> QED
    BY <2>1
<1>12. CASE Tick \/ (\E t \in timers : CancelTimer(t) \/ FireTimer(t)) \/ (\E o \in Owners : PurgeOwner(o))
            \/ UNCHANGED vars
  BY <1>3, <1>12 DEF Tick, CancelTimer, FireTimer, PurgeOwner, vars
<1> QED
  BY <1>5, <1>6, <1>7, <1>8, <1>9, <1>10, <1>11, <1>12 DEF Next

\* Every step keeps groups whole and loses nothing early.
LEMMA AtomicStep ==
  ASSUME StagedAssumption, StagedInv, [Next]_vars
  PROVE  GroupIsAtomicStep /\ NotLostEarlyStep
<1>1. ASSUME NEW c \in Callers, call[c] # Idle, call[c].op = "take", call'[c] = Idle, taken' = taken,
             NEW r \in DOMAIN entries, entries[r].expires > call[c].at
      PROVE  r \in DOMAIN entries'
  <2>1. call[c].at \in Nat /\ entries[r].expires \in Nat /\ taken[entries[r].gen] \in Nat
    BY <1>1, CommandType DEF StagedInv, TypeOK
  <2>2. Stays(r)
    BY <1>1, <2>1, TakeEnds, TakeDrops
  <2> QED
    BY <2>2 DEF Stays
<1>2. ASSUME NEW r \in DOMAIN entries,
             r \notin DOMAIN entries' \/ entries'[r].gen # entries[r].gen
      PROVE  \/ entries[r].expires <= now
             \/ taken'[entries[r].gen] > taken[entries[r].gen]
             \/ entries[r].gen \in purged'
  BY <1>2, LostInTime DEF Stays
<1>3. GroupIsAtomicStep
  BY <1>1 DEF GroupIsAtomicStep
<1>4. NotLostEarlyStep
  BY <1>2 DEF NotLostEarlyStep
<1> QED
  BY <1>3, <1>4

\* take_many consumes every reference of its group or none that has time left, and
\* an entry leaves the store only by being taken, by its deadline or with its window.
THEOREM GroupsAreAtomic ==
  ASSUME StagedAssumption
  PROVE  Spec => GroupIsAtomic
<1>1. StagedInv /\ [Next]_vars => [GroupIsAtomicStep /\ NotLostEarlyStep]_vars
  BY AtomicStep
<1> QED
  BY <1>1, StagedAlways, PTL DEF Spec, GroupIsAtomic

----------------------------------------------------------------------------
(* The sum of the sizes of the entries of a map (Bytes).                   *)

\* A set of numbers that is not empty has a smallest member.
LEMMA LeastNumber ==
  ASSUME NEW N, N \subseteq Nat, N # {}
  PROVE  \E n \in N : \A m \in N : n <= m
<1>1. PICK n \in N : \A m \in N : ~(<<m, n>> \in OpToRel(<, Nat))
  BY WFMin, NatLessThanWellFounded, Zenon
<1>2. \A m \in N : ~(m < n)
  BY <1>1 DEF OpToRel
<1> QED
  BY <1>2

\* A set of sets that is not empty has a smallest member.
LEMMA SmallestSet ==
  ASSUME NEW D, IsFiniteSet(D), NEW T \in SUBSET SUBSET D, T # {}
  PROVE  \E s \in T : \A t \in T : Cardinality(s) <= Cardinality(t)
<1> DEFINE N == {Cardinality(s) : s \in T}
<1>1. N \subseteq Nat /\ N # {}
  BY FS_Subset, FS_CardinalityType
<1>2. PICK n \in N : \A m \in N : n <= m
  <2> HIDE DEF N
  <2> QED
    BY <1>1, LeastNumber
<1> QED
  BY <1>2

\* The element that the sum over s takes first.
First(s) == CHOOSE x \in s : TRUE

\* What the sum over s is, from the sums u over smaller sets.
SumStep(f, u, s) == IF s = {} THEN 0 ELSE f[First(s)].size + u[s \ {First(s)}]

\* The sums over the sets of references of f.
IsSums(f, u) == u = [s \in SUBSET DOMAIN f |-> SumStep(f, u, s)]
Sums(f) == CHOOSE u : IsSums(f, u)

\* The bytes of a map are the sum over all of its references.
LEMMA BytesIsSum == \A f : Bytes(f) = Sums(f)[DOMAIN f]
BY DEF Bytes, MapThenSumSet, MapThenFoldSet, Sums, IsSums, SumStep, First

\* A map of finitely many entries has sums: from those over sets of at most n
\* references come those over sets of n + 1.
LEMMA SumsExist ==
  ASSUME NEW f, IsFiniteSet(DOMAIN f)
  PROVE  IsSums(f, Sums(f))
<1> DEFINE D == DOMAIN f
           Upto(n) == {s \in SUBSET D : Cardinality(s) <= n}
           OfSize(n, u) == u = [s \in Upto(n) |-> SumStep(f, u, s)]
           Missing == {n \in Nat : ~\E u : OfSize(n, u)}
<1>1. \A s \in SUBSET D : Cardinality(s) \in Nat /\ Cardinality(s) <= Cardinality(D)
                          /\ (Cardinality(s) = 0 <=> s = {}) /\ IsFiniteSet(s)
  BY FS_Subset, FS_CardinalityType, FS_EmptySet
<1>2. \A s \in SUBSET D : s # {} => /\ s \ {First(s)} \in SUBSET D
                                    /\ Cardinality(s \ {First(s)}) = Cardinality(s) - 1
  BY <1>1, FS_RemoveElement DEF First
<1>3. ASSUME Missing # {} PROVE FALSE
  <2>1. Missing \subseteq Nat
    OBVIOUS
  <2>2. PICK n \in Missing : \A m \in Missing : n <= m
    <3> HIDE DEF Missing
    <3> QED
      BY <1>3, <2>1, LeastNumber
  <2>3. CASE n = 0
    <3>1. Upto(0) = {{}}
      BY <1>1
    <3> DEFINE z == [s \in Upto(0) |-> 0]
    <3>2. OfSize(0, z)
      BY <3>1 DEF SumStep
    <3> QED
      BY <2>3, <3>2
  <2>4. CASE n # 0
    <3>1. n - 1 \in Nat /\ n - 1 < n
      BY <2>4
    <3>2. PICK u : OfSize(n - 1, u)
      <4> HIDE DEF OfSize
      <4>1. n - 1 \notin Missing
        BY <2>2, <3>1
      <4> QED
        BY <3>1, <4>1
    <3> DEFINE z == [s \in Upto(n) |-> SumStep(f, u, s)]
    <3>3. \A s \in Upto(n) : s # {} => s \ {First(s)} \in Upto(n - 1)
      BY <1>1, <1>2, <3>1
    <3>4. \A s \in Upto(n - 1) : s \in Upto(n) /\ z[s] = u[s]
      BY <1>1, <3>1, <3>2
    <3>5. \A s \in Upto(n) : SumStep(f, u, s) = SumStep(f, z, s)
      BY <3>3, <3>4 DEF SumStep
    <3>6. OfSize(n, z)
      BY <3>5
    <3> QED
      BY <3>6
  <2> QED
    BY <2>3, <2>4
<1>4. Cardinality(D) \in Nat
  BY FS_CardinalityType
<1>5. PICK u : OfSize(Cardinality(D), u)
  BY <1>3, <1>4
<1>6. Upto(Cardinality(D)) = SUBSET D
  BY <1>1
<1>7. IsSums(f, u)
  BY <1>5, <1>6 DEF IsSums
<1> QED
  BY <1>7 DEF Sums

\* A map of finitely many secrets.
Sized(f) == IsFiniteSet(DOMAIN f) /\ \A x \in DOMAIN f : f[x].size \in Nat

\* A sum is a number, and any of its references can be taken out first.
Splits(f, s) == Sums(f)[s] \in Nat /\ \A x \in s : Sums(f)[s] = f[x].size + Sums(f)[s \ {x}]

\* It splits if the sums over fewer references do.
LEMMA SumStepSplits ==
  ASSUME NEW f, Sized(f), NEW s \in SUBSET DOMAIN f,
         \A t \in SUBSET s : t # s => Splits(f, t)
  PROVE  Splits(f, s)
<1> DEFINE u == Sums(f)
           p == First(s)
<1>1. u[s] = IF s = {} THEN 0 ELSE f[p].size + u[s \ {p}]
  BY SumsExist DEF Sized, IsSums, SumStep
<1> HIDE DEF u
<1>2. CASE s = {}
  BY <1>1, <1>2 DEF Splits, u
<1>3. CASE s # {}
  <2>1. p \in s
    BY <1>3 DEF First
  <2> HIDE DEF p
  <2>2. ASSUME NEW x \in s
        PROVE  /\ u[s \ {x}] \in Nat /\ f[x].size \in Nat
               /\ \A y \in s \ {x} : u[s \ {x}] = f[y].size + u[(s \ {x}) \ {y}]
    BY DEF Splits, Sized, u
  <2>3. u[s] \in Nat
    <3>1. u[s \ {p}] \in Nat /\ f[p].size \in Nat
      BY <2>1, <2>2
    <3> QED
      BY <1>1, <1>3, <3>1
  <2>4. ASSUME NEW x \in s, x # p
        PROVE  u[s] = f[x].size + u[s \ {x}]
    <3>1. x \in s \ {p} /\ p \in s \ {x}
      BY <2>1, <2>4
    <3> DEFINE rest == (s \ {p}) \ {x}
    <3>2. (s \ {x}) \ {p} = rest /\ rest \in SUBSET s /\ rest # s
      BY <2>1
    <3>3. u[rest] \in Nat
      BY <3>2 DEF Splits, u
    <3> HIDE DEF rest
    <3>4. u[s \ {p}] = f[x].size + u[rest] /\ u[s \ {x}] = f[p].size + u[rest]
      BY <2>1, <2>2, <3>1, <3>2 DEF rest
    <3>5. f[x].size \in Nat /\ f[p].size \in Nat
      BY <2>1, <2>2
    <3> QED
      BY <1>1, <1>3, <3>3, <3>4, <3>5
  <2> QED
    BY <1>1, <1>3, <2>3, <2>4 DEF Splits, u
<1> QED
  BY <1>2, <1>3

\* So every sum over a finite map splits.
LEMMA SumSplits ==
  ASSUME NEW f, Sized(f)
  PROVE  \A s \in SUBSET DOMAIN f : Splits(f, s)
<1> DEFINE Bad == {s \in SUBSET DOMAIN f : ~Splits(f, s)}
<1>1. ASSUME Bad # {} PROVE FALSE
  <2>1. PICK s \in Bad : \A t \in Bad : Cardinality(s) <= Cardinality(t)
    BY <1>1, SmallestSet DEF Sized
  <2>2. ASSUME NEW t \in SUBSET s, t # s
        PROVE  Splits(f, t)
    <3>1. IsFiniteSet(s)
      BY FS_Subset DEF Sized
    <3>2. Cardinality(t) \in Nat /\ Cardinality(s) \in Nat /\ Cardinality(t) < Cardinality(s)
      BY <2>2, <3>1, FS_Subset, FS_CardinalityType
    <3> QED
      BY <2>1, <3>2
  <2> QED
    BY <2>2, SumStepSplits
<1> QED
  BY <1>1

\* A sum depends on the entries it sums.
LEMMA SumAgrees ==
  ASSUME NEW f, NEW g, Sized(f), Sized(g), DOMAIN f \subseteq DOMAIN g,
         \A x \in DOMAIN f : f[x] = g[x]
  PROVE  Bytes(f) = Sums(g)[DOMAIN f]
<1> DEFINE Bad == {s \in SUBSET DOMAIN f : Sums(f)[s] # Sums(g)[s]}
<1>1. Sums(f)[{}] = 0 /\ Sums(g)[{}] = 0
  BY SumsExist DEF Sized, IsSums, SumStep
<1>2. ASSUME Bad # {} PROVE FALSE
  <2>1. PICK s \in Bad : \A t \in Bad : Cardinality(s) <= Cardinality(t)
    BY <1>2, SmallestSet DEF Sized
  <2>2. PICK x : x \in s
    BY <1>1, <2>1
  <2>3. Cardinality(s \ {x}) = Cardinality(s) - 1 /\ Cardinality(s) \in Nat
    BY <2>2, FS_Subset, FS_CardinalityType, FS_RemoveElement DEF Sized
  <2>4. Sums(f)[s \ {x}] = Sums(g)[s \ {x}]
    BY <2>1, <2>3
  <2>5. Sums(f)[s] = f[x].size + Sums(f)[s \ {x}] /\ Sums(g)[s] = g[x].size + Sums(g)[s \ {x}]
    BY <2>2, SumSplits DEF Splits
  <2> QED
    BY <2>2, <2>4, <2>5
<1> QED
  BY <1>2, BytesIsSum

\* Fewer references have a smaller sum.
LEMMA SumShrinks ==
  ASSUME NEW f, Sized(f), NEW t \in SUBSET DOMAIN f
  PROVE  Sums(f)[t] <= Bytes(f)
<1> DEFINE Bad == {s \in SUBSET DOMAIN f : t \subseteq s /\ ~(Sums(f)[t] <= Sums(f)[s])}
<1>1. \A s \in SUBSET DOMAIN f : Sums(f)[s] \in Nat
  BY SumSplits DEF Splits
<1>2. ASSUME Bad # {} PROVE FALSE
  <2>1. PICK s \in Bad : \A r \in Bad : Cardinality(s) <= Cardinality(r)
    BY <1>2, SmallestSet DEF Sized
  <2>2. s # t
    BY <1>1, <2>1
  <2>3. PICK x : x \in s /\ x \notin t
    BY <2>1, <2>2
  <2>4. Cardinality(s \ {x}) = Cardinality(s) - 1 /\ Cardinality(s) \in Nat
    BY <2>3, FS_Subset, FS_CardinalityType, FS_RemoveElement DEF Sized
  <2>5. s \ {x} \notin Bad
    BY <2>1, <2>4
  <2>6. Sums(f)[t] <= Sums(f)[s \ {x}]
    BY <2>3, <2>5
  <2>7. Sums(f)[s] = f[x].size + Sums(f)[s \ {x}] /\ f[x].size \in Nat
    BY <2>3, SumSplits DEF Sized, Splits
  <2> QED
    BY <1>1, <2>1, <2>6, <2>7
<1> QED
  BY <1>2, BytesIsSum

\* What is kept of a map is not larger than the map.
LEMMA BytesKept ==
  ASSUME NEW f, NEW g, Sized(f), Sized(g), DOMAIN f \subseteq DOMAIN g,
         \A x \in DOMAIN f : f[x] = g[x]
  PROVE  Bytes(f) <= Bytes(g)
BY SumAgrees, SumShrinks

\* An entry more adds its size.
LEMMA BytesAdded ==
  ASSUME NEW f, NEW g, Sized(f), Sized(g), NEW r, r \notin DOMAIN f, DOMAIN g = DOMAIN f \cup {r},
         \A x \in DOMAIN f : f[x] = g[x]
  PROVE  Bytes(g) = g[r].size + Bytes(f)
<1>1. Bytes(f) = Sums(g)[DOMAIN f]
  BY SumAgrees
<1>2. Sums(g)[DOMAIN g] = g[r].size + Sums(g)[DOMAIN g \ {r}]
  BY SumSplits DEF Splits
<1>3. DOMAIN g \ {r} = DOMAIN f
  OBVIOUS
<1> QED
  BY <1>1, <1>2, <1>3, BytesIsSum

----------------------------------------------------------------------------
(* The limits of the store.                                                *)

Finite == IsFiniteSet(DOMAIN entries)

OwnedBy(f, o) == {r \in DOMAIN f : f[r].owner = o}

\* The store is a map of finitely many secrets, and so is what is kept of it.
LEMMA EntriesAreSized ==
  ASSUME StagedAssumption, StagedInv, Finite
  PROVE  Sized(entries) /\ \A S \in SUBSET DOMAIN entries : Sized(Keep(S))
<1>1. \A r \in DOMAIN entries : entries[r].size \in Nat
  BY DEF StagedInv, TypeOK, StagedAssumption
<1>2. ASSUME NEW S \in SUBSET DOMAIN entries PROVE Sized(Keep(S))
  BY <1>1, FS_Subset DEF Keep, Sized, Finite
<1> QED
  BY <1>1, <1>2 DEF Sized, Finite

\* What is left of the store is within the limits.
LEMMA KeptWithinLimits ==
  ASSUME StagedAssumption, StagedInv, Finite, WithinLimits, NEW S \in SUBSET DOMAIN entries,
         entries' = Keep(S)
  PROVE  Finite' /\ WithinLimits'
<1>1. DOMAIN entries' = S /\ \A r \in S : entries'[r] = entries[r]
  BY DEF Keep
<1>2. Finite' /\ Cardinality(DOMAIN entries') <= MaxEntries
  <2>1. /\ IsFiniteSet(S) /\ Cardinality(S) \in Nat /\ Cardinality(S) <= Cardinality(DOMAIN entries)
        /\ Cardinality(DOMAIN entries) \in Nat
    BY FS_Subset, FS_CardinalityType DEF Finite
  <2> QED
    BY <1>1, <2>1 DEF Finite, WithinLimits, StagedAssumption
<1>3. ASSUME NEW o \in Owners
      PROVE  Cardinality(OwnedBy(entries', o)) <= MaxPerOwner
  <2>1. OwnedBy(entries', o) \subseteq OwnedBy(entries, o) /\ IsFiniteSet(OwnedBy(entries, o))
    BY <1>1, FS_Subset DEF OwnedBy, Finite
  <2>2. Cardinality(OwnedBy(entries, o)) <= MaxPerOwner
    BY DEF WithinLimits, OwnedBy
  <2>3. /\ Cardinality(OwnedBy(entries', o)) \in Nat /\ Cardinality(OwnedBy(entries, o)) \in Nat
        /\ Cardinality(OwnedBy(entries', o)) <= Cardinality(OwnedBy(entries, o))
    BY <2>1, FS_Subset, FS_CardinalityType
  <2> QED
    BY <2>2, <2>3 DEF StagedAssumption
<1>4. Bytes(entries') <= MaxBytes
  <2>1. Sized(entries) /\ Sized(Keep(S))
    BY EntriesAreSized
  <2>2. DOMAIN Keep(S) \subseteq DOMAIN entries /\ \A x \in DOMAIN Keep(S) : Keep(S)[x] = entries[x]
    BY DEF Keep
  <2>3. Bytes(Keep(S)) <= Bytes(entries)
    BY <2>1, <2>2, BytesKept
  <2>4. Bytes(Keep(S)) \in Nat /\ Bytes(entries) \in Nat
    BY <2>1, BytesIsSum, SumSplits DEF Splits
  <2>5. Bytes(entries) <= MaxBytes /\ MaxBytes \in Nat
    BY DEF WithinLimits, StagedAssumption
  <2> QED
    BY <2>3, <2>4, <2>5
<1> QED
  BY <1>2, <1>3, <1>4 DEF WithinLimits, OwnedBy

\* A secret that does not exceed the limits, with what is kept, is within them.
LEMMA AddedWithinLimits ==
  ASSUME StagedAssumption, NEW f, NEW g, NEW o \in Owners, NEW size \in Nat, NEW r, r \notin DOMAIN f,
         Sized(f), ~Exceeds(f, o, size), DOMAIN g = DOMAIN f \cup {r},
         \A x \in DOMAIN f : g[x] = f[x], g[r].owner = o, g[r].size = size,
         \A p \in Owners : Cardinality(OwnedBy(f, p)) <= MaxPerOwner
  PROVE  /\ IsFiniteSet(DOMAIN g)
         /\ Cardinality(DOMAIN g) <= MaxEntries
         /\ \A p \in Owners : Cardinality(OwnedBy(g, p)) <= MaxPerOwner
         /\ Bytes(g) <= MaxBytes
<1>1. /\ Cardinality(DOMAIN f) < MaxEntries
      /\ Cardinality(OwnedBy(f, o)) < MaxPerOwner
      /\ Bytes(f) + size <= MaxBytes
  <2>1. Cardinality(DOMAIN f) \in Nat /\ Cardinality(OwnedBy(f, o)) \in Nat
    BY FS_Subset, FS_CardinalityType DEF Sized, OwnedBy
  <2>2. Bytes(f) \in Nat
    BY BytesIsSum, SumSplits DEF Splits
  <2> QED
    BY <2>1, <2>2 DEF Exceeds, OwnedBy, StagedAssumption
<1>2. IsFiniteSet(DOMAIN g) /\ Cardinality(DOMAIN g) <= MaxEntries
  <2>1. IsFiniteSet(DOMAIN g) /\ Cardinality(DOMAIN g) = Cardinality(DOMAIN f) + 1
    BY FS_AddElement DEF Sized
  <2>2. Cardinality(DOMAIN f) \in Nat /\ MaxEntries \in Nat
    BY FS_CardinalityType DEF Sized, StagedAssumption
  <2> QED
    BY <1>1, <2>1, <2>2
<1>3. ASSUME NEW p \in Owners
      PROVE  Cardinality(OwnedBy(g, p)) <= MaxPerOwner
  <2>1. IsFiniteSet(OwnedBy(f, p)) /\ Cardinality(OwnedBy(f, p)) \in Nat
    BY FS_Subset, FS_CardinalityType DEF Sized, OwnedBy
  <2>2. CASE p = o
    <3>1. OwnedBy(g, p) = OwnedBy(f, p) \cup {r} /\ r \notin OwnedBy(f, p)
      BY <2>2 DEF OwnedBy
    <3>2. Cardinality(OwnedBy(g, p)) = Cardinality(OwnedBy(f, p)) + 1
      BY <2>1, <3>1, FS_AddElement
    <3>3. Cardinality(OwnedBy(f, p)) < MaxPerOwner /\ MaxPerOwner \in Nat
      BY <1>1, <2>2 DEF StagedAssumption
    <3> QED
      BY <2>1, <3>2, <3>3
  <2>3. CASE p # o
    <3>1. OwnedBy(g, p) = OwnedBy(f, p)
      BY <2>3 DEF OwnedBy
    <3> QED
      BY <3>1
  <2> QED
    BY <2>2, <2>3
<1>4. Bytes(g) <= MaxBytes
  <2>1. Sized(g)
    BY <1>2 DEF Sized
  <2>2. Bytes(g) = size + Bytes(f) /\ Bytes(f) \in Nat
    BY <2>1, BytesAdded, BytesIsSum, SumSplits DEF Splits
  <2> QED
    BY <1>1, <2>2
<1> QED
  BY <1>2, <1>3, <1>4

\* An insert keeps the limits, whether it refuses the secret or stages it.
LEMMA InsertWithinLimits ==
  ASSUME StagedAssumption, StagedInv, Finite, WithinLimits, NEW c \in Callers, InsertLocked(c)
  PROVE  Finite' /\ WithinLimits'
<1> DEFINE o == call[c].owner
           S == {x \in DOMAIN entries : entries[x].expires > call[c].at}
           e == [owner |-> o, expires |-> call[c].at + TTL, gen |-> gen + 1, size |-> call[c].size]
           Added(x) == [y \in DOMAIN Keep(S) \cup {x} |-> IF y = x THEN e ELSE Keep(S)[y]]
<1>1. /\ call[c].op = "insert"
      /\ \/ entries' = Keep(S)
         \/ /\ ~Exceeds(Keep(S), o, call[c].size)
            /\ \E x \in FreshRefs(Keep(S)) : entries' = Added(x)
  BY Zenon DEF InsertLocked
<1>2. o \in Owners /\ call[c].size \in Nat
  BY <1>1 DEF StagedInv, CallInv, CallTypes, Idle, StagedAssumption
<1>3. e.owner = o /\ e.size = call[c].size
  OBVIOUS
<1>4. Sized(Keep(S)) /\ S \in SUBSET DOMAIN entries
  BY EntriesAreSized
<1> HIDE DEF e, S
<1>5. \A p \in Owners : Cardinality(OwnedBy(Keep(S), p)) <= MaxPerOwner
  <2>1. ASSUME NEW p \in Owners PROVE Cardinality(OwnedBy(Keep(S), p)) <= MaxPerOwner
    <3>1. OwnedBy(Keep(S), p) \subseteq OwnedBy(entries, p) /\ IsFiniteSet(OwnedBy(entries, p))
      BY <1>4, FS_Subset DEF OwnedBy, Keep, Finite
    <3>2. Cardinality(OwnedBy(entries, p)) <= MaxPerOwner
      BY DEF WithinLimits, OwnedBy
    <3>3. /\ Cardinality(OwnedBy(Keep(S), p)) \in Nat /\ Cardinality(OwnedBy(entries, p)) \in Nat
          /\ Cardinality(OwnedBy(Keep(S), p)) <= Cardinality(OwnedBy(entries, p))
      BY <3>1, FS_Subset, FS_CardinalityType
    <3> QED
      BY <3>2, <3>3 DEF StagedAssumption
  <2> QED
    BY <2>1
<1>6. ASSUME ~Exceeds(Keep(S), o, call[c].size), NEW x \in FreshRefs(Keep(S)), entries' = Added(x)
      PROVE  Finite' /\ WithinLimits'
  <2> DEFINE f == Keep(S)
  <2>1. /\ DOMAIN entries' = DOMAIN f \cup {x} /\ entries'[x] = e /\ x \notin DOMAIN f
        /\ \A y \in DOMAIN f : entries'[y] = f[y]
    BY <1>6 DEF FreshRefs
  <2> HIDE DEF f
  <2>2. /\ IsFiniteSet(DOMAIN entries') /\ Cardinality(DOMAIN entries') <= MaxEntries
        /\ \A p \in Owners : Cardinality(OwnedBy(entries', p)) <= MaxPerOwner
        /\ Bytes(entries') <= MaxBytes
    <3>1. Sized(f) /\ ~Exceeds(f, o, call[c].size)
      BY <1>4, <1>6 DEF f
    <3>2. \A p \in Owners : Cardinality(OwnedBy(f, p)) <= MaxPerOwner
      BY <1>5 DEF f
    <3>3. entries'[x].owner = o /\ entries'[x].size = call[c].size
      BY <1>3, <2>1
    <3> QED
      BY <1>2, <2>1, <3>1, <3>2, <3>3, AddedWithinLimits
  <2> QED
    BY <2>2 DEF Finite, WithinLimits, OwnedBy
<1>7. CASE entries' = Keep(S)
  BY <1>4, <1>7, KeptWithinLimits
<1> QED
  BY <1>1, <1>6, <1>7

\* Every step keeps the limits.
LEMMA LimitsNext ==
  ASSUME StagedAssumption, StagedInv, Finite, WithinLimits, [Next]_vars
  PROVE  Finite' /\ WithinLimits'
<1>1. CASE UNCHANGED entries
  BY <1>1 DEF Finite, WithinLimits
<1>2. CASE \E S \in SUBSET DOMAIN entries : entries' = Keep(S)
  BY <1>2, KeptWithinLimits
<1>3. ASSUME NEW c \in Callers, TakeLocked(c)
      PROVE  \E S \in SUBSET DOMAIN entries : entries' = Keep(S)
  BY <1>3 DEF TakeLocked, AfterTake
<1>4. ASSUME NEW c \in Callers, NEW r \in Refs, DrainOne(c, r)
      PROVE  UNCHANGED entries \/ \E S \in SUBSET DOMAIN entries : entries' = Keep(S)
  BY <1>4 DEF DrainOne, AfterTake
<1>5. ASSUME NEW t \in timers, FireTimer(t)
      PROVE  UNCHANGED entries \/ \E S \in SUBSET DOMAIN entries : entries' = Keep(S)
  BY <1>5 DEF FireTimer
<1>6. ASSUME NEW o \in Owners, PurgeOwner(o)
      PROVE  \E S \in SUBSET DOMAIN entries : entries' = Keep(S)
  BY <1>6 DEF PurgeOwner
<1>7. CASE \/ Tick
           \/ \E c \in Callers, o \in Owners, s \in Sizes : InsertCall(c, o, s)
           \/ \E c \in Callers, o \in Owners, g \in Groups : TakeCall(c, o, g)
           \/ \E c \in Callers, o \in Owners, S \in kSubset(2, Refs) : DrainCall(c, o, S)
           \/ \E c \in Callers : DrainEnd(c)
           \/ \E t \in timers : CancelTimer(t)
           \/ UNCHANGED vars
  BY <1>1, <1>7 DEF Tick, InsertCall, TakeCall, DrainCall, DrainEnd, CancelTimer, vars
<1> QED
  BY <1>1, <1>2, <1>3, <1>4, <1>5, <1>6, <1>7, InsertWithinLimits DEF Next

\* The limits on entries, on the entries of a window and on the bytes of all secrets
\* together hold at every moment: insert checks them, with what it stages counted in,
\* in the critical section that adds the entry.
THEOREM LimitsHold ==
  ASSUME StagedAssumption
  PROVE  Spec => []WithinLimits
<1>1. Init => Finite /\ WithinLimits
  <2> SUFFICES ASSUME Init PROVE Finite /\ WithinLimits
    OBVIOUS
  <2>1. DOMAIN entries = {}
    BY DEF Init
  <2>2. Finite /\ Sized(entries)
    BY <2>1, FS_EmptySet DEF Finite, Sized
  <2>3. Bytes(entries) = 0
    BY <2>1, <2>2, BytesIsSum, SumsExist DEF IsSums, SumStep, Sized
  <2>4. \A o \in Owners : {r \in DOMAIN entries : entries[r].owner = o} = {}
    BY <2>1
  <2> QED
    BY <2>1, <2>2, <2>3, <2>4, FS_EmptySet DEF WithinLimits, StagedAssumption
<1>2. StagedInv /\ (Finite /\ WithinLimits) /\ [Next]_vars => (Finite /\ WithinLimits)'
  BY LimitsNext
<1> QED
  BY <1>1, <1>2, StagedAlways, PTL DEF Spec

\* The staged secrets are sound: what SecretsAreHandedOutOnce and LimitsHold say.
THEOREM StagedSecretsAreSound ==
  ASSUME StagedAssumption
  PROVE  Spec => []StagedSound
<1>1. HandedOutOnce /\ WithinLimits => StagedSound
  BY DEF StagedSound
<1> QED
  BY <1>1, SecretsAreHandedOutOnce, LimitsHold, PTL
=============================================================================
