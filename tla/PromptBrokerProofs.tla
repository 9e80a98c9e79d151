-------------------------- MODULE PromptBrokerProofs --------------------------
(***************************************************************************)
(* Proofs about PromptBroker, for any number of attempts and windows and   *)
(* any size of the broadcast receivers.  The invariant follows an answer   *)
(* from the pending map through the oneshot channel to the verdict.        *)
(***************************************************************************)
EXTENDS PromptBroker, TLAPS

\* What a broadcast receiver is.
Receivers == [live : BOOLEAN, queue : Seq(Ids), lagged : BOOLEAN]

\* The type of everything but the receivers, and theirs.
ControlTyped ==
  /\ owner \in [Attempts -> Windows \cup {NoWindow}]
  /\ stage \in [Attempts -> {"idle", "hostKey", "interactive", "connected",
                             "failed", "cancelled"}]
  /\ req \in [Ids -> {"none", "insert", "send", "wait", "expired", "remove",
                      "done", "dropped"}]
  /\ pending \subseteq Ids
  /\ slot \in [Ids -> {"open", "accept", "deny", "closed"}]
  /\ verdict \in [Ids -> {"none", "accept", "refuse"}]
  /\ reply \in [Ids -> [by : Windows \cup {NoWindow}, accept : BOOLEAN]]

WindowsTyped ==
  /\ seen \in [Windows -> SUBSET Ids]
  /\ alive \subseteq Windows
  /\ cleanup \in [Windows -> {"none", "hostKey", "interactive", "done"}]
  /\ late \in [Windows -> SUBSET Ids]

ReceiversTyped ==
  /\ subs \in [Brokers -> [Windows -> Receivers]]
  /\ \A b \in Brokers, w \in Windows : Len(subs[b][w].queue) <= Buffer

\* A request that can still be answered has not been answered.
PendingUnanswered ==
  \A i \in pending :
    /\ reply[i] = NoReply
    /\ slot[i] \in {"open", "closed"}
    /\ req[i] \in {"send", "wait", "expired", "remove", "dropped"}

\* A request that was not inserted into the map is untouched.
NotInserted ==
  \A i \in Ids :
    req[i] \in {"none", "insert"} =>
      /\ i \notin pending
      /\ reply[i] = NoReply
      /\ slot[i] = "open"
      /\ verdict[i] = "none"

\* The owner answered what is in the channel or became the verdict.
AnswersAreOwners ==
  \A i \in Ids :
    slot[i] = "accept" \/ verdict[i] = "accept" =>
      /\ reply[i].accept
      /\ reply[i].by = owner[i[1]]

\* An attempt that was not started has made no request.
NotStarted == \A i \in Ids : stage[i[1]] = "idle" => req[i] = "none"

\* Nobody has heard of a request that was not made.
Unheard ==
  /\ \A b \in Brokers, w \in Windows : \A n \in 1..Len(subs[b][w].queue) :
       req[subs[b][w].queue[n]] # "none"
  /\ \A w \in Windows : \A i \in seen[w] : req[i] # "none"

Answers ==
  ControlTyped /\ PendingUnanswered /\ NotInserted /\ AnswersAreOwners /\ NotStarted
    /\ NoConnectBeforeHostKey

Prompts ==
  WindowsTyped /\ ReceiversTyped /\ Unheard /\ PromptOnlyToOwner

PromptInv == Answers /\ Prompts

LEMMA Typed == PromptInv => TypeOK
BY DEF PromptInv, Answers, Prompts, ControlTyped, WindowsTyped, ReceiversTyped, Receivers, TypeOK

LEMMA PromptInit == PromptAssumption /\ Init => PromptInv
<1> SUFFICES ASSUME PromptAssumption, Init PROVE PromptInv
  OBVIOUS
<1> USE DEF PromptAssumption, Init, Closed, NoReply, Ids, Brokers
<1>1. Answers
  BY DEF Answers, ControlTyped, PendingUnanswered, NotInserted, AnswersAreOwners, NotStarted,
         NoConnectBeforeHostKey
<1>2. Prompts
  BY DEF Prompts, WindowsTyped, ReceiversTyped, Receivers, Unheard, PromptOnlyToOwner
<1> QED
  BY <1>1, <1>2 DEF PromptInv

\* The receivers and windows are not concerned by a step of a request that has
\* been made, or of an attempt that makes one.
LEMMA PromptsKept ==
  ASSUME ControlTyped, Prompts, UNCHANGED <<owner, subs, seen, alive, cleanup>>,
         late' = late \/ late' \in [Windows -> SUBSET Ids],
         \A i \in Ids : req[i] # "none" => req'[i] # "none"
  PROVE  Prompts'
<1>1. /\ \A b \in Brokers, w \in Windows : \A n \in 1..Len(subs[b][w].queue) :
           subs[b][w].queue[n] \in Ids
      /\ \A w \in Windows : \A i \in seen[w] : i \in Ids
  BY DEF Prompts, WindowsTyped, ReceiversTyped, Receivers
<1>2. Unheard'
  BY <1>1 DEF Prompts, Unheard
<1> QED
  BY <1>2 DEF Prompts, WindowsTyped, ReceiversTyped, PromptOnlyToOwner

\* An id is a pair of an attempt and a broker.
LEMMA IdParts ==
  \A i \in Ids : i[1] \in Attempts /\ i[2] \in Brokers /\ i = <<i[1], i[2]>>
BY DEF Ids

LEMMA IdOf ==
  ASSUME NEW a \in Attempts, NEW b \in Brokers
  PROVE  <<a, b>> \in Ids /\ <<a, b>>[1] = a /\ <<a, b>>[2] = b
BY DEF Ids

\* A broadcast receiver keeps its type and its bound, and holds nothing but what
\* it held and what was sent.
LEMMA DeliverSound ==
  ASSUME PromptAssumption, NEW s \in Receivers, NEW i \in Ids, Len(s.queue) <= Buffer
  PROVE  /\ Deliver(s, i) \in Receivers
         /\ Len(Deliver(s, i).queue) <= Buffer
         /\ \A n \in 1..Len(Deliver(s, i).queue) :
              \/ Deliver(s, i).queue[n] = i
              \/ \E m \in 1..Len(s.queue) : Deliver(s, i).queue[n] = s.queue[m]
<1>b. Buffer \in Nat /\ Buffer > 0
  BY DEF PromptAssumption
<1>s. /\ s = [live |-> s.live, queue |-> s.queue, lagged |-> s.lagged]
      /\ s.live \in BOOLEAN /\ s.queue \in Seq(Ids) /\ s.lagged \in BOOLEAN
  BY DEF Receivers
<1>1. CASE ~s.live
  <2>1. Deliver(s, i) = s
    BY <1>1 DEF Deliver
  <2> QED
    BY <2>1
<1>2. CASE s.live /\ Len(s.queue) < Buffer
  <2>1. Deliver(s, i) = [live |-> s.live, queue |-> Append(s.queue, i), lagged |-> s.lagged]
    BY <1>2, <1>s DEF Deliver
  <2>2. /\ Append(s.queue, i) \in Seq(Ids)
        /\ Len(Append(s.queue, i)) = Len(s.queue) + 1
        /\ \A n \in 1..(Len(s.queue) + 1) :
             Append(s.queue, i)[n] = IF n <= Len(s.queue) THEN s.queue[n] ELSE i
    BY <1>s
  <2> QED
    BY <1>2, <1>s, <1>b, <2>1, <2>2 DEF Receivers
<1>3. CASE s.live /\ ~(Len(s.queue) < Buffer)
  <2> DEFINE rest == Tail(s.queue)
  <2>1. Len(s.queue) = Buffer /\ s.queue # <<>>
    BY <1>3, <1>s, <1>b
  <2>2. /\ rest \in Seq(Ids)
        /\ Len(rest) = Buffer - 1
        /\ \A n \in 1..(Buffer - 1) : rest[n] = s.queue[n + 1]
    BY <2>1, <1>s, <1>b
  <2>3. Deliver(s, i) = [live |-> s.live, queue |-> Append(rest, i), lagged |-> TRUE]
    BY <1>3, <1>s DEF Deliver
  <2> HIDE DEF rest
  <2>4. /\ Append(rest, i) \in Seq(Ids)
        /\ Len(Append(rest, i)) = Buffer
        /\ \A n \in 1..Buffer : Append(rest, i)[n] = IF n <= Buffer - 1 THEN rest[n] ELSE i
    BY <2>2, <1>b
  <2>5. \A n \in 1..Buffer : Append(rest, i)[n] = i \/ \E m \in 1..Buffer : Append(rest, i)[n] = s.queue[m]
    <3> SUFFICES ASSUME NEW n \in 1..Buffer
                 PROVE  Append(rest, i)[n] = i \/ \E m \in 1..Buffer : Append(rest, i)[n] = s.queue[m]
      OBVIOUS
    <3>1. CASE n = Buffer
      BY <3>1, <2>4, <1>b
    <3>2. CASE n # Buffer
      <4>1. n + 1 \in 1..Buffer /\ Append(rest, i)[n] = s.queue[n + 1]
        BY <3>2, <2>2, <2>4, <1>b
      <4> QED
        BY <4>1
    <3> QED
      BY <3>1, <3>2
  <2> QED
    BY <1>s, <2>1, <2>3, <2>4, <2>5 DEF Receivers
<1> QED
  BY <1>1, <1>2, <1>3, <1>s

\* Starting an attempt: nothing is known of its requests yet.
LEMMA VerifyKept ==
  ASSUME PromptInv, NEW a \in Attempts, NEW w \in Windows, Verify(a, w)
  PROVE  PromptInv'
<1> DEFINE h == <<a, "hostKey">>
<1>1. h \in Ids /\ h[1] = a /\ <<a, "interactive">> \in Ids
  BY IdOf DEF Brokers
<1>2. /\ stage[a] = "idle"
      /\ owner' = [owner EXCEPT ![a] = w]
      /\ \/ stage' = [stage EXCEPT ![a] = "interactive"] /\ req' = req
         \/ stage' = [stage EXCEPT ![a] = "hostKey"] /\ req' = [req EXCEPT ![h] = "insert"]
      /\ UNCHANGED <<pending, slot, verdict, subs, seen, alive, cleanup, late, reply>>
  BY DEF Verify
<1>3. req[h] = "none" /\ \A i \in Ids : i[1] = a => req[i] = "none"
  BY <1>1, <1>2 DEF PromptInv, Answers, NotStarted
<1>4. \A x \in Attempts : <<x, "hostKey">> \in Ids /\ (<<x, "hostKey">> = h => x = a)
  BY IdOf DEF Brokers
<1>p. \A i \in Ids : i[1] \in Attempts
  BY IdParts
<1> HIDE DEF h
<1>5. ControlTyped' /\ PendingUnanswered' /\ NotInserted' /\ NotStarted'
  <2>1. ControlTyped'
    BY <1>1, <1>2 DEF PromptInv, Answers, ControlTyped
  <2>2. PendingUnanswered'
    BY <1>1, <1>2, <1>3 DEF PromptInv, Answers, ControlTyped, PendingUnanswered
  <2>3. NotInserted'
    BY <1>1, <1>2, <1>3 DEF PromptInv, Answers, ControlTyped, NotInserted
  <2>4. NotStarted'
    BY <1>1, <1>2, <1>p DEF PromptInv, Answers, ControlTyped, NotStarted
  <2> QED
    BY <2>1, <2>2, <2>3, <2>4
<1>6. AnswersAreOwners'
  BY <1>1, <1>2, <1>3, <1>p
  DEF PromptInv, Answers, ControlTyped, NotInserted, AnswersAreOwners, NotStarted
<1>7. NoConnectBeforeHostKey'
  BY <1>1, <1>2, <1>3, <1>4
  DEF PromptInv, Answers, ControlTyped, NotInserted, NoConnectBeforeHostKey, h
<1>8. Unheard'
  BY <1>1, <1>2, <1>3
  DEF PromptInv, Answers, ControlTyped, Prompts, WindowsTyped, ReceiversTyped, Receivers, Unheard
<1>9. PromptOnlyToOwner'
  BY <1>1, <1>2, <1>3, <1>p
  DEF PromptInv, Answers, ControlTyped, Prompts, WindowsTyped, Unheard, PromptOnlyToOwner
<1> QED
  BY <1>2, <1>5, <1>6, <1>7, <1>8, <1>9 DEF PromptInv, Answers, Prompts, WindowsTyped, ReceiversTyped

LEMMA AuthenticateKept ==
  ASSUME PromptInv, NEW a \in Attempts, Authenticate(a)
  PROVE  PromptInv'
<1> DEFINE h == <<a, "interactive">>
<1>1. h \in Ids /\ h[1] = a
  BY IdOf DEF Brokers
<1>2. /\ stage[a] = "interactive"
      /\ req[h] = "none"
      /\ \/ stage' = [stage EXCEPT ![a] = "connected"] /\ req' = req
         \/ stage' = stage /\ req' = [req EXCEPT ![h] = "insert"]
      /\ UNCHANGED <<owner, pending, slot, verdict, subs, seen, alive, cleanup, late, reply>>
  BY DEF Authenticate
<1>4. \A x \in Attempts : <<x, "hostKey">> \in Ids /\ <<x, "hostKey">> # h
  BY IdOf DEF Brokers
<1>p. \A i \in Ids : i[1] \in Attempts
  BY IdParts
<1> HIDE DEF h
<1>5. ControlTyped' /\ PendingUnanswered' /\ NotInserted' /\ AnswersAreOwners' /\ NotStarted'
  <2>1. ControlTyped'
    BY <1>1, <1>2 DEF PromptInv, Answers, ControlTyped
  <2>2. PendingUnanswered'
    BY <1>1, <1>2 DEF PromptInv, Answers, ControlTyped, PendingUnanswered, NotInserted
  <2>3. NotInserted'
    BY <1>1, <1>2 DEF PromptInv, Answers, ControlTyped, NotInserted
  <2>4. AnswersAreOwners'
    BY <1>1, <1>2 DEF PromptInv, Answers, ControlTyped, AnswersAreOwners
  <2>5. NotStarted'
    BY <1>1, <1>2, <1>p DEF PromptInv, Answers, ControlTyped, NotStarted
  <2> QED
    BY <2>1, <2>2, <2>3, <2>4, <2>5
<1>7. NoConnectBeforeHostKey'
  BY <1>1, <1>2, <1>4
  DEF PromptInv, Answers, ControlTyped, NoConnectBeforeHostKey
<1>8. \A i \in Ids : req[i] # "none" => req'[i] # "none"
  BY <1>1, <1>2 DEF PromptInv, Answers, ControlTyped
<1> QED
  BY <1>2, <1>5, <1>7, <1>8, PromptsKept DEF PromptInv, Answers

\* The connect future is dropped, and with it perhaps the request it waits for.
LEMMA AbortConnectKept ==
  ASSUME PromptInv, NEW a \in Attempts, AbortConnect(a)
  PROVE  PromptInv'
<1> DEFINE h == <<a, stage[a]>>
<1>1. stage[a] \in Brokers /\ h \in Ids /\ h[1] = a
  BY IdOf DEF AbortConnect
<1>2. /\ stage' = [stage EXCEPT ![a] = "cancelled"]
      /\ \/ /\ req[h] \in {"insert", "wait", "remove"}
            /\ req' = [req EXCEPT ![h] = "dropped"]
            /\ \/ slot' = [slot EXCEPT ![h] = "closed"]
               \/ slot' = [slot EXCEPT ![h] = slot[h]]
         \/ UNCHANGED <<req, slot>>
      /\ UNCHANGED <<owner, pending, verdict, subs, seen, alive, cleanup, late, reply>>
  BY DEF AbortConnect, Drop
<1>4. \A x \in Attempts : <<x, "hostKey">> \in Ids /\ (<<x, "hostKey">> = h => x = a)
  BY IdOf DEF Brokers
<1>p. \A i \in Ids : i[1] \in Attempts
  BY IdParts
<1> HIDE DEF h
<1>5. ControlTyped' /\ PendingUnanswered' /\ NotInserted' /\ AnswersAreOwners' /\ NotStarted'
  <2>1. ControlTyped'
    BY <1>1, <1>2 DEF PromptInv, Answers, ControlTyped
  <2>2. PendingUnanswered'
    BY <1>1, <1>2 DEF PromptInv, Answers, ControlTyped, PendingUnanswered, NotInserted
  <2>3. NotInserted'
    BY <1>1, <1>2 DEF PromptInv, Answers, ControlTyped, NotInserted
  <2>4. AnswersAreOwners'
    BY <1>1, <1>2 DEF PromptInv, Answers, ControlTyped, AnswersAreOwners
  <2>5. NotStarted'
    BY <1>1, <1>2, <1>p DEF PromptInv, Answers, ControlTyped, NotStarted
  <2> QED
    BY <2>1, <2>2, <2>3, <2>4, <2>5
<1>7. NoConnectBeforeHostKey'
  BY <1>1, <1>2, <1>4
  DEF PromptInv, Answers, ControlTyped, NoConnectBeforeHostKey
<1>8. \A i \in Ids : req[i] # "none" => req'[i] # "none"
  BY <1>1, <1>2 DEF PromptInv, Answers, ControlTyped
<1> QED
  BY <1>2, <1>5, <1>7, <1>8, PromptsKept DEF PromptInv, Answers

\* The awaits of a request that do not touch the receivers.
LEMMA RequestKept ==
  ASSUME PromptInv, NEW i \in Ids,
         Insert(i) \/ Receive(i) \/ Expire(i) \/ DropReceiver(i) \/ Remove(i)
  PROVE  PromptInv'
<1>p. \A j \in Ids : j[1] \in Attempts /\ j[2] \in Brokers
  BY IdParts
<1>h. \A x \in Attempts : <<x, "hostKey">> \in Ids /\ <<x, "hostKey">>[1] = x /\ <<x, "hostKey">>[2] = "hostKey"
  BY IdOf DEF Brokers
<1>1. CASE Insert(i)
  <2>1. Answers'
    BY <1>1, <1>p, <1>h
    DEF Insert, PromptInv, Answers, ControlTyped, PendingUnanswered, NotInserted, NotStarted,
        AnswersAreOwners, NoConnectBeforeHostKey
  <2>2. \A j \in Ids : req[j] # "none" => req'[j] # "none"
    BY <1>1 DEF Insert, PromptInv, Answers, ControlTyped
  <2> QED
    BY <1>1, <2>1, <2>2, PromptsKept DEF Insert, PromptInv, Answers
<1>2. CASE Receive(i)
  <2>1. Answers'
    BY <1>2, <1>p, <1>h
    DEF Receive, PromptInv, Answers, ControlTyped, PendingUnanswered, NotInserted, NotStarted,
        AnswersAreOwners, NoConnectBeforeHostKey
  <2>2. \A j \in Ids : req[j] # "none" => req'[j] # "none"
    BY <1>2 DEF Receive, PromptInv, Answers, ControlTyped
  <2> QED
    BY <1>2, <2>1, <2>2, PromptsKept DEF Receive, PromptInv, Answers
<1>3. CASE Expire(i)
  <2>1. Answers'
    BY <1>3, <1>p, <1>h
    DEF Expire, PromptInv, Answers, ControlTyped, PendingUnanswered, NotInserted, NotStarted,
        AnswersAreOwners, NoConnectBeforeHostKey
  <2>2. \A j \in Ids : req[j] # "none" => req'[j] # "none"
    BY <1>3 DEF Expire, PromptInv, Answers, ControlTyped
  <2> QED
    BY <1>3, <2>1, <2>2, PromptsKept DEF Expire, PromptInv, Answers
<1>4. CASE DropReceiver(i)
  <2>1. Answers'
    BY <1>4, <1>p, <1>h
    DEF DropReceiver, Unanswered, PromptInv, Answers, ControlTyped, PendingUnanswered,
        NotInserted, NotStarted, AnswersAreOwners, NoConnectBeforeHostKey
  <2>2. \A j \in Ids : req[j] # "none" => req'[j] # "none"
    BY <1>4 DEF DropReceiver, PromptInv, Answers, ControlTyped
  <2> QED
    BY <1>4, <2>1, <2>2, PromptsKept DEF DropReceiver, PromptInv, Answers
<1>5. CASE Remove(i)
  <2>1. ControlTyped' /\ PendingUnanswered' /\ NotInserted' /\ AnswersAreOwners' /\ NotStarted'
    BY <1>5, <1>p
    DEF Remove, Remaining, NextStage, PromptInv, Answers, ControlTyped, PendingUnanswered,
        NotInserted, NotStarted, AnswersAreOwners
  <2>2. NoConnectBeforeHostKey'
    <3> SUFFICES ASSUME NEW x \in Attempts, stage'[x] \in {"interactive", "connected"}
                 PROVE  /\ req'[<<x, "hostKey">>] \in {"none", "done"}
                        /\ verdict'[<<x, "hostKey">>] # "refuse"
      BY DEF NoConnectBeforeHostKey
    <3>1. CASE stage[x] \in {"interactive", "connected"}
      BY <1>5, <3>1, <1>h DEF Remove, PromptInv, Answers, ControlTyped, NoConnectBeforeHostKey
    <3>2. CASE stage[x] \notin {"interactive", "connected"}
      <4>1. /\ x = i[1] /\ stage[x] = i[2] /\ i[2] = "hostKey" /\ verdict[i] # "refuse"
        BY <1>5, <3>2, <1>p DEF Remove, NextStage, PromptInv, Answers, ControlTyped, Brokers
      <4>2. i = <<x, "hostKey">>
        BY <4>1, IdParts
      <4> QED
        BY <1>5, <4>1, <4>2 DEF Remove, PromptInv, Answers, ControlTyped
    <3> QED
      BY <3>1, <3>2
  <2>3. \A j \in Ids : req[j] # "none" => req'[j] # "none"
    BY <1>5 DEF Remove, PromptInv, Answers, ControlTyped
  <2> QED
    BY <1>5, <2>1, <2>2, <2>3, PromptsKept DEF Remove, PromptInv, Answers
<1> QED
  BY <1>1, <1>2, <1>3, <1>4, <1>5

\* A prompt is sent to the receivers of its broker, or finds none.
LEMMA PublishKept ==
  ASSUME PromptAssumption, PromptInv, NEW i \in Ids, Publish(i)
  PROVE  PromptInv'
<1>b. i[1] \in Attempts /\ i[2] \in Brokers
  BY IdParts
<1>h. \A x \in Attempts : <<x, "hostKey">> \in Ids
  BY IdOf DEF Brokers
<1>p. \A j \in Ids : j[1] \in Attempts
  BY IdParts
<1>1. Answers'
  <2>0. /\ req[i] = "send"
        /\ \/ /\ req' = [req EXCEPT ![i] = "remove"]
              /\ verdict' = [verdict EXCEPT ![i] = "refuse"]
              /\ slot' = [slot EXCEPT ![i] = "closed"]
           \/ req' = [req EXCEPT ![i] = "wait"] /\ UNCHANGED <<verdict, slot>>
        /\ UNCHANGED <<owner, stage, pending, reply>>
    BY DEF Publish
  <2>1. ControlTyped'
    BY <2>0 DEF PromptInv, Answers, ControlTyped
  <2>2. PendingUnanswered'
    BY <2>0 DEF PromptInv, Answers, ControlTyped, PendingUnanswered
  <2>6. NotInserted'
    BY <2>0 DEF PromptInv, Answers, ControlTyped, NotInserted
  <2>3. AnswersAreOwners'
    BY <2>0 DEF PromptInv, Answers, ControlTyped, AnswersAreOwners
  <2>4. NotStarted'
    BY <2>0, <1>p DEF PromptInv, Answers, ControlTyped, NotStarted
  <2>5. NoConnectBeforeHostKey'
    BY <2>0, <1>h DEF PromptInv, Answers, ControlTyped, NoConnectBeforeHostKey
  <2> QED
    BY <2>1, <2>2, <2>3, <2>4, <2>5, <2>6 DEF Answers
<1>2. (\A j \in Ids : req[j] # "none" => req'[j] # "none") /\ req'[i] # "none"
  BY DEF Publish, PromptInv, Answers, ControlTyped
<1>3. CASE subs' = subs
  BY <1>1, <1>2, <1>3, PromptsKept DEF Publish, PromptInv, Answers
<1>4. CASE subs' = [subs EXCEPT ![i[2]] = [w \in Windows |-> Deliver(subs[i[2]][w], i)]]
  <2>1. /\ subs \in [Brokers -> [Windows -> Receivers]]
        /\ \A b \in Brokers, w \in Windows : Len(subs[b][w].queue) <= Buffer
    BY DEF PromptInv, Prompts, ReceiversTyped
  <2>2. ASSUME NEW w \in Windows
        PROVE  /\ Deliver(subs[i[2]][w], i) \in Receivers
               /\ Len(Deliver(subs[i[2]][w], i).queue) <= Buffer
               /\ \A n \in 1..Len(Deliver(subs[i[2]][w], i).queue) :
                    \/ Deliver(subs[i[2]][w], i).queue[n] = i
                    \/ \E m \in 1..Len(subs[i[2]][w].queue) :
                         Deliver(subs[i[2]][w], i).queue[n] = subs[i[2]][w].queue[m]
    <3>1. subs[i[2]][w] \in Receivers /\ Len(subs[i[2]][w].queue) <= Buffer
      BY <2>1, <1>b
    <3> QED
      BY <3>1, DeliverSound
  <2>3. /\ \A w \in Windows : subs'[i[2]][w] = Deliver(subs[i[2]][w], i)
        /\ \A b \in Brokers : b # i[2] => subs'[b] = subs[b]
    BY <2>1, <1>4, <1>b
  <2>4. subs' \in [Brokers -> [Windows -> Receivers]]
    BY <2>1, <1>4, <1>b, <2>2
  <2>5. ReceiversTyped'
    BY <2>1, <2>2, <2>3, <2>4 DEF ReceiversTyped
  <2>6. \A w \in Windows : \A n \in 1..Len(subs[i[2]][w].queue) :
          subs[i[2]][w].queue[n] \in Ids /\ req[subs[i[2]][w].queue[n]] # "none"
    BY <2>1, <1>b DEF PromptInv, Prompts, Unheard, Receivers
  <2>7. \A w \in Windows : \A n \in 1..Len(subs'[i[2]][w].queue) :
          req'[subs'[i[2]][w].queue[n]] # "none"
    <3> SUFFICES ASSUME NEW w \in Windows, NEW n \in 1..Len(Deliver(subs[i[2]][w], i).queue)
                 PROVE  req'[Deliver(subs[i[2]][w], i).queue[n]] # "none"
      BY <2>3
    <3>1. CASE Deliver(subs[i[2]][w], i).queue[n] = i
      BY <3>1, <1>2
    <3>2. ASSUME NEW m \in 1..Len(subs[i[2]][w].queue),
                 Deliver(subs[i[2]][w], i).queue[n] = subs[i[2]][w].queue[m]
          PROVE  req'[Deliver(subs[i[2]][w], i).queue[n]] # "none"
      BY <3>2, <2>6, <1>2
    <3> QED
      BY <2>2, <3>1, <3>2
  <2>8. \A b \in Brokers, w \in Windows : \A n \in 1..Len(subs[b][w].queue) :
          subs[b][w].queue[n] \in Ids /\ req[subs[b][w].queue[n]] # "none"
    BY <2>1 DEF PromptInv, Prompts, Unheard, Receivers
  <2>9. Unheard' /\ WindowsTyped' /\ PromptOnlyToOwner'
    BY <1>2, <2>3, <2>7, <2>8
    DEF Publish, PromptInv, Prompts, WindowsTyped, Unheard, PromptOnlyToOwner
  <2> QED
    BY <1>1, <2>5, <2>9 DEF PromptInv, Prompts
<1> QED
  BY <1>3, <1>4 DEF Publish

\* The changes of a receiver leave one, with the queue they say.
LEMMA ReceiverChanges ==
  /\ Closed \in Receivers /\ Closed.queue = <<>>
  /\ \A s \in Receivers, q \in Seq(Ids), l \in BOOLEAN :
       /\ [s EXCEPT !.queue = q] \in Receivers /\ [s EXCEPT !.queue = q].queue = q
       /\ [s EXCEPT !.live = l] \in Receivers /\ [s EXCEPT !.live = l].queue = s.queue
       /\ [s EXCEPT !.live = l, !.queue = q] \in Receivers
       /\ [s EXCEPT !.live = l, !.queue = q].queue = q
<1>1. Closed \in Receivers /\ Closed.queue = <<>>
  BY DEF Closed, Receivers
<1>2. ASSUME NEW s \in Receivers, NEW q \in Seq(Ids), NEW l \in BOOLEAN
      PROVE  /\ [s EXCEPT !.queue = q] \in Receivers /\ [s EXCEPT !.queue = q].queue = q
             /\ [s EXCEPT !.live = l] \in Receivers /\ [s EXCEPT !.live = l].queue = s.queue
             /\ [s EXCEPT !.live = l, !.queue = q] \in Receivers
             /\ [s EXCEPT !.live = l, !.queue = q].queue = q
  BY DEF Receivers
<1> QED
  BY <1>1, <1>2

\* Subscriptions and forwarding tasks change the receivers and what was seen.
LEMMA WindowKept ==
  ASSUME PromptAssumption, PromptInv, NEW b \in Brokers, NEW w \in Windows,
         Subscribe(b, w) \/ Forward(b, w)
  PROVE  PromptInv'
<1> DEFINE s == subs[b][w]
<1>b. Buffer \in Nat /\ Buffer > 0
  BY DEF PromptAssumption
<1>1. /\ subs \in [Brokers -> [Windows -> Receivers]]
      /\ \A c \in Brokers, v \in Windows : Len(subs[c][v].queue) <= Buffer
      /\ seen \in [Windows -> SUBSET Ids]
  BY DEF PromptInv, Prompts, ReceiversTyped, WindowsTyped
<1>2. /\ s \in Receivers /\ s.queue \in Seq(Ids) /\ Len(s.queue) <= Buffer
      /\ s = [live |-> s.live, queue |-> s.queue, lagged |-> s.lagged]
      /\ s.live \in BOOLEAN /\ s.lagged \in BOOLEAN
      /\ \A n \in 1..Len(s.queue) : s.queue[n] \in Ids /\ req[s.queue[n]] # "none"
  BY <1>1 DEF Receivers, PromptInv, Prompts, Unheard
<1>3. \E t \in Receivers :
        /\ subs' = [subs EXCEPT ![b][w] = t]
        /\ Len(t.queue) <= Buffer
        /\ \A n \in 1..Len(t.queue) : req[t.queue[n]] # "none"
  <2> DEFINE Fits(q) == Len(q) <= Buffer /\ \A n \in 1..Len(q) : req[q[n]] # "none"
  <2>1. <<>> \in Seq(Ids) /\ Fits(<<>>)
    BY <1>b
  <2>2. s.queue # <<>> => Tail(s.queue) \in Seq(Ids) /\ Fits(Tail(s.queue))
    <3> SUFFICES ASSUME s.queue # <<>>
                 PROVE  Tail(s.queue) \in Seq(Ids) /\ Fits(Tail(s.queue))
      OBVIOUS
    <3> DEFINE rest == Tail(s.queue)
    <3>1. /\ rest \in Seq(Ids) /\ Len(rest) = Len(s.queue) - 1
          /\ \A n \in 1..Len(rest) : rest[n] = s.queue[n + 1] /\ n + 1 \in 1..Len(s.queue)
      BY <1>2
    <3> HIDE DEF rest
    <3>2. Fits(rest)
      BY <3>1, <1>2, <1>b
    <3> QED
      BY <3>1, <3>2 DEF rest
  <2> HIDE DEF Fits
  <2> SUFFICES \E t \in Receivers : subs' = [subs EXCEPT ![b][w] = t] /\ Fits(t.queue)
    BY DEF Fits
  <2>3. CASE Subscribe(b, w)
    <3> DEFINE t == [Closed EXCEPT !.live = TRUE]
    <3>1. t \in Receivers /\ t.queue = <<>>
      BY <2>1, ReceiverChanges
    <3>2. subs' = [subs EXCEPT ![b][w] = t]
      BY <2>3 DEF Subscribe
    <3> HIDE DEF t
    <3> QED
      BY <2>1, <3>1, <3>2
  <2>4. CASE Forward(b, w) /\ s.lagged
    <3> DEFINE t == [s EXCEPT !.live = FALSE, !.queue = <<>>]
    <3>1. t \in Receivers /\ t.queue = <<>>
      BY <1>2, <2>1, ReceiverChanges
    <3>2. subs' = [subs EXCEPT ![b][w] = t]
      BY <2>4 DEF Forward
    <3> HIDE DEF t
    <3> QED
      BY <2>1, <3>1, <3>2
  <2>5. CASE Forward(b, w) /\ ~s.lagged
    <3>1. s.queue # <<>> /\ \/ subs' = [subs EXCEPT ![b][w].queue = Tail(@)]
                            \/ subs' = [subs EXCEPT ![b][w] = Closed]
      BY <2>5 DEF Forward
    <3>2. CASE subs' = [subs EXCEPT ![b][w].queue = Tail(@)]
      <4> DEFINE t == [s EXCEPT !.queue = Tail(s.queue)]
      <4>1. t \in Receivers /\ t.queue = Tail(s.queue)
        BY <1>2, <2>2, <3>1, ReceiverChanges
      <4>2. subs' = [subs EXCEPT ![b][w] = [s EXCEPT !.queue = Tail(@)]]
        BY <3>2, <1>1, <1>2
      <4>3. subs' = [subs EXCEPT ![b][w] = t]
        BY <4>2
      <4> HIDE DEF t
      <4> QED
        BY <2>2, <3>1, <4>1, <4>3
    <3>3. CASE subs' = [subs EXCEPT ![b][w] = Closed]
      BY <2>1, <3>3, ReceiverChanges
    <3> QED
      BY <3>1, <3>2, <3>3
  <2> QED
    BY <2>3, <2>4, <2>5
<1>4. \/ seen' = seen
      \/ /\ seen' = [seen EXCEPT ![w] = @ \cup {Head(s.queue)}]
         /\ Head(s.queue) \in Ids /\ req[Head(s.queue)] # "none"
         /\ owner[Head(s.queue)[1]] = w
  <2>1. s.queue # <<>> => Head(s.queue) = s.queue[1] /\ 1 \in 1..Len(s.queue)
    BY <1>2
  <2> QED
    BY <2>1, <1>2 DEF Subscribe, Forward, ForwardsTo
<1>5. UNCHANGED <<owner, stage, req, pending, slot, verdict, alive, cleanup, late, reply>>
  BY DEF Subscribe, Forward
<1> HIDE DEF s
<1>6. Answers'
  BY <1>5 DEF PromptInv, Answers, ControlTyped, PendingUnanswered, NotInserted, NotStarted,
        AnswersAreOwners, NoConnectBeforeHostKey
<1>7. ReceiversTyped' /\ \A c \in Brokers, v \in Windows : \A n \in 1..Len(subs'[c][v].queue) :
                            req[subs'[c][v].queue[n]] # "none"
  <2>1. PICK t \in Receivers :
          /\ subs' = [subs EXCEPT ![b][w] = t]
          /\ Len(t.queue) <= Buffer
          /\ \A n \in 1..Len(t.queue) : req[t.queue[n]] # "none"
    BY <1>3
  <2>2. \A c \in Brokers, v \in Windows :
          subs'[c][v] = IF c = b /\ v = w THEN t ELSE subs[c][v]
    BY <2>1, <1>1
  <2>3. subs' \in [Brokers -> [Windows -> Receivers]]
    BY <2>1, <1>1
  <2>4. \A c \in Brokers, v \in Windows : Len(subs'[c][v].queue) <= Buffer
    BY <2>1, <2>2, <1>1
  <2>5. \A c \in Brokers, v \in Windows : \A n \in 1..Len(subs'[c][v].queue) :
          req[subs'[c][v].queue[n]] # "none"
    <3> SUFFICES ASSUME NEW c \in Brokers, NEW v \in Windows
                 PROVE  \A n \in 1..Len(subs'[c][v].queue) : req[subs'[c][v].queue[n]] # "none"
      OBVIOUS
    <3>1. CASE subs'[c][v] = t
      BY <3>1, <2>1
    <3>2. CASE subs'[c][v] = subs[c][v]
      BY <3>2 DEF PromptInv, Prompts, Unheard
    <3> QED
      BY <2>2, <3>1, <3>2
  <2> QED
    BY <2>3, <2>4, <2>5 DEF ReceiversTyped
<1>8. WindowsTyped' /\ PromptOnlyToOwner' /\ \A v \in Windows : \A i \in seen'[v] : req[i] # "none"
  <2> DEFINE h == Head(s.queue)
  <2>1. \/ seen' = seen
        \/ /\ seen' = [seen EXCEPT ![w] = @ \cup {h}]
           /\ h \in Ids /\ req[h] # "none"
           /\ owner[h[1]] = w
    BY <1>4
  <2> HIDE DEF h
  <2>2. WindowsTyped'
    BY <2>1, <1>5 DEF PromptInv, Prompts, WindowsTyped
  <2>3. PromptOnlyToOwner'
    BY <2>1, <1>1, <1>5 DEF PromptInv, Prompts, PromptOnlyToOwner
  <2>4. \A v \in Windows : \A i \in seen'[v] : req[i] # "none"
    BY <2>1, <1>1 DEF PromptInv, Prompts, Unheard
  <2> QED
    BY <2>2, <2>3, <2>4
<1> QED
  BY <1>5, <1>6, <1>7, <1>8 DEF PromptInv, Prompts, Unheard

\* A window answers a request that is pending, or finds nothing to answer.
LEMMA RespondKept ==
  ASSUME PromptInv, NEW w \in Windows, NEW i \in Ids, NEW accept \in BOOLEAN,
         Respond(w, i, accept)
  PROVE  PromptInv'
<1>p. \A j \in Ids : j[1] \in Attempts
  BY IdParts
<1>1. CASE RespondResult(w, i) = "Ok"
  <2>1. /\ i \in pending /\ owner[i[1]] = w /\ reply[i] = NoReply
        /\ req[i] \notin {"none", "insert"}
    BY <1>1 DEF RespondResult, Respond, PromptInv, Answers, PendingUnanswered
  <2>2. /\ pending' = pending \ {i}
        /\ slot' = [slot EXCEPT ![i] = IF accept THEN "accept" ELSE "deny"]
        /\ reply' = [reply EXCEPT ![i] = [by |-> w, accept |-> accept]]
        /\ late' = [late EXCEPT ![w] = @ \ {i}]
        /\ UNCHANGED <<owner, stage, req, verdict, subs, seen, alive, cleanup>>
    BY <1>1, <2>1 DEF Respond
  <2>3. verdict[i] # "accept"
    BY <2>1 DEF PromptInv, Answers, ControlTyped, AnswersAreOwners, NoReply
  <2>4. ControlTyped' /\ PendingUnanswered' /\ NotInserted' /\ NotStarted'
    BY <2>1, <2>2, <1>p
    DEF PromptInv, Answers, ControlTyped, PendingUnanswered, NotInserted, NotStarted
  <2>5. AnswersAreOwners' /\ NoConnectBeforeHostKey'
    BY <2>1, <2>2, <2>3
    DEF PromptInv, Answers, ControlTyped, AnswersAreOwners, NoConnectBeforeHostKey
  <2>6. late' \in [Windows -> SUBSET Ids] /\ \A j \in Ids : req[j] # "none" => req'[j] # "none"
    BY <2>2 DEF PromptInv, Prompts, WindowsTyped
  <2> QED
    BY <2>2, <2>4, <2>5, <2>6, PromptsKept DEF PromptInv, Answers
<1>2. CASE RespondResult(w, i) # "Ok"
  <2>1. /\ pending' \in {pending, pending \ {i}}
        /\ late' \in [Windows -> SUBSET Ids]
        /\ UNCHANGED <<owner, stage, req, slot, verdict, subs, seen, alive, cleanup, reply>>
    BY <1>2 DEF Respond, PromptInv, Prompts, WindowsTyped
  <2>2. Answers'
    BY <2>1 DEF PromptInv, Answers, ControlTyped, PendingUnanswered, NotInserted, NotStarted,
        AnswersAreOwners, NoConnectBeforeHostKey
  <2> QED
    BY <2>1, <2>2, PromptsKept DEF PromptInv, Answers
<1> QED
  BY <1>1, <1>2

\* A window is destroyed, and the brokers reject what it had still to answer.
LEMMA DestroyKept ==
  ASSUME PromptInv, NEW w \in Windows, Destroy(w) \/ RejectOwner(w)
  PROVE  PromptInv'
<1>1. CASE Destroy(w)
  <2>1. Answers'
    BY <1>1 DEF Destroy, PromptInv, Answers, ControlTyped, PendingUnanswered, NotInserted,
        NotStarted, AnswersAreOwners, NoConnectBeforeHostKey
  <2>2. Prompts'
    BY <1>1 DEF Destroy, PromptInv, Prompts, WindowsTyped, ReceiversTyped, Unheard,
        PromptOnlyToOwner
  <2> QED
    BY <2>1, <2>2 DEF PromptInv
<1>2. CASE RejectOwner(w)
  <2> DEFINE mine == RequestsOf(w, cleanup[w])
  <2>1. /\ mine \subseteq pending
        /\ pending' = pending \ mine
        /\ slot' = [i \in Ids |-> IF i \in mine /\ slot[i] # "closed" THEN "deny" ELSE slot[i]]
        /\ cleanup' = [cleanup EXCEPT ![w] = IF cleanup[w] = "hostKey" THEN "interactive"
                                             ELSE "done"]
        /\ UNCHANGED <<owner, stage, req, verdict, subs, seen, alive, late, reply>>
    BY <1>2 DEF RejectOwner, RequestsOf
  <2> HIDE DEF mine
  <2>2. Answers'
    BY <2>1 DEF PromptInv, Answers, ControlTyped, PendingUnanswered, NotInserted,
        NotStarted, AnswersAreOwners, NoConnectBeforeHostKey
  <2>3. Prompts'
    BY <2>1 DEF PromptInv, Prompts, WindowsTyped, ReceiversTyped, Unheard, PromptOnlyToOwner
  <2> QED
    BY <2>2, <2>3 DEF PromptInv
<1> QED
  BY <1>1, <1>2

LEMMA PromptNext ==
  ASSUME PromptAssumption, PromptInv, [Next]_vars
  PROVE  PromptInv'
<1>1. CASE UNCHANGED vars
  BY <1>1
  DEF vars, PromptInv, Answers, Prompts, ControlTyped, PendingUnanswered, NotInserted, NotStarted,
      AnswersAreOwners, NoConnectBeforeHostKey, WindowsTyped, ReceiversTyped, Unheard,
      PromptOnlyToOwner
<1> QED
  BY <1>1, VerifyKept, AuthenticateKept, AbortConnectKept, RequestKept, PublishKept, WindowKept,
     RespondKept, DestroyKept
  DEF Next, RequestStep

\* Whatever the interleaving of answers, timers, cancellations, lagging receivers
\* and destroyed windows: a verdict that accepts was given by the owner of the
\* attempt to that request, a decided request is not pending, no window sees a
\* prompt of another, and nothing connects behind an open host-key question.
THEOREM PromptsAreDecidedByOwner ==
  ASSUME PromptAssumption
  PROVE  Spec => []DecidedByOwner
<1>1. Init => PromptInv
  BY PromptInit
<1>2. PromptInv /\ [Next]_vars => PromptInv'
  BY PromptNext
<1>3. PromptInv => DecidedByOwner
  BY Typed DEF PromptInv, Answers, Prompts, DecidedByOwner, GrantedByOwner, AnswersAreOwners,
               DecidedIsNotPending, PendingUnanswered
<1> QED
  BY <1>1, <1>2, <1>3, PTL DEF Spec

\* What is on its way from a destroyed window is an answer to a request of its
\* own that was made, and the broker that rejected the owner has none of them.
LateInv ==
  /\ \A w \in alive : cleanup[w] = "none"
  /\ \A w \in Windows : \A i \in late[w] :
       /\ req[i] \notin {"none", "insert"}
       /\ owner[i[1]] = w
       /\ Rejected(w, i[2]) => i \notin pending

\* A request that was made stays made, its attempt keeps its owner, and no step
\* puts it into the pending map again.
Stays(i) ==
  req[i] \notin {"none", "insert"} =>
    /\ req'[i] \notin {"none", "insert"}
    /\ owner'[i[1]] = owner[i[1]]
    /\ i \in pending' => i \in pending

LEMMA RequestsStay ==
  ASSUME PromptInv, Next
  PROVE  \A i \in Ids : Stays(i)
<1> USE DEF PromptInv, Answers, ControlTyped, Stays
<1>p. \A i \in Ids : i[1] \in Attempts
  BY IdParts
<1>1. ASSUME NEW a \in Attempts, NEW w \in Windows, Verify(a, w)
      PROVE  \A i \in Ids : Stays(i)
  BY <1>1, <1>p DEF Verify, NotStarted
<1>2. ASSUME NEW a \in Attempts, Authenticate(a) \/ AbortConnect(a)
      PROVE  \A i \in Ids : Stays(i)
  BY <1>2 DEF Authenticate, AbortConnect, Drop
<1>3. ASSUME NEW j \in Ids, RequestStep(j)
      PROVE  \A i \in Ids : Stays(i)
  BY <1>3 DEF RequestStep, Insert, Publish, Receive, Expire, DropReceiver, Remove, Remaining
<1>4. CASE UNCHANGED <<owner, req>> /\ pending' \subseteq pending
  BY <1>4
<1> QED
  BY <1>1, <1>2, <1>3, <1>4
  DEF Next, Subscribe, Forward, Respond, Destroy, RejectOwner

LEMMA LateInit == Init => LateInv
BY DEF Init, LateInv

LEMMA LateNext ==
  ASSUME PromptInv, LateInv, [Next]_vars
  PROVE  LateInv'
<1>p. \A i \in Ids : i[2] \in Brokers
  BY IdParts
<1>t. /\ late \in [Windows -> SUBSET Ids] /\ alive \subseteq Windows
      /\ cleanup \in [Windows -> {"none", "hostKey", "interactive", "done"}]
  BY DEF PromptInv, Prompts, WindowsTyped
<1>1. CASE UNCHANGED vars
  BY <1>1 DEF LateInv, vars, Rejected
<1>2. CASE Next /\ UNCHANGED <<late, cleanup, alive>>
  BY <1>2, <1>t, RequestsStay DEF LateInv, Rejected, Stays
<1>3. ASSUME NEW w \in Windows, NEW i \in Ids, NEW accept \in BOOLEAN, Respond(w, i, accept)
      PROVE  LateInv'
  <2>1. /\ late' = [late EXCEPT ![w] = @ \ {i}]
        /\ UNCHANGED <<owner, req, alive, cleanup>>
        /\ pending' \subseteq pending
    BY <1>3 DEF Respond
  <2> QED
    BY <2>1, <1>t DEF LateInv, Rejected
<1>4. ASSUME NEW w \in Windows, Destroy(w)
      PROVE  LateInv'
  <2>1. PICK onTheWay \in SUBSET (seen[w] \cap pending) :
          late' = [late EXCEPT ![w] = onTheWay]
    BY <1>4 DEF Destroy
  <2>2. /\ alive' = alive \ {w}
        /\ cleanup' = [cleanup EXCEPT ![w] = "hostKey"]
        /\ UNCHANGED <<owner, req, pending>>
    BY <1>4 DEF Destroy
  <2>3. \A i \in onTheWay :
          i \in Ids /\ req[i] \notin {"none", "insert"} /\ owner[i[1]] = w
    BY <2>1 DEF PromptInv, Answers, Prompts, ControlTyped, PendingUnanswered, PromptOnlyToOwner
  <2>4. \A u \in alive' : cleanup'[u] = "none"
    BY <2>2, <1>t DEF LateInv
  <2>5. ASSUME NEW u \in Windows, NEW i \in late'[u]
        PROVE  /\ req'[i] \notin {"none", "insert"}
               /\ owner'[i[1]] = u
               /\ Rejected(u, i[2])' => i \notin pending'
    <3>1. CASE u = w
      <4>1. i \in onTheWay
        BY <2>1, <2>5, <3>1, <1>t
      <4>2. cleanup'[w] = "hostKey"
        BY <2>2, <1>t
      <4> QED
        BY <2>2, <2>3, <3>1, <4>1, <4>2 DEF Rejected
    <3>2. CASE u # w
      <4>1. i \in late[u] /\ cleanup'[u] = cleanup[u]
        BY <2>1, <2>2, <2>5, <3>2, <1>t
      <4> QED
        BY <2>2, <4>1 DEF LateInv, Rejected
    <3> QED
      BY <3>1, <3>2
  <2> QED
    BY <2>4, <2>5 DEF LateInv
<1>5. ASSUME NEW w \in Windows, RejectOwner(w)
      PROVE  LateInv'
  <2>1. /\ cleanup[w] \in Brokers
        /\ pending' = pending \ {j \in pending : j[2] = cleanup[w] /\ owner[j[1]] = w}
        /\ cleanup' = [cleanup EXCEPT ![w] = IF cleanup[w] = "hostKey" THEN "interactive"
                                             ELSE "done"]
        /\ UNCHANGED <<owner, req, alive, late>>
    BY <1>5 DEF RejectOwner, RequestsOf
  <2>2. w \notin alive
    BY <2>1 DEF LateInv, Brokers
  <2>3. ASSUME NEW u \in Windows, NEW i \in late[u], Rejected(u, i[2])'
        PROVE  i \notin pending'
    <3>1. i \in Ids /\ i[2] \in Brokers /\ owner[i[1]] = u
      BY <1>t, <1>p DEF LateInv
    <3>2. CASE Rejected(u, i[2])
      BY <2>1, <3>2 DEF LateInv
    <3>3. CASE ~Rejected(u, i[2])
      <4>1. u = w
        BY <2>1, <2>3, <3>3, <1>t DEF Rejected
      <4>2. i[2] = cleanup[w]
        BY <2>1, <2>3, <3>1, <3>3, <4>1, <1>t DEF Rejected, Brokers
      <4> QED
        BY <2>1, <3>1, <4>1, <4>2
    <3> QED
      BY <3>2, <3>3
  <2> QED
    BY <2>1, <2>2, <2>3, <1>t DEF LateInv
<1> QED
  BY <1>1, <1>2, <1>3, <1>4, <1>5
  DEF Next, RequestStep, Verify, Authenticate, AbortConnect, Insert, Publish, Receive, Expire,
      DropReceiver, Remove, Subscribe, Forward

\* A window that was destroyed grants nothing of its own accord: no step accepts
\* a request of its attempts that it had not answered, and a step answers one
\* only with an answer that was on its way, before reject_owner of its broker.
THEOREM DestroyedWindowsGrantNothing ==
  ASSUME PromptAssumption
  PROVE  Spec => DestroyedCannotGrant
<1>1. Init => PromptInv /\ LateInv
  BY PromptInit, LateInit
<1>2. PromptInv /\ LateInv /\ [Next]_vars => PromptInv' /\ LateInv'
  BY PromptNext, LateNext
<1>3. ASSUME PromptInv, LateInv, [Next]_vars
      PROVE  [DestroyedCannotGrantStep]_vars
  <2>1. CASE UNCHANGED vars
    BY <2>1
  <2>2. CASE Next
    <3> SUFFICES ASSUME NEW i \in Ids, owner[i[1]] \notin alive, reply[i] = NoReply
                 PROVE  /\ verdict'[i] # "accept"
                        /\ reply'[i] # NoReply =>
                             ~Rejected(owner[i[1]], i[2]) /\ i \in late[owner[i[1]]]
      BY DEF DestroyedCannotGrantStep
    <3>1. slot[i] # "accept" /\ verdict[i] # "accept"
      BY <1>3 DEF PromptInv, Answers, AnswersAreOwners, NoReply
    <3>2. verdict'[i] # "accept"
      <4>1. ASSUME NEW j \in Ids, RequestStep(j)
            PROVE  verdict'[i] # "accept"
        BY <1>3, <3>1, <4>1
        DEF PromptInv, Answers, ControlTyped, RequestStep, Insert, Publish, Receive, Expire,
            DropReceiver, Unanswered, Remove
      <4>2. CASE verdict' = verdict
        BY <3>1, <4>2
      <4> QED
        BY <2>2, <4>1, <4>2
        DEF Next, Verify, Authenticate, AbortConnect, Subscribe, Forward, Respond, Destroy,
            RejectOwner
    <3>3. reply'[i] # NoReply => ~Rejected(owner[i[1]], i[2]) /\ i \in late[owner[i[1]]]
      <4>1. ASSUME NEW w \in Windows, NEW j \in Ids, NEW accept \in BOOLEAN,
                   Respond(w, j, accept), reply'[i] # NoReply
            PROVE  ~Rejected(owner[i[1]], i[2]) /\ i \in late[owner[i[1]]]
        <5>1. j = i /\ RespondResult(w, j) = "Ok"
          BY <1>3, <4>1 DEF PromptInv, Answers, ControlTyped, Respond
        <5>2. i \in pending /\ owner[i[1]] = w
          BY <5>1 DEF RespondResult
        <5>3. i \in late[w]
          BY <4>1, <5>1, <5>2 DEF Respond
        <5> QED
          BY <1>3, <5>2, <5>3 DEF LateInv
      <4>2. CASE reply' = reply
        BY <4>2
      <4> QED
        BY <2>2, <4>1, <4>2
        DEF Next, RequestStep, Verify, Authenticate, AbortConnect, Insert,
            Publish, Receive, Expire, DropReceiver, Remove, Subscribe, Forward,
            Destroy, RejectOwner
    <3> QED
      BY <3>2, <3>3
  <2> QED
    BY <1>3, <2>1, <2>2
<1> QED
  BY <1>1, <1>2, <1>3, PTL DEF Spec, DestroyedCannotGrant
=============================================================================
