--------------------------- MODULE SshSessionProofs ---------------------------
(***************************************************************************)
(* Proofs about SshSession, for any finite set of sessions and any number  *)
(* of sessions on a transport.  The decrement of the counter and the swap  *)
(* that disconnects are separate steps, and a lease is taken before its    *)
(* session is in the map: the invariant says who may be between them.      *)
(***************************************************************************)
EXTENDS SshSession, FiniteSetTheorems, TLAPS

Words == {"Connecting", "Connected", "Error", "Closed"}

\* The sessions that hold the transport t.
Users(t) == {s \in Sessions : via[s] = t /\ pc[s] \in Holding}

\* Between the decrement to zero and the disconnection.
Swapping == {"swap", "failSwap"}

\* The counter is the number of holders.
Counted == \A t \in Sessions : count[t] = Cardinality(Users(t))

\* A session that has not connected has left no trace as a transport.
Fresh ==
  \A s \in Sessions :
    pc[s] \in {"none", "connecting"} =>
      /\ via[s] = None
      /\ \A u \in Sessions : via[u] # s
      /\ ~disconnected[s]

\* Who holds a transport, or is about to disconnect it, has one.
HasTransport ==
  \A s \in Sessions : pc[s] \in Holding \cup Swapping => via[s] \in Sessions

\* The one that let go last disconnects; nobody can take a lease in between.
LastDisconnects ==
  /\ \A s \in Sessions :
       pc[s] \in Swapping =>
         /\ count[via[s]] = 0
         /\ ~disconnected[via[s]]
         /\ \A u \in Sessions : pc[u] \in Swapping /\ via[u] = via[s] => u = s
  /\ \A t \in Sessions :
       /\ disconnected[t] => count[t] = 0
       /\ closes[t] = IF disconnected[t] THEN 1 ELSE 0
       /\ via[t] = t =>
            \/ count[t] # 0
            \/ disconnected[t]
            \/ \E s \in Sessions : via[s] = t /\ pc[s] \in Swapping

\* What was said of a session, until and since its end.
Unclosed == {"none", "connecting", "acquired", "opening", "opened", "connected",
             "writing", "stopping", "failRelease", "failSwap", "failed"}

Open(e) == \A n \in 1..Len(e) : e[n] # "Closed"
Ended(e) ==
  /\ \A n \in 1..Len(e) : e[n] = "Closed" => n = Len(e)
  /\ e # <<>> => e[Len(e)] = "Closed"

Announced(e) == \E n \in 1..Len(e) : e[n] = "Connected"

Telling ==
  \A s \in Sessions :
    /\ pc[s] \in {"none", "acquired"} => events[s] = <<>>
    /\ IF pc[s] \in Unclosed THEN Open(events[s]) ELSE Ended(events[s])
    /\ pc[s] = "opened" => known[s] # None
    /\ known[s] # None => known[s] = via[s] /\ (Announced(events[s]) \/ pc[s] = "opened")
    /\ Announced(events[s]) => known[s] # None \/ pc[s] = "gone"

TransportInv ==
  TypeOK /\ Counted /\ Fresh /\ HasTransport /\ LastDisconnects /\ Telling

LEMMA TransportInit == SessionAssumption /\ Init => TransportInv
<1> SUFFICES ASSUME SessionAssumption, Init PROVE TransportInv
  OBVIOUS
<1> USE DEF SessionAssumption, Init
<1>1. TypeOK
  BY DEF TypeOK
<1>2. Counted
  <2>1. \A t \in Sessions : Users(t) = {}
    BY DEF Users, Holding, Running
  <2> QED
    BY <2>1, FS_EmptySet DEF Counted
<1>3. Fresh /\ HasTransport /\ LastDisconnects
  BY DEF Fresh, HasTransport, LastDisconnects, Holding, Running, Swapping
<1>4. Telling
  BY DEF Telling, Unclosed, Open, Announced
<1> QED
  BY <1>1, <1>2, <1>3, <1>4 DEF TransportInv

\* A word more.
LEMMA Said ==
  ASSUME NEW e \in Seq(Words), NEW x \in Words
  PROVE  /\ e \o <<x>> \in Seq(Words)
         /\ Len(e \o <<x>>) = Len(e) + 1
         /\ (e \o <<x>>)[Len(e) + 1] = x
         /\ \A n \in 1..Len(e) : (e \o <<x>>)[n] = e[n]
OBVIOUS

\* Every word but Closed leaves a session open; Closed ends it; and the session
\* is announced from the word Connected on.
LEMMA SaidOpen ==
  ASSUME NEW e \in Seq(Words), Open(e)
  PROVE  /\ \A x \in Words \ {"Closed"} : Open(e \o <<x>>)
         /\ Ended(e \o <<"Closed">>)
         /\ \A x \in Words : Announced(e \o <<x>>) <=> Announced(e) \/ x = "Connected"
<1>1. ASSUME NEW x \in Words \ {"Closed"}
      PROVE  Open(e \o <<x>>)
  BY <1>1, Said DEF Open
<1>2. Ended(e \o <<"Closed">>)
  <2>1. "Closed" \in Words
    BY DEF Words
  <2> QED
    BY <2>1, Said DEF Open, Ended
<1>3. ASSUME NEW x \in Words
      PROVE  Announced(e \o <<x>>) <=> Announced(e) \/ x = "Connected"
  <2> DEFINE f == e \o <<x>>
  <2>1. /\ Len(f) = Len(e) + 1 /\ f[Len(e) + 1] = x
        /\ \A n \in 1..Len(e) : f[n] = e[n]
        /\ Len(e) \in Nat
    BY Said
  <2> HIDE DEF f
  <2>2. Announced(f) => Announced(e) \/ x = "Connected"
    <3> SUFFICES ASSUME NEW n \in 1..Len(f), f[n] = "Connected"
                 PROVE  Announced(e) \/ x = "Connected"
      BY DEF Announced
    <3>1. n \in 1..Len(e) \/ n = Len(e) + 1
      BY <2>1
    <3> QED
      BY <2>1, <3>1 DEF Announced
  <2>3. Announced(e) => Announced(f)
    <3> SUFFICES ASSUME NEW n \in 1..Len(e), e[n] = "Connected"
                 PROVE  Announced(f)
      BY DEF Announced
    <3>1. n \in 1..Len(f) /\ f[n] = "Connected"
      BY <2>1
    <3> QED
      BY <3>1 DEF Announced
  <2>4. x = "Connected" => Announced(f)
    <3>1. Len(e) + 1 \in 1..Len(f)
      BY <2>1
    <3> QED
      BY <2>1, <3>1 DEF Announced
  <2> QED
    BY <2>2, <2>3, <2>4 DEF f
<1> QED
  BY <1>1, <1>2, <1>3

\* A step that changes neither who holds a transport nor the transports.
LEMMA UsersKept ==
  ASSUME Counted, UNCHANGED count,
         \A u \in Sessions : via'[u] = via[u] /\ (pc'[u] \in Holding <=> pc[u] \in Holding)
  PROVE  Counted'
<1>1. ASSUME NEW t \in Sessions
      PROVE  Users(t)' = Users(t)
  BY DEF Users
<1> QED
  BY <1>1 DEF Counted

\* A session that holds a transport keeps it in use.
LEMMA HeldIsInUse ==
  ASSUME SessionAssumption, TransportInv, NEW s \in Sessions, pc[s] \in Holding
  PROVE  via[s] \in Sessions /\ count[via[s]] \in Nat \ {0} /\ ~disconnected[via[s]]
<1>1. via[s] \in Sessions
  BY DEF TransportInv, HasTransport
<1>2. s \in Users(via[s]) /\ IsFiniteSet(Users(via[s]))
  BY FS_Subset DEF Users, SessionAssumption
<1>3. Cardinality(Users(via[s])) # 0
  BY <1>2, FS_EmptySet
<1> QED
  BY <1>1, <1>2, <1>3, FS_CardinalityType DEF TransportInv, Counted, LastDisconnects

\* A session moves on without letting go of a transport or taking one.
LEMMA MovesOn ==
  ASSUME SessionAssumption, TransportInv, NEW s \in Sessions, NEW l,
         pc' = [pc EXCEPT ![s] = l], UNCHANGED <<via, transport>>,
         l \in Holding <=> pc[s] \in Holding,
         pc[s] \notin Swapping, l \notin Swapping,
         l # "none", l = "connecting" => pc[s] = "none"
  PROVE  Counted' /\ Fresh' /\ HasTransport' /\ LastDisconnects'
<1> USE DEF TransportInv, transport
<1>1. Counted'
  <2>1. \A u \in Sessions : via'[u] = via[u] /\ (pc'[u] \in Holding <=> pc[u] \in Holding)
    BY DEF TypeOK
  <2> QED
    BY <2>1, UsersKept
<1>2. Fresh'
  BY DEF TypeOK, Fresh
<1>3. HasTransport'
  BY DEF TypeOK, HasTransport
<1>4. LastDisconnects'
  <2>1. \A u \in Sessions : pc'[u] \in Swapping <=> pc[u] \in Swapping
    BY DEF TypeOK
  <2> QED
    BY <2>1 DEF TypeOK, LastDisconnects
<1> QED
  BY <1>1, <1>2, <1>3, <1>4

\* Requests of the windows and the SFTP worker.
LEMMA RequestKept ==
  ASSUME SessionAssumption, TransportInv, NEW s \in Sessions,
         Cancel(s) \/ (\E c \in {"Input", "Close"} : Send(s, c)) \/ SftpStart(s) \/ SftpDone(s)
  PROVE  TransportInv'
<1>1. UNCHANGED <<pc, via, known, events, transport>>
  BY DEF Cancel, Send, SftpStart, SftpDone
<1>2. TypeOK'
  <2>1. CASE Cancel(s) \/ SftpStart(s) \/ SftpDone(s)
    BY <2>1 DEF Cancel, SftpStart, SftpDone, TransportInv, TypeOK, transport
  <2>2. ASSUME NEW c \in {"Input", "Close"}, Send(s, c)
        PROVE  TypeOK'
    <3>1. queue[s] \in Seq({"Input", "Close"}) /\ Len(queue[s]) < QueueSize
      BY <2>2 DEF Send, HasRoom, TransportInv, TypeOK
    <3>2. /\ Append(queue[s], c) \in Seq({"Input", "Close"})
          /\ Len(Append(queue[s], c)) <= QueueSize
      BY <3>1 DEF SessionAssumption
    <3> QED
      BY <2>2, <3>2 DEF Send, TransportInv, TypeOK, transport
  <2> QED
    BY <2>1, <2>2
<1>3. Counted'
  BY <1>1, UsersKept DEF TransportInv, transport
<1>4. Fresh' /\ HasTransport' /\ LastDisconnects' /\ Telling'
  BY <1>1 DEF TransportInv, transport, Fresh, HasTransport, LastDisconnects, Telling
<1> QED
  BY <1>2, <1>3, <1>4 DEF TransportInv

\* What a step that changes one queue or says one word at most leaves typed.
LEMMA StepTyped ==
  ASSUME SessionAssumption, TransportInv, NEW s \in Sessions,
         pc' \in [Sessions -> {"none", "connecting", "acquired", "opening", "opened",
                               "connected", "writing", "stopping", "release", "failRelease", "swap",
                               "failSwap", "failed", "ending", "gone"}],
         via' \in [Sessions -> Sessions \cup {None}],
         inMap' \subseteq Sessions,
         known' \in [Sessions -> Sessions \cup {None}],
         \/ UNCHANGED queue
         \/ queue' = [queue EXCEPT ![s] = <<>>]
         \/ queue[s] # <<>> /\ queue' = [queue EXCEPT ![s] = Tail(@)],
         \/ UNCHANGED events
         \/ \E es \in Seq(Words) : events' = [events EXCEPT ![s] = @ \o es],
         count' \in [Sessions -> 0 .. MaxPerTransport],
         disconnected' \in [Sessions -> BOOLEAN],
         closes' \in [Sessions -> Nat],
         UNCHANGED <<cancelled, sftp>>
  PROVE  TypeOK'
<1> USE DEF TransportInv
<1>1. /\ queue' \in [Sessions -> Seq({"Input", "Close"})]
      /\ \A u \in Sessions : Len(queue'[u]) <= QueueSize
  <2>1. CASE UNCHANGED queue
    BY <2>1 DEF TypeOK
  <2>2. CASE queue' = [queue EXCEPT ![s] = <<>>]
    BY <2>2 DEF TypeOK, SessionAssumption
  <2>3. CASE queue[s] # <<>> /\ queue' = [queue EXCEPT ![s] = Tail(@)]
    <3>1. queue[s] \in Seq({"Input", "Close"}) /\ Len(queue[s]) <= QueueSize
      BY DEF TypeOK
    <3>2. Tail(queue[s]) \in Seq({"Input", "Close"}) /\ Len(Tail(queue[s])) <= QueueSize
      BY <2>3, <3>1 DEF SessionAssumption
    <3> QED
      BY <2>3, <3>2 DEF TypeOK
  <2> QED
    BY <2>1, <2>2, <2>3
<1>2. events \in [Sessions -> Seq(Words)]
  BY DEF TypeOK, Words
<1>3. events' \in [Sessions -> Seq(Words)]
  <2>1. ASSUME NEW es \in Seq(Words), events' = [events EXCEPT ![s] = @ \o es]
        PROVE  events' \in [Sessions -> Seq(Words)]
    <3>1. events[s] \o es \in Seq(Words)
      BY <1>2
    <3> QED
      BY <1>2, <2>1, <3>1
  <2> QED
    BY <1>2, <2>1
<1> QED
  BY <1>1, <1>3 DEF TypeOK, Words

\* What a step that says at most one word about s keeps of what is told: the
\* session is open before, and open or ended after.
LEMMA TellingKept ==
  ASSUME SessionAssumption, TransportInv, NEW s \in Sessions, NEW l,
         pc' = [pc EXCEPT ![s] = l], UNCHANGED <<via, known>>,
         pc[s] \in Unclosed \ {"opened"}, l \notin {"none", "acquired", "opened"},
         \/ UNCHANGED events /\ (l \in Unclosed \/ pc[s] = "acquired")
         \/ \E x \in Words : /\ x # "Connected"
                             /\ events' = [events EXCEPT ![s] = @ \o <<x>>]
                             /\ x = "Closed" <=> l \notin Unclosed
  PROVE  Telling'
<1> USE DEF TransportInv
<1>0. events \in [Sessions -> Seq(Words)] /\ Open(events[s])
  BY DEF TypeOK, Telling, Words
<1>1. /\ IF l \in Unclosed THEN Open(events'[s]) ELSE Ended(events'[s])
      /\ Announced(events'[s]) <=> Announced(events[s])
      /\ \A u \in Sessions : u # s => events'[u] = events[u]
  <2>1. CASE UNCHANGED events /\ (l \in Unclosed \/ pc[s] = "acquired")
    <3>1. pc[s] = "acquired" => Ended(events[s])
      BY DEF Telling, Ended
    <3> QED
      BY <1>0, <2>1, <3>1
  <2>2. ASSUME NEW x \in Words, x # "Connected", events' = [events EXCEPT ![s] = @ \o <<x>>],
               x = "Closed" <=> l \notin Unclosed
        PROVE  /\ IF l \in Unclosed THEN Open(events'[s]) ELSE Ended(events'[s])
               /\ Announced(events'[s]) <=> Announced(events[s])
               /\ \A u \in Sessions : u # s => events'[u] = events[u]
    BY <1>0, <2>2, SaidOpen
  <2> QED
    BY <2>1, <2>2
<1>3. \A u \in Sessions : pc'[u] = IF u = s THEN l ELSE pc[u]
  BY DEF TypeOK
<1> QED
  BY <1>1, <1>3 DEF Telling, Unclosed

\* A step of s that leaves its transport alone and says at most one word.
LEMMA LocalStep ==
  ASSUME SessionAssumption, TransportInv, NEW s \in Sessions, NEW l,
         pc' = [pc EXCEPT ![s] = l],
         UNCHANGED <<via, known, cancelled, sftp, transport>>,
         l \in {"connecting", "opening", "connected", "writing", "stopping",
               "release", "failRelease", "ending"},
         l \in Holding <=> pc[s] \in Holding,
         pc[s] \in Unclosed \ {"failSwap", "opened"},
         l = "connecting" => pc[s] = "none",
         inMap' \subseteq Sessions,
         \/ UNCHANGED queue
         \/ queue' = [queue EXCEPT ![s] = <<>>]
         \/ queue[s] # <<>> /\ queue' = [queue EXCEPT ![s] = Tail(@)],
         \/ UNCHANGED events /\ (l \in Unclosed \/ pc[s] = "acquired")
         \/ \E x \in Words : /\ x # "Connected"
                             /\ events' = [events EXCEPT ![s] = @ \o <<x>>]
                             /\ x = "Closed" <=> l \notin Unclosed
  PROVE  TransportInv'
<1>1. Counted' /\ Fresh' /\ HasTransport' /\ LastDisconnects'
  BY MovesOn DEF Swapping, Unclosed
<1>2. Telling'
  BY TellingKept
<1>3. /\ pc' \in [Sessions -> {"none", "connecting", "acquired", "opening", "opened",
                               "connected", "writing", "stopping", "release", "failRelease", "swap",
                               "failSwap", "failed", "ending", "gone"}]
      /\ via' \in [Sessions -> Sessions \cup {None}]
      /\ known' \in [Sessions -> Sessions \cup {None}]
      /\ count' \in [Sessions -> 0 .. MaxPerTransport]
      /\ disconnected' \in [Sessions -> BOOLEAN]
      /\ closes' \in [Sessions -> Nat]
  BY DEF TransportInv, TypeOK, transport
<1>4. \/ UNCHANGED events
      \/ \E es \in Seq(Words) : events' = [events EXCEPT ![s] = @ \o es]
  <2>1. \A x \in Words : <<x>> \in Seq(Words)
    OBVIOUS
  <2> QED
    BY <2>1
<1>5. TypeOK'
  BY <1>3, <1>4, StepTyped
<1> QED
  BY <1>1, <1>2, <1>5 DEF TransportInv

\* The steps of the task that leave its transport alone.
LEMMA LocalSteps ==
  ASSUME SessionAssumption, TransportInv, NEW s \in Sessions,
         \/ Begin(s) \/ InsertReuse(s) \/ DropReuse(s) \/ ShellFail(s)
         \/ ReuseCancelled(s) \/ TakeCommand(s) \/ Written(s) \/ SeeCancel(s)
         \/ ShellEnds(s) \/ Stop(s) \/ EmitClosed(s)
  PROVE  TransportInv'
<1> USE DEF Goto, Emit, Holding, Running, Unclosed, Words
<1>0. inMap \subseteq Sessions /\ inMap \cup {s} \subseteq Sessions
  BY DEF TransportInv, TypeOK
<1>1. CASE Begin(s)
  BY <1>0, <1>1, LocalStep DEF Begin
<1>2. CASE InsertReuse(s)
  BY <1>0, <1>2, LocalStep DEF InsertReuse
<1>3. CASE DropReuse(s)
  BY <1>0, <1>3, LocalStep DEF DropReuse
<1>4. CASE ShellFail(s)
  BY <1>0, <1>4, LocalStep DEF ShellFail
<1>5. CASE ReuseCancelled(s)
  BY <1>0, <1>5, LocalStep DEF ReuseCancelled
<1>6. CASE TakeCommand(s)
  BY <1>0, <1>6, LocalStep DEF TakeCommand
<1>7. CASE Written(s)
  BY <1>0, <1>7, LocalStep DEF Written
<1>8. CASE SeeCancel(s)
  BY <1>0, <1>8, LocalStep DEF SeeCancel
<1>9. CASE ShellEnds(s)
  BY <1>0, <1>9, LocalStep DEF ShellEnds
<1>10. CASE Stop(s)
  BY <1>0, <1>10, LocalStep DEF Stop
<1>11. CASE EmitClosed(s)
  BY <1>0, <1>11, LocalStep DEF EmitClosed, FailureEvents
<1> QED
  BY <1>1, <1>2, <1>3, <1>4, <1>5, <1>6, <1>7, <1>8, <1>9, <1>10, <1>11

\* The connect fails: two words, and the session never had a transport.
LEMMA ConnectFailKept ==
  ASSUME SessionAssumption, TransportInv, NEW s \in Sessions, ConnectFail(s)
  PROVE  TransportInv'
<1> DEFINE e == events[s] \o <<"Error", "Closed">>
<1>1. /\ pc[s] = "connecting" /\ pc' = [pc EXCEPT ![s] = "ending"]
      /\ events' = [events EXCEPT ![s] = e]
      /\ UNCHANGED <<via, inMap, known, cancelled, queue, sftp, transport>>
  BY DEF ConnectFail, Goto, Emit
<1>2. Counted' /\ Fresh' /\ HasTransport' /\ LastDisconnects'
  BY <1>1, MovesOn DEF Holding, Running, Swapping
<1>3. events[s] \in Seq(Words) /\ Open(events[s]) /\ known[s] = None /\ ~Announced(events[s])
  BY <1>1 DEF TransportInv, TypeOK, Words, Telling, Unclosed, Fresh
<1>4. e \in Seq(Words) /\ Ended(e) /\ ~Announced(e)
  <2>1. /\ e \in Seq(Words) /\ Len(e) = Len(events[s]) + 2 /\ Len(events[s]) \in Nat
        /\ \A n \in 1..Len(events[s]) : e[n] = events[s][n]
        /\ e[Len(events[s]) + 1] = "Error" /\ e[Len(events[s]) + 2] = "Closed"
    BY <1>3 DEF Words
  <2> HIDE DEF e
  <2>2. \A n \in 1..Len(e) : n \in 1..Len(events[s]) \/ n \in {Len(events[s]) + 1, Len(events[s]) + 2}
    BY <2>1
  <2> QED
    BY <1>3, <2>1, <2>2 DEF Open, Ended, Announced
<1> HIDE DEF e
<1>5. Telling'
  <2>1. \A u \in Sessions : u # s => pc'[u] = pc[u] /\ events'[u] = events[u]
    BY <1>1 DEF TransportInv, TypeOK
  <2>2. pc'[s] = "ending" /\ events'[s] = e /\ known' = known /\ via' = via
    BY <1>1 DEF TransportInv, TypeOK
  <2> QED
    BY <1>3, <1>4, <2>1, <2>2 DEF TransportInv, Telling, Unclosed
<1>6. TypeOK'
  <2>1. events' = [events EXCEPT ![s] = @ \o <<"Error", "Closed">>]
    BY <1>1 DEF e
  <2>2. <<"Error", "Closed">> \in Seq(Words)
    BY DEF Words
  <2>3. \E es \in Seq(Words) : events' = [events EXCEPT ![s] = @ \o es]
    BY <2>1, <2>2
  <2> QED
    BY <1>1, <2>3, StepTyped DEF TransportInv, TypeOK, transport
<1> QED
  BY <1>2, <1>5, <1>6 DEF TransportInv

\* The shell opens: the transport becomes known.
LEMMA ShellOkKept ==
  ASSUME SessionAssumption, TransportInv, NEW s \in Sessions, ShellOk(s)
  PROVE  TransportInv'
<1>1. /\ pc[s] = "opening" /\ pc' = [pc EXCEPT ![s] = "opened"]
      /\ known' = [known EXCEPT ![s] = via[s]]
      /\ UNCHANGED <<via, inMap, cancelled, queue, sftp, events, transport>>
  BY DEF ShellOk, Goto
<1>2. Counted' /\ Fresh' /\ HasTransport' /\ LastDisconnects'
  BY <1>1, MovesOn DEF Holding, Running, Swapping
<1>3. via[s] \in Sessions /\ via[s] # None
  BY <1>1 DEF TransportInv, HasTransport, Holding, Running, SessionAssumption
<1>4. Telling'
  <2>1. \A u \in Sessions : u # s => pc'[u] = pc[u] /\ known'[u] = known[u]
    BY <1>1 DEF TransportInv, TypeOK
  <2>2. pc'[s] = "opened" /\ known'[s] = via[s] /\ events' = events /\ via' = via
    BY <1>1 DEF TransportInv, TypeOK
  <2> QED
    BY <1>1, <1>3, <2>1, <2>2 DEF TransportInv, Telling, Unclosed
<1>5. TypeOK'
  BY <1>1, StepTyped DEF TransportInv, TypeOK, transport
<1> QED
  BY <1>2, <1>4, <1>5 DEF TransportInv

\* And the session is announced.
LEMMA TellConnectedKept ==
  ASSUME SessionAssumption, TransportInv, NEW s \in Sessions, TellConnected(s)
  PROVE  TransportInv'
<1> DEFINE e == events[s] \o <<"Connected">>
<1>1. /\ pc[s] = "opened" /\ pc' = [pc EXCEPT ![s] = "connected"]
      /\ events' = [events EXCEPT ![s] = e]
      /\ UNCHANGED <<via, inMap, known, cancelled, queue, sftp, transport>>
  BY DEF TellConnected, Goto, Emit
<1>2. Counted' /\ Fresh' /\ HasTransport' /\ LastDisconnects'
  BY <1>1, MovesOn DEF Holding, Running, Swapping
<1>3. /\ events[s] \in Seq(Words) /\ Open(events[s]) /\ "Connected" \in Words
      /\ known[s] # None
  BY <1>1 DEF TransportInv, TypeOK, Words, Telling, Unclosed
<1>4. Open(e) /\ Announced(e)
  BY <1>3, SaidOpen DEF Words
<1> HIDE DEF e
<1>5. Telling'
  <2>1. \A u \in Sessions : u # s => pc'[u] = pc[u] /\ events'[u] = events[u]
    BY <1>1 DEF TransportInv, TypeOK
  <2>2. pc'[s] = "connected" /\ events'[s] = e /\ known' = known /\ via' = via
    BY <1>1 DEF TransportInv, TypeOK
  <2> QED
    BY <1>3, <1>4, <2>1, <2>2 DEF TransportInv, Telling, Unclosed
<1>6. TypeOK'
  <2>1. events' = [events EXCEPT ![s] = @ \o <<"Connected">>]
    BY <1>1 DEF e
  <2>2. <<"Connected">> \in Seq(Words)
    BY DEF Words
  <2>3. \E es \in Seq(Words) : events' = [events EXCEPT ![s] = @ \o es]
    BY <2>1, <2>2
  <2> QED
    BY <1>1, <2>3, StepTyped DEF TransportInv, TypeOK, transport
<1> QED
  BY <1>2, <1>5, <1>6 DEF TransportInv

\* The session leaves the map.
LEMMA RemoveFromMapKept ==
  ASSUME SessionAssumption, TransportInv, NEW s \in Sessions, RemoveFromMap(s)
  PROVE  TransportInv'
<1>1. /\ pc[s] = "ending" /\ pc' = [pc EXCEPT ![s] = "gone"]
      /\ known' = [known EXCEPT ![s] = None] /\ inMap' = inMap \ {s}
      /\ queue' = [queue EXCEPT ![s] = <<>>]
      /\ UNCHANGED <<via, cancelled, sftp, events, transport>>
  BY DEF RemoveFromMap, Goto
<1>2. Counted' /\ Fresh' /\ HasTransport' /\ LastDisconnects'
  BY <1>1, MovesOn DEF Holding, Running, Swapping
<1>3. Telling'
  <2>1. \A u \in Sessions : u # s => pc'[u] = pc[u] /\ known'[u] = known[u]
    BY <1>1 DEF TransportInv, TypeOK
  <2>2. pc'[s] = "gone" /\ known'[s] = None
    BY <1>1 DEF TransportInv, TypeOK
  <2> QED
    BY <1>1, <2>1, <2>2 DEF TransportInv, Telling, Unclosed
<1>4. TypeOK'
  BY <1>1, StepTyped DEF TransportInv, TypeOK, transport
<1> QED
  BY <1>2, <1>3, <1>4 DEF TransportInv

\* What is told, when a step says nothing and stays on its side of Closed.
LEMMA NothingSaid ==
  ASSUME SessionAssumption, TransportInv, NEW s \in Sessions, NEW l,
         pc' = [pc EXCEPT ![s] = l], UNCHANGED <<known, events>>,
         \A u \in Sessions \ {s} : via'[u] = via[u],
         via'[s] = via[s] \/ known[s] = None,
         l \in Unclosed <=> pc[s] \in Unclosed,
         l \in {"none", "acquired"} => pc[s] \in {"none", "acquired"},
         l # "opened", pc[s] \notin {"opened", "gone"}
  PROVE  Telling'
<1>1. /\ \A u \in Sessions : u # s => pc'[u] = pc[u] /\ via'[u] = via[u]
      /\ pc'[s] = l /\ events' = events /\ known' = known
  BY DEF TransportInv, TypeOK
<1> QED
  BY <1>1 DEF TransportInv, Telling

\* A lease: one more session on a transport in use.
LEMMA AcquireKept ==
  ASSUME SessionAssumption, TransportInv, NEW s \in Sessions, NEW source \in Sessions,
         Acquire(s, source)
  PROVE  TransportInv'
<1>0. known[source] \in Sessions
  BY DEF Acquire, TransportInv, TypeOK
<1> PICK t \in Sessions : t = known[source]
  BY <1>0
<1>1. /\ pc[s] = "none" /\ pc' = [pc EXCEPT ![s] = "acquired"]
      /\ t # None /\ count[t] # 0 /\ ~disconnected[t] /\ count[t] < MaxPerTransport
      /\ count' = [count EXCEPT ![t] = @ + 1] /\ via' = [via EXCEPT ![s] = t]
      /\ UNCHANGED <<inMap, known, cancelled, queue, sftp, events, disconnected, closes>>
  BY DEF Acquire, MayAcquire, Goto
<1>2. via[source] = t /\ via[s] = None /\ known[s] = None
      /\ (\A u \in Sessions : via[u] # s) /\ ~disconnected[s] /\ t # s
  BY <1>1 DEF TransportInv, Telling, Fresh
<1>3. /\ \A u \in Sessions : pc'[u] = IF u = s THEN "acquired" ELSE pc[u]
      /\ \A u \in Sessions : via'[u] = IF u = s THEN t ELSE via[u]
      /\ \A u \in Sessions : count'[u] = IF u = t THEN count[u] + 1 ELSE count[u]
      /\ \A u \in Sessions : count[u] \in 0 .. MaxPerTransport
      /\ disconnected' = disconnected /\ closes' = closes
  BY <1>1, <1>2 DEF TransportInv, TypeOK
<1>4. Counted'
  <2>1. Users(t)' = Users(t) \cup {s} /\ s \notin Users(t)
    BY <1>1, <1>2, <1>3 DEF Users, Holding, Running
  <2>2. \A u \in Sessions : u # t => Users(u)' = Users(u)
    BY <1>1, <1>2, <1>3 DEF Users, Holding, Running, SessionAssumption
  <2>3. IsFiniteSet(Users(t))
    BY FS_Subset DEF Users, SessionAssumption
  <2>4. Cardinality(Users(t)') = Cardinality(Users(t)) + 1
    BY <2>1, <2>3, FS_AddElement
  <2>5. ASSUME NEW u \in Sessions
        PROVE  count'[u] = Cardinality(Users(u)')
    BY <1>2, <1>3, <2>2, <2>4 DEF TransportInv, Counted
  <2> QED
    BY <2>5 DEF Counted
<1>5. Fresh'
  BY <1>1, <1>2, <1>3 DEF TransportInv, Fresh
<1>6. HasTransport'
  BY <1>2, <1>3 DEF TransportInv, HasTransport, Swapping
<1>7. LastDisconnects'
  <2>1. \A u \in Sessions :
          (pc'[u] \in Swapping \/ pc[u] \in Swapping)
            => pc'[u] \in Swapping /\ pc[u] \in Swapping /\ u # s /\ via'[u] = via[u] /\ via[u] # t
    BY <1>1, <1>2, <1>3 DEF TransportInv, LastDisconnects, Swapping
  <2>2. ASSUME NEW u \in Sessions, pc'[u] \in Swapping
        PROVE  /\ count'[via'[u]] = 0 /\ ~disconnected[via'[u]]
               /\ \A v \in Sessions : pc'[v] \in Swapping /\ via'[v] = via'[u] => v = u
    <3>1. /\ pc[u] \in Swapping /\ via'[u] = via[u] /\ via[u] \in Sessions
          /\ count[via[u]] = 0 /\ ~disconnected[via[u]]
          /\ \A v \in Sessions : pc[v] \in Swapping /\ via[v] = via[u] => v = u
      BY <2>1, <2>2 DEF TransportInv, LastDisconnects, HasTransport
    <3>2. count'[via[u]] = 0
      BY <1>3, <2>1, <2>2, <3>1
    <3> QED
      BY <2>1, <3>1, <3>2
  <2>3. ASSUME NEW u \in Sessions, via'[u] = u
        PROVE  \/ count'[u] # 0 \/ disconnected[u]
               \/ \E v \in Sessions : via'[v] = u /\ pc'[v] \in Swapping
    <3>1. CASE u = t
      BY <1>1, <1>3, <3>1
    <3>2. CASE u # t
      <4>1. via[u] = u /\ count'[u] = count[u]
        BY <1>2, <1>3, <2>3, <3>2
      <4>2. \/ count[u] # 0 \/ disconnected[u]
            \/ \E v \in Sessions : via[v] = u /\ pc[v] \in Swapping
        BY <4>1 DEF TransportInv, LastDisconnects
      <4> QED
        BY <2>1, <4>1, <4>2
    <3> QED
      BY <3>1, <3>2
  <2>4. ASSUME NEW u \in Sessions
        PROVE  /\ disconnected[u] => count'[u] = 0
               /\ closes[u] = IF disconnected[u] THEN 1 ELSE 0
    BY <1>1, <1>3 DEF TransportInv, LastDisconnects
  <2> QED
    BY <1>3, <2>2, <2>3, <2>4 DEF LastDisconnects
<1>8. Telling'
  <2>1. UNCHANGED <<known, events>> /\ \A u \in Sessions \ {s} : via'[u] = via[u]
    BY <1>1, <1>3
  <2>2. pc[s] \in Unclosed /\ "acquired" \in Unclosed /\ pc[s] \in {"none", "acquired"}
    BY <1>1 DEF Unclosed
  <2> QED
    BY <1>1, <1>2, <2>1, <2>2, NothingSaid
<1>9. TypeOK'
  <2>1. /\ pc' \in [Sessions -> {"none", "connecting", "acquired", "opening", "opened",
                                 "connected", "writing", "stopping", "release", "failRelease", "swap",
                                 "failSwap", "failed", "ending", "gone"}]
        /\ via' \in [Sessions -> Sessions \cup {None}]
    BY <1>1, <1>2 DEF TransportInv, TypeOK
  <2>2. count' \in [Sessions -> 0 .. MaxPerTransport]
    BY <1>1, <1>2 DEF TransportInv, TypeOK, SessionAssumption
  <2> QED
    BY <1>1, <2>1, <2>2, StepTyped DEF TransportInv, TypeOK
<1> QED
  BY <1>4, <1>5, <1>6, <1>7, <1>8, <1>9 DEF TransportInv

\* A new transport, with one session.
LEMMA ConnectOkKept ==
  ASSUME SessionAssumption, TransportInv, NEW s \in Sessions, ConnectOk(s)
  PROVE  TransportInv'
<1>1. /\ pc[s] = "connecting" /\ pc' = [pc EXCEPT ![s] = "opening"]
      /\ via' = [via EXCEPT ![s] = s] /\ count' = [count EXCEPT ![s] = 1]
      /\ UNCHANGED <<inMap, known, cancelled, queue, sftp, events, disconnected, closes>>
  BY DEF ConnectOk, Goto
<1>2. via[s] = None /\ known[s] = None /\ ~disconnected[s]
      /\ (\A u \in Sessions : via[u] # s)
  BY <1>1 DEF TransportInv, Fresh, Telling
<1>3. /\ \A u \in Sessions : pc'[u] = IF u = s THEN "opening" ELSE pc[u]
      /\ \A u \in Sessions : via'[u] = IF u = s THEN s ELSE via[u]
      /\ \A u \in Sessions : count'[u] = IF u = s THEN 1 ELSE count[u]
      /\ disconnected' = disconnected /\ closes' = closes
  BY <1>1 DEF TransportInv, TypeOK
<1>4. Counted'
  <2>1. Users(s)' = {s}
    BY <1>2, <1>3 DEF Users, Holding, Running
  <2>2. \A u \in Sessions : u # s => Users(u)' = Users(u)
    BY <1>1, <1>2, <1>3 DEF Users, Holding, Running, SessionAssumption
  <2>3. Cardinality(Users(s)') = 1
    BY <2>1, FS_Singleton
  <2>4. ASSUME NEW u \in Sessions
        PROVE  count'[u] = Cardinality(Users(u)')
    BY <1>3, <2>2, <2>3 DEF TransportInv, Counted
  <2> QED
    BY <2>4 DEF Counted
<1>5. Fresh'
  BY <1>1, <1>2, <1>3 DEF TransportInv, Fresh
<1>6. HasTransport'
  BY <1>2, <1>3 DEF TransportInv, HasTransport, Swapping
<1>7. LastDisconnects'
  <2>1. \A u \in Sessions :
          (pc'[u] \in Swapping \/ pc[u] \in Swapping)
            => pc'[u] \in Swapping /\ pc[u] \in Swapping /\ u # s /\ via'[u] = via[u]
    BY <1>1, <1>3 DEF Swapping
  <2>2. ASSUME NEW u \in Sessions, pc'[u] \in Swapping
        PROVE  /\ count'[via'[u]] = 0 /\ ~disconnected[via'[u]]
               /\ \A v \in Sessions : pc'[v] \in Swapping /\ via'[v] = via'[u] => v = u
    <3>1. /\ pc[u] \in Swapping /\ via'[u] = via[u] /\ via[u] \in Sessions
          /\ count[via[u]] = 0 /\ ~disconnected[via[u]]
          /\ \A v \in Sessions : pc[v] \in Swapping /\ via[v] = via[u] => v = u
      BY <2>1, <2>2 DEF TransportInv, LastDisconnects, HasTransport
    <3>2. count'[via[u]] = 0
      BY <1>2, <1>3, <2>1, <2>2, <3>1
    <3> QED
      BY <2>1, <3>1, <3>2
  <2>3. ASSUME NEW u \in Sessions, via'[u] = u
        PROVE  \/ count'[u] # 0 \/ disconnected[u]
               \/ \E v \in Sessions : via'[v] = u /\ pc'[v] \in Swapping
    <3>1. CASE u = s
      BY <1>3, <3>1
    <3>2. CASE u # s
      <4>1. via[u] = u /\ count'[u] = count[u]
        BY <1>3, <2>3, <3>2
      <4>2. \/ count[u] # 0 \/ disconnected[u]
            \/ \E v \in Sessions : via[v] = u /\ pc[v] \in Swapping
        BY <4>1 DEF TransportInv, LastDisconnects
      <4> QED
        BY <2>1, <4>1, <4>2
    <3> QED
      BY <3>1, <3>2
  <2>4. ASSUME NEW u \in Sessions
        PROVE  /\ disconnected[u] => count'[u] = 0
               /\ closes[u] = IF disconnected[u] THEN 1 ELSE 0
    BY <1>2, <1>3 DEF TransportInv, LastDisconnects
  <2> QED
    BY <1>3, <2>2, <2>3, <2>4 DEF LastDisconnects
<1>8. Telling'
  BY <1>1, <1>2, <1>3, NothingSaid DEF Unclosed
<1>9. TypeOK'
  <2>1. /\ pc' \in [Sessions -> {"none", "connecting", "acquired", "opening", "opened",
                                 "connected", "writing", "stopping", "release", "failRelease", "swap",
                                 "failSwap", "failed", "ending", "gone"}]
        /\ via' \in [Sessions -> Sessions \cup {None}]
    BY <1>1 DEF TransportInv, TypeOK
  <2>2. count' \in [Sessions -> 0 .. MaxPerTransport]
    BY <1>1 DEF TransportInv, TypeOK, SessionAssumption
  <2> QED
    BY <1>1, <2>1, <2>2, StepTyped DEF TransportInv, TypeOK
<1> QED
  BY <1>4, <1>5, <1>6, <1>7, <1>8, <1>9 DEF TransportInv

\* The decrement: who brings the counter to zero is to disconnect.
LEMMA ReleaseKept ==
  ASSUME SessionAssumption, TransportInv, NEW s \in Sessions, Release(s)
  PROVE  TransportInv'
<1> DEFINE t == via[s]
           l == CASE count[t] = 1 /\ pc[s] = "release" -> "swap"
                  [] count[t] = 1 /\ pc[s] # "release" -> "failSwap"
                  [] count[t] # 1 /\ pc[s] = "release" -> "ending"
                  [] OTHER -> "failed"
<1>1. /\ pc[s] \in {"release", "failRelease"} /\ pc' = [pc EXCEPT ![s] = l]
      /\ count' = [count EXCEPT ![t] = @ - 1]
      /\ UNCHANGED <<via, inMap, known, cancelled, queue, sftp, events, disconnected, closes>>
  BY DEF Release, LastOut, Goto
<1>2. t \in Sessions /\ count[t] \in Nat \ {0} /\ ~disconnected[t]
  BY <1>1, HeldIsInUse DEF Holding
<1>3. /\ l \in {"swap", "failSwap", "ending", "failed"}
      /\ l \in Swapping <=> count[t] = 1
      /\ l \in Unclosed <=> pc[s] \in Unclosed
  BY <1>1 DEF Swapping, Unclosed
<1> HIDE DEF l
<1>4. /\ \A u \in Sessions : pc'[u] = IF u = s THEN l ELSE pc[u]
      /\ \A u \in Sessions : count'[u] = IF u = t THEN count[u] - 1 ELSE count[u]
      /\ via' = via /\ disconnected' = disconnected /\ closes' = closes
  BY <1>1, <1>2 DEF TransportInv, TypeOK
<1>5. Counted'
  <2>1. Users(t)' = Users(t) \ {s} /\ s \in Users(t)
    BY <1>1, <1>3, <1>4 DEF Users, Holding, Running
  <2>2. \A u \in Sessions : u # t => Users(u)' = Users(u)
    BY <1>1, <1>4 DEF Users
  <2>3. IsFiniteSet(Users(t))
    BY FS_Subset DEF Users, SessionAssumption
  <2>4. Cardinality(Users(t)') = Cardinality(Users(t)) - 1
    BY <2>1, <2>3, FS_RemoveElement
  <2>5. ASSUME NEW u \in Sessions
        PROVE  count'[u] = Cardinality(Users(u)')
    BY <1>2, <1>4, <2>2, <2>4 DEF TransportInv, Counted
  <2> QED
    BY <2>5 DEF Counted
<1>6. Fresh' /\ HasTransport'
  BY <1>1, <1>2, <1>3, <1>4 DEF TransportInv, Fresh, HasTransport
<1>7. LastDisconnects'
  <2>1. \A u \in Sessions : pc[u] \in Swapping => u # s /\ via[u] # t
    BY <1>1, <1>2 DEF TransportInv, LastDisconnects, Swapping
  <2>2. \A u \in Sessions : pc'[u] \in Swapping =>
          /\ count'[via[u]] = 0 /\ ~disconnected[via[u]]
          /\ \A v \in Sessions : pc'[v] \in Swapping /\ via[v] = via[u] => v = u
    BY <1>2, <1>3, <1>4, <2>1 DEF TransportInv, LastDisconnects, HasTransport
  <2>3. ASSUME NEW u \in Sessions, via[u] = u
        PROVE  \/ count'[u] # 0 \/ disconnected[u]
               \/ \E v \in Sessions : via[v] = u /\ pc'[v] \in Swapping
    <3>1. CASE u = t
      BY <1>2, <1>3, <1>4, <3>1
    <3>2. CASE u # t
      BY <1>4, <2>1, <2>3, <3>2 DEF TransportInv, LastDisconnects
    <3> QED
      BY <3>1, <3>2
  <2>4. ASSUME NEW u \in Sessions
        PROVE  /\ disconnected[u] => count'[u] = 0
               /\ closes[u] = IF disconnected[u] THEN 1 ELSE 0
    BY <1>2, <1>4 DEF TransportInv, LastDisconnects
  <2> QED
    BY <1>4, <2>2, <2>3, <2>4 DEF LastDisconnects
<1>8. Telling'
  BY <1>1, <1>3, <1>4, NothingSaid DEF Swapping
<1>9. TypeOK'
  <2>1. pc' \in [Sessions -> {"none", "connecting", "acquired", "opening", "opened",
                             "connected", "writing", "stopping", "release", "failRelease", "swap",
                             "failSwap", "failed", "ending", "gone"}]
    BY <1>1, <1>3 DEF TransportInv, TypeOK
  <2>2. count' \in [Sessions -> 0 .. MaxPerTransport]
    <3>1. count \in [Sessions -> 0 .. MaxPerTransport]
      BY DEF TransportInv, TypeOK
    <3>2. count[t] - 1 \in 0 .. MaxPerTransport
      BY <1>2, <3>1 DEF SessionAssumption
    <3> QED
      BY <1>1, <3>1, <3>2
  <2> QED
    BY <1>1, <2>1, <2>2, StepTyped DEF TransportInv, TypeOK
<1> QED
  BY <1>5, <1>6, <1>7, <1>8, <1>9 DEF TransportInv

\* The swap: the transport was connected, and nobody else disconnects it.
LEMMA DisconnectKept ==
  ASSUME SessionAssumption, TransportInv, NEW s \in Sessions, Disconnect(s)
  PROVE  TransportInv'
<1> DEFINE t == via[s]
           l == IF pc[s] = "swap" THEN "ending" ELSE "failed"
<1>1. /\ pc[s] \in Swapping /\ pc' = [pc EXCEPT ![s] = l]
      /\ disconnected' = [disconnected EXCEPT ![t] = TRUE]
      /\ closes' = [closes EXCEPT ![t] = IF disconnected[t] THEN @ ELSE @ + 1]
      /\ UNCHANGED <<via, inMap, known, cancelled, queue, sftp, events, count>>
  BY DEF Disconnect, Goto, Swapping
<1>2. t \in Sessions /\ count[t] = 0 /\ ~disconnected[t]
      /\ \A u \in Sessions : pc[u] \in Swapping /\ via[u] = t => u = s
  BY <1>1 DEF TransportInv, HasTransport, LastDisconnects
<1>3. /\ l \in {"ending", "failed"} /\ l \notin Swapping /\ l \notin Holding
      /\ pc[s] \notin Holding /\ (l \in Unclosed <=> pc[s] \in Unclosed)
  BY <1>1 DEF Swapping, Unclosed, Holding, Running
<1> HIDE DEF l
<1>4. /\ \A u \in Sessions : pc'[u] = IF u = s THEN l ELSE pc[u]
      /\ \A u \in Sessions : disconnected'[u] <=> u = t \/ disconnected[u]
      /\ \A u \in Sessions : closes'[u] = IF u = t THEN closes[u] + 1 ELSE closes[u]
      /\ via' = via /\ count' = count
  BY <1>1, <1>2 DEF TransportInv, TypeOK
<1>5. Counted'
  BY <1>3, <1>4, UsersKept DEF TransportInv
<1>6. Fresh' /\ HasTransport'
  BY <1>2, <1>3, <1>4 DEF TransportInv, Fresh, HasTransport
<1>7. LastDisconnects'
  <2>1. \A u \in Sessions : pc'[u] \in Swapping <=> pc[u] \in Swapping /\ u # s
    BY <1>3, <1>4
  <2>2. ASSUME NEW u \in Sessions
        PROVE  /\ disconnected'[u] => count'[u] = 0
               /\ closes'[u] = IF disconnected'[u] THEN 1 ELSE 0
    BY <1>2, <1>4 DEF TransportInv, LastDisconnects
  <2>3. ASSUME NEW u \in Sessions, via[u] = u
        PROVE  \/ count[u] # 0 \/ disconnected'[u]
               \/ \E v \in Sessions : via[v] = u /\ pc'[v] \in Swapping
    BY <1>2, <1>4, <2>1, <2>3 DEF TransportInv, LastDisconnects
  <2>4. ASSUME NEW u \in Sessions, pc'[u] \in Swapping
        PROVE  /\ count[via[u]] = 0 /\ ~disconnected'[via[u]]
               /\ \A v \in Sessions : pc'[v] \in Swapping /\ via[v] = via[u] => v = u
    BY <1>2, <1>4, <2>1, <2>4 DEF TransportInv, LastDisconnects, HasTransport
  <2> QED
    BY <1>4, <2>2, <2>3, <2>4 DEF LastDisconnects
<1>8. Telling'
  BY <1>1, <1>3, <1>4, NothingSaid DEF Swapping
<1>9. TypeOK'
  <2>1. pc' \in [Sessions -> {"none", "connecting", "acquired", "opening", "opened",
                             "connected", "writing", "stopping", "release", "failRelease", "swap",
                             "failSwap", "failed", "ending", "gone"}]
    BY <1>1, <1>3 DEF TransportInv, TypeOK
  <2>2. disconnected' \in [Sessions -> BOOLEAN] /\ closes' \in [Sessions -> Nat]
    BY <1>1, <1>2 DEF TransportInv, TypeOK
  <2> QED
    BY <1>1, <2>1, <2>2, StepTyped DEF TransportInv, TypeOK
<1> QED
  BY <1>5, <1>6, <1>7, <1>8, <1>9 DEF TransportInv

LEMMA TransportNext == SessionAssumption /\ TransportInv /\ [Next]_vars => TransportInv'
<1> SUFFICES ASSUME SessionAssumption, TransportInv, [Next]_vars PROVE TransportInv'
  OBVIOUS
<1>1. CASE UNCHANGED vars
  <2>1. Counted'
    BY <1>1, UsersKept DEF TransportInv, vars, transport
  <2> QED
    BY <1>1, <2>1 DEF TransportInv, vars, transport, TypeOK, Fresh, HasTransport,
                      LastDisconnects, Telling
<1>2. ASSUME NEW s \in Sessions, NEW source \in Sessions, Acquire(s, source)
      PROVE  TransportInv'
  BY <1>2, AcquireKept
<1>3. ASSUME NEW s \in Sessions,
             \/ Begin(s) \/ InsertReuse(s) \/ DropReuse(s) \/ TaskStep(s)
             \/ ReuseCancelled(s) \/ SeeCancel(s) \/ ShellEnds(s) \/ Cancel(s)
             \/ \E c \in {"Input", "Close"} : Send(s, c)
             \/ SftpStart(s) \/ SftpDone(s)
      PROVE  TransportInv'
  BY <1>3, LocalSteps, RequestKept, ConnectOkKept, ConnectFailKept, ShellOkKept,
     TellConnectedKept,
     ReleaseKept, DisconnectKept, RemoveFromMapKept DEF TaskStep
<1> QED
  BY <1>1, <1>2, <1>3 DEF Next

\* The invariant gives the properties of the transports.
LEMMA TransportInvSound == SessionAssumption /\ TransportInv => TransportSound
<1> SUFFICES ASSUME SessionAssumption, TransportInv PROVE TransportSound
  OBVIOUS
<1>1. CountMatchesLeases
  BY DEF TransportInv, Counted, Users, CountMatchesLeases
<1>2. InUseStaysConnected
  BY HeldIsInUse DEF InUseStaysConnected
<1>3. DisconnectedOnce
  <2>1. ASSUME NEW t \in Sessions, via[t] = t,
               \A s \in Sessions : via[s] = t => pc[s] = "gone"
        PROVE  closes[t] = 1
    <3>1. Users(t) = {}
      BY <2>1 DEF Users, Holding, Running
    <3>2. count[t] = 0
      BY <3>1, FS_EmptySet DEF TransportInv, Counted
    <3> QED
      BY <2>1, <3>2 DEF TransportInv, LastDisconnects, Swapping
  <2> QED
    BY <2>1 DEF DisconnectedOnce, TransportInv, LastDisconnects
<1>4. ClosedIsLast
  <2>1. ASSUME NEW s \in Sessions
        PROVE  /\ \A n \in DOMAIN events[s] : events[s][n] = "Closed" => n = Len(events[s])
               /\ pc[s] = "gone" /\ events[s] # <<>> => Last(events[s]) = "Closed"
    <3>1. events[s] \in Seq(Words)
      BY DEF TransportInv, TypeOK, Words
    <3>2. IF pc[s] \in Unclosed THEN Open(events[s]) ELSE Ended(events[s])
      BY DEF TransportInv, Telling
    <3> QED
      BY <3>1, <3>2 DEF Open, Ended, Last, Unclosed
  <2> QED
    BY <2>1 DEF ClosedIsLast
<1>5. ToldIsKnown
  <2>1. ASSUME NEW s \in Sessions
        PROVE  Contains(events[s], "Connected") <=> Announced(events[s])
    <3>1. events[s] \in Seq(Words)
      BY DEF TransportInv, TypeOK, Words
    <3> QED
      BY <3>1 DEF Contains, Announced
  <2> QED
    BY <2>1 DEF ToldIsKnown, TransportInv, Telling
<1> QED
  BY <1>1, <1>2, <1>3, <1>4, <1>5 DEF TransportInv, TransportSound

\* A shared transport lives exactly as long as the sessions on it, and what
\* subscribers are told is true: for any sessions, whatever the order in which
\* they connect, reuse, fail, are cancelled and end.
THEOREM TransportsAreSound ==
  ASSUME SessionAssumption PROVE Spec => []TransportSound
<1>1. Spec => []TransportInv
  BY TransportInit, TransportNext, PTL DEF Spec
<1> QED
  BY <1>1, TransportInvSound, PTL

====
