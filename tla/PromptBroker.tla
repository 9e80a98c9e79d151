----------------------------- MODULE PromptBroker -----------------------------
(***************************************************************************)
(* The two brokers that ask a window for a decision during an SSH connect: *)
(* HostKeyBroker (is this key to be trusted?) and InteractiveAuthBroker    *)
(* (answers for keyboard-interactive authentication).  Each connection     *)
(* attempt makes at most one request to each of them, first the host key.  *)
(* A request is a future that other tasks race against: the window's       *)
(* answer, the broker's timer, the cancellation or time-out of the whole   *)
(* connect, and the destruction of the owning window.                      *)
(***************************************************************************)
EXTENDS Naturals, Sequences, FiniteSets

CONSTANTS
  Attempts,     \* connection attempts (client_attempt_id)
  Windows,      \* window labels: the owners of attempts
  Buffer,       \* capacity of a broadcast receiver (64 in the code)
  KnownLists,   \* the lists of known hosts an attempt may be started with
  LiveKeys,     \* the keys a server may present
  Asks,         \* whether servers ask for keyboard-interactive answers
  Subscribed    \* the brokers whose prompts the renderers subscribe to

NoWindow == "none"

PromptAssumption ==
  /\ Buffer \in Nat \ {0}
  /\ Asks \in SUBSET BOOLEAN \ {{}}
  /\ NoWindow \notin Windows

Brokers == {"hostKey", "interactive"}
Ids == Attempts \X Brokers

VARIABLES
  owner,      \* the window an attempt was started from
  stage,      \* where the connect future of an attempt is
  req,        \* program counter of the broker's request future
  pending,    \* the ids in the pending map of their broker
  slot,       \* the oneshot channel of a request
  verdict,    \* what the request returned
  subs,       \* the broadcast receiver of each window at each broker
  seen,       \* prompts delivered to the renderer of a window
  alive,      \* windows not yet destroyed
  cleanup,    \* progress of the task spawned by a Destroyed event
  late,       \* answers of a destroyed window that wait for the broker's lock
  reply       \* the first answer to a request that respond returned Ok for

vars == <<owner, stage, req, pending, slot, verdict, subs, seen, alive,
          cleanup, late, reply>>

NoReply == [by |-> NoWindow, accept |-> FALSE]
Closed == [live |-> FALSE, queue |-> <<>>, lagged |-> FALSE]

TypeOK ==
  /\ owner \in [Attempts -> Windows \cup {NoWindow}]
  /\ stage \in [Attempts -> {"idle", "hostKey", "interactive", "connected",
                             "failed", "cancelled"}]
  /\ req \in [Ids -> {"none", "insert", "send", "wait", "expired", "remove",
                      "done", "dropped"}]
  /\ pending \subseteq Ids
  /\ slot \in [Ids -> {"open", "accept", "deny", "closed"}]
  /\ verdict \in [Ids -> {"none", "accept", "refuse"}]
  /\ subs \in [Brokers -> [Windows ->
                  [live : BOOLEAN, queue : Seq(Ids), lagged : BOOLEAN]]]
  /\ \A b \in Brokers, w \in Windows : Len(subs[b][w].queue) <= Buffer
  /\ seen \in [Windows -> SUBSET Ids]
  /\ alive \subseteq Windows
  /\ cleanup \in [Windows -> {"none", "hostKey", "interactive", "done"}]
  /\ late \in [Windows -> SUBSET Ids]
  /\ reply \in [Ids -> [by : Windows \cup {NoWindow}, accept : BOOLEAN]]

Init ==
  /\ owner = [a \in Attempts |-> NoWindow]
  /\ stage = [a \in Attempts |-> "idle"]
  /\ req = [i \in Ids |-> "none"]
  /\ pending = {}
  /\ slot = [i \in Ids |-> "open"]
  /\ verdict = [i \in Ids |-> "none"]
  /\ subs = [b \in Brokers |-> [w \in Windows |-> Closed]]
  /\ seen = [w \in Windows |-> {}]
  /\ alive = Windows
  /\ cleanup = [w \in Windows |-> "none"]
  /\ late = [w \in Windows |-> {}]
  /\ reply = [i \in Ids |-> NoReply]

-----------------------------------------------------------------------------
(* Known hosts.  A known host is a record [host, port, type, fp]; port 0   *)
(* stands for "not given" (22), fp "none" for a record without one.        *)

TheHost == "h"
ThePort == 22

Matches(k) == k.host = TheHost /\ (IF k.port = 0 THEN 22 ELSE k.port) = ThePort

Candidates(known) == SelectSeq(known, LAMBDA k : Matches(k) /\ k.fp # "none")

Classify(known, live) ==
  LET c == Candidates(known)
  IN  CASE \E n \in DOMAIN c : c[n].fp = live.fp -> "trusted"
        [] /\ \A n \in DOMAIN c : c[n].fp # live.fp
           /\ live.type \notin {"", "unknown"}
           /\ \E n \in DOMAIN c : c[n].type = live.type -> "changed"
        [] OTHER -> "unknown"

-----------------------------------------------------------------------------
(* The connect future of an attempt.                                       *)

\* connect_stream up to check_server_key: PromptingHostKeyVerifier::verify
\* returns at once when verification is off or the key is known.  The command
\* may have been on its way when its window was destroyed.
Verify(a, w) ==
  /\ stage[a] = "idle"
  /\ owner' = [owner EXCEPT ![a] = w]
  /\ \E enabled \in BOOLEAN, known \in KnownLists, live \in LiveKeys :
       IF ~enabled \/ Classify(known, live) = "trusted"
       THEN /\ stage' = [stage EXCEPT ![a] = "interactive"]
            /\ UNCHANGED req
       ELSE /\ stage' = [stage EXCEPT ![a] = "hostKey"]
            /\ req' = [req EXCEPT ![<<a, "hostKey">>] = "insert"]
  /\ UNCHANGED <<pending, slot, verdict, subs, seen, alive, cleanup, late, reply>>

\* authenticate: either a method needs no prompt, or the server asks.
Authenticate(a) ==
  /\ stage[a] = "interactive"
  /\ req[<<a, "interactive">>] = "none"
  /\ \/ /\ FALSE \in Asks
        /\ stage' = [stage EXCEPT ![a] = "connected"]
        /\ UNCHANGED req
     \/ /\ TRUE \in Asks
        /\ req' = [req EXCEPT ![<<a, "interactive">>] = "insert"]
        /\ UNCHANGED stage
  /\ UNCHANGED <<owner, pending, slot, verdict, subs, seen, alive, cleanup, late, reply>>

\* The request future is dropped where it awaits: its receiver closes and its
\* pending entry stays.
Drop(i) ==
  /\ req' = [req EXCEPT ![i] = "dropped"]
  /\ slot' = [slot EXCEPT ![i] = IF req[i] \in {"insert", "send", "wait"}
                                 THEN "closed" ELSE @]

\* select! on the cancellation token, or the handshake time-out around the
\* whole step.  authenticate runs inside the dropped future; the host-key
\* callback runs inside the SSH library, which may let it finish.
AbortConnect(a) ==
  /\ stage[a] \in Brokers
  /\ stage' = [stage EXCEPT ![a] = "cancelled"]
  /\ LET i == <<a, stage[a]>>
     IN  \/ /\ req[i] \in {"insert", "wait", "remove"}
            /\ Drop(i)
         \/ /\ req[i] = "none" \/ stage[a] = "hostKey"
            /\ UNCHANGED <<req, slot>>
  /\ UNCHANGED <<owner, pending, verdict, subs, seen, alive, cleanup, late, reply>>

-----------------------------------------------------------------------------
(* request: one action per await.                                          *)

Insert(i) ==
  /\ req[i] = "insert"
  /\ pending' = pending \cup {i}
  /\ req' = [req EXCEPT ![i] = "send"]
  /\ UNCHANGED <<owner, stage, slot, verdict, subs, seen, alive, cleanup, late, reply>>

\* A full receiver loses its oldest prompt and will see Lagged.
Deliver(s, i) ==
  CASE ~s.live -> s
    [] s.live /\ Len(s.queue) < Buffer -> [s EXCEPT !.queue = Append(@, i)]
    [] OTHER -> [s EXCEPT !.queue = Append(Tail(@), i), !.lagged = TRUE]

Publish(i) ==
  LET b == i[2] IN
  /\ req[i] = "send"
  /\ IF \A w \in Windows : ~subs[b][w].live
     THEN /\ req' = [req EXCEPT ![i] = "remove"]
          /\ verdict' = [verdict EXCEPT ![i] = "refuse"]
          /\ slot' = [slot EXCEPT ![i] = "closed"]
          /\ UNCHANGED subs
     ELSE /\ req' = [req EXCEPT ![i] = "wait"]
          /\ subs' = [subs EXCEPT ![b] =
                        [w \in Windows |-> Deliver(subs[b][w], i)]]
          /\ UNCHANGED <<verdict, slot>>
  /\ UNCHANGED <<owner, stage, pending, seen, alive, cleanup, late, reply>>

\* timeout polls the receiver before the timer.
Receive(i) ==
  /\ req[i] = "wait"
  /\ slot[i] \in {"accept", "deny"}
  /\ verdict' = [verdict EXCEPT ![i] = IF slot[i] = "accept" THEN "accept" ELSE "refuse"]
  /\ slot' = [slot EXCEPT ![i] = "closed"]
  /\ req' = [req EXCEPT ![i] = "remove"]
  /\ UNCHANGED <<owner, stage, pending, subs, seen, alive, cleanup, late, reply>>

\* Mutant: the wait has no time limit.
ExpireNever(i) == FALSE

\* The timer has fired while the receiver was empty; the receiver is dropped
\* only by the next step, so an answer may still be sent into it.
Expire(i) ==
  /\ req[i] = "wait"
  /\ slot[i] = "open"
  /\ req' = [req EXCEPT ![i] = "expired"]
  /\ UNCHANGED <<owner, stage, pending, slot, verdict, subs, seen, alive,
                 cleanup, late, reply>>

\* Mutant: a request nobody answered counts as accepted.
UnansweredAccepted == "accept"

\* unwrap_or(false), flatten
Unanswered == "refuse"

DropReceiver(i) ==
  /\ req[i] = "expired"
  /\ slot' = [slot EXCEPT ![i] = "closed"]
  /\ verdict' = [verdict EXCEPT ![i] = Unanswered]
  /\ req' = [req EXCEPT ![i] = "remove"]
  /\ UNCHANGED <<owner, stage, pending, subs, seen, alive, cleanup, late, reply>>

\* The caller's use of the verdict.
NextStage(i) ==
  CASE verdict[i] = "refuse" -> "failed"
    [] verdict[i] # "refuse" /\ i[2] = "hostKey" -> "interactive"
    [] OTHER -> "connected"

Remaining(i) == pending \ {i}

\* The final removal; an abandoned connect does not see the verdict.
Remove(i) ==
  LET a == i[1] IN
  /\ req[i] = "remove"
  /\ pending' = Remaining(i)
  /\ req' = [req EXCEPT ![i] = "done"]
  /\ stage' = IF stage[a] # i[2] THEN stage
              ELSE [stage EXCEPT ![a] = NextStage(i)]
  /\ UNCHANGED <<owner, slot, verdict, subs, seen, alive, cleanup, late, reply>>

-----------------------------------------------------------------------------
(* Windows: subscription, answers, destruction.                            *)

Subscribe(b, w) ==
  /\ w \in alive
  /\ b \in Subscribed
  /\ ~subs[b][w].live
  /\ ~subs[b][w].lagged
  /\ subs' = [subs EXCEPT ![b][w] = [Closed EXCEPT !.live = TRUE]]
  /\ UNCHANGED <<owner, stage, req, pending, slot, verdict, seen, alive,
                 cleanup, late, reply>>

\* Mutant: every window is shown every prompt.
ForwardsToAll(i, w) == TRUE

ForwardsTo(i, w) == owner[i[1]] = w

\* The forwarding task: Lagged ends it for ever, a prompt of another window is
\* skipped, and a failed send to a destroyed window ends it.
Forward(b, w) ==
  LET s == subs[b][w] IN
  /\ s.live
  /\ s.lagged \/ s.queue # <<>>
  /\ IF s.lagged
     THEN /\ subs' = [subs EXCEPT ![b][w] = [s EXCEPT !.live = FALSE, !.queue = <<>>]]
          /\ UNCHANGED seen
     ELSE LET i == Head(s.queue) IN
          IF ~ForwardsTo(i, w)
          THEN /\ subs' = [subs EXCEPT ![b][w].queue = Tail(@)]
               /\ UNCHANGED seen
          ELSE IF w \in alive
          THEN /\ subs' = [subs EXCEPT ![b][w].queue = Tail(@)]
               /\ seen' = [seen EXCEPT ![w] = @ \cup {i}]
          ELSE /\ subs' = [subs EXCEPT ![b][w] = Closed]
               /\ UNCHANGED seen
  /\ UNCHANGED <<owner, stage, req, pending, slot, verdict, alive, cleanup, late, reply>>

\* Mutant: any window may answer.
RespondResultAnyOwner(w, i) ==
  CASE i \notin pending -> "NotFound"
    [] i \in pending /\ slot[i] = "closed" -> "Expired"
    [] OTHER -> "Ok"

RespondResult(w, i) ==
  CASE i \notin pending -> "NotFound"
    [] i \in pending /\ owner[i[1]] # w -> "WrongOwner"
    [] i \in pending /\ owner[i[1]] = w /\ slot[i] = "closed" -> "Expired"
    [] OTHER -> "Ok"

\* respond, and the finish of the interactive broker with its respond (an
\* accept) and cancel (a denial): a command of the window w, which runs when
\* it gets the broker's lock.  By then the window may have been destroyed.
Respond(w, i, accept) ==
  /\ w \in alive \/ i \in late[w]
  /\ req[i] \notin {"none", "insert"}
  /\ LET result == RespondResult(w, i)
     IN  /\ pending' = IF result \in {"Ok", "Expired"} THEN pending \ {i} ELSE pending
         /\ slot' = IF result = "Ok"
                    THEN [slot EXCEPT ![i] = IF accept THEN "accept" ELSE "deny"]
                    ELSE slot
         /\ reply' = IF result = "Ok" /\ reply[i] = NoReply
                     THEN [reply EXCEPT ![i] = [by |-> w, accept |-> accept]]
                     ELSE reply
  /\ late' = [late EXCEPT ![w] = @ \ {i}]
  /\ UNCHANGED <<owner, stage, req, verdict, subs, seen, alive, cleanup>>

\* Mutant: the Destroyed event is forgotten by the brokers.
RequestsOfForgotten(w, b) == {}

RequestsOf(w, b) == {i \in pending : i[2] = b /\ owner[i[1]] = w}

\* Answers to the open prompts the window was shown may be on their way: the
\* commands are tasks of the runtime and survive their window.
Destroy(w) ==
  /\ w \in alive
  /\ alive' = alive \ {w}
  /\ cleanup' = [cleanup EXCEPT ![w] = "hostKey"]
  /\ \E onTheWay \in SUBSET (seen[w] \cap pending) :
       late' = [late EXCEPT ![w] = onTheWay]
  /\ UNCHANGED <<owner, stage, req, pending, slot, verdict, subs, seen, reply>>

\* The spawned task: reject_owner of one broker and then of the other.
RejectOwner(w) ==
  LET b == cleanup[w]
      mine == RequestsOf(w, b)
  IN  /\ b \in Brokers
      /\ pending' = pending \ mine
      /\ slot' = [i \in Ids |-> IF i \in mine /\ slot[i] # "closed" THEN "deny"
                                ELSE slot[i]]
      /\ cleanup' = [cleanup EXCEPT ![w] = IF b = "hostKey" THEN "interactive"
                                           ELSE "done"]
      /\ UNCHANGED <<owner, stage, req, verdict, subs, seen, alive, late, reply>>

-----------------------------------------------------------------------------
RequestStep(i) ==
  Insert(i) \/ Publish(i) \/ Receive(i) \/ Expire(i) \/ DropReceiver(i) \/ Remove(i)

Next ==
  \/ \E a \in Attempts, w \in Windows : Verify(a, w)
  \/ \E a \in Attempts : Authenticate(a) \/ AbortConnect(a)
  \/ \E i \in Ids : RequestStep(i)
  \/ \E b \in Brokers, w \in Windows : Subscribe(b, w) \/ Forward(b, w)
  \/ \E w \in Windows, i \in Ids, accept \in BOOLEAN : Respond(w, i, accept)
  \/ \E w \in Windows : Destroy(w) \/ RejectOwner(w)

Spec == Init /\ [][Next]_vars

-----------------------------------------------------------------------------
(* Properties.                                                             *)

\* A key that was not trusted is accepted, and an answer to an authentication
\* prompt is used, only if the window that owns the attempt gave that answer
\* to that very request and respond told it Ok.  A time-out, a lost prompt, a
\* destroyed window or an answer of another window all count as a refusal.
GrantedByOwner ==
  \A i \in Ids :
    verdict[i] = "accept" =>
      /\ reply[i].accept
      /\ reply[i].by = owner[i[1]]

\* A request whose future finished has left the pending map, so a late answer
\* reports NotFound: whatever raced it, only a request that was dropped in the
\* middle may leave its entry behind.
DecidedIsNotPending ==
  \A i \in pending : req[i] \in {"send", "wait", "expired", "remove", "dropped"}

\* The renderer of a window only ever sees prompts of its own attempts.
PromptOnlyToOwner ==
  \A w \in Windows : \A i \in seen[w] : owner[i[1]] = w

\* An attempt is connected only after its host key was trusted, unverified by
\* choice, or accepted: the host-key request never stays open behind it.
NoConnectBeforeHostKey ==
  \A a \in Attempts :
    stage[a] \in {"interactive", "connected"} =>
      req[<<a, "hostKey">>] \in {"none", "done"} /\ verdict[<<a, "hostKey">>] # "refuse"

\* A prompt is decided by the window that owns its attempt and by nobody else,
\* from the host-key question to the end of the authentication.
DecidedByOwner ==
  /\ TypeOK
  /\ GrantedByOwner
  /\ DecidedIsNotPending
  /\ PromptOnlyToOwner
  /\ NoConnectBeforeHostKey

\* The brokers have rejected what the window owned.
Rejected(w, b) ==
  \/ cleanup[w] = "done"
  \/ cleanup[w] = "interactive" /\ b = "hostKey"

\* A window that was destroyed grants nothing of its own accord: only an answer
\* that was on its way to a request that was open at that moment may still be
\* taken, and no longer than until reject_owner of its broker.  No request made
\* later, and none that is still open when the owner was rejected, is answered
\* or accepted any more, whatever is queued, timed or cleaned up.
DestroyedCannotGrantStep ==
  \A i \in Ids :
    LET w == owner[i[1]] IN
    w # NoWindow /\ w \notin alive /\ reply[i] = NoReply =>
      /\ verdict'[i] # "accept"
      /\ reply'[i] # NoReply => ~Rejected(w, i[2]) /\ i \in late[w]

\* The destruction of a window is final for everything that was not on its way.
DestroyedCannotGrant == [][DestroyedCannotGrantStep]_vars

\* No request is under way.
NothingAsked == \A i \in Ids : req[i] \in {"none", "done", "dropped"}
=============================================================================
