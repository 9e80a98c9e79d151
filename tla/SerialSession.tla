---------------------------- MODULE SerialSession ----------------------------
(***************************************************************************)
(* One session of SerialRuntimeManager: its actor (run_session), which owns *)
(* the port, and the callers that take, cancel and give back the raw bytes *)
(* of the line for a file transfer.                                        *)
(*                                                                         *)
(* The bytes of the line belong to the terminal, or to one transfer, which *)
(* is known by its token: begin_raw_transfer takes them, and so does the   *)
(* sentry that recognizes the start of a ZMODEM transfer in the device's   *)
(* output.  After an abort they stay in quarantine: the drain drops what   *)
(* the device has still sent until its cancel marker or a deadline.        *)
(*                                                                         *)
(* The device sends pieces: "t" text, "x" what may be the start of a       *)
(* header, "h" a ZMODEM header, "p" bytes of a protocol, "c" CAN bytes, of *)
(* which Required in a row are the marker.                                 *)
(***************************************************************************)
EXTENDS Naturals, Sequences

CONSTANTS
  MaxTokens,     \* bound: transfers of the session
  MaxReads,      \* bound: reads from the device
  MaxInputs,     \* bound: what the user types
  EventCapacity, \* EVENT_CHANNEL_CAPACITY
  Reserve,       \* TERMINAL_EVENT_RESERVE
  CmdCapacity,   \* COMMAND_CHANNEL_CAPACITY
  RawCapacity,   \* RAW_TRANSFER_EVENT_CHANNEL_CAPACITY
  Required,      \* ProtocolAbortDrain.required_can
  Calls          \* what is called: begin, claim, decline

\* What a model must choose.
SerialSessionAssumption ==
  /\ MaxTokens \in Nat \ {0} /\ MaxReads \in Nat /\ MaxInputs \in Nat
  /\ EventCapacity \in Nat /\ Reserve \in 0..EventCapacity
  /\ CmdCapacity \in Nat \ {0} /\ RawCapacity \in Nat \ {0}
  /\ Required \in Nat \ {0}
  /\ Calls \subseteq {"begin", "claim", "decline"}

VARIABLES
  actor,     \* opening, running, ended
  top,       \* the actor is at the top of its loop
  busy,      \* the operation of the actor that is under way
  stop,      \* the stop signal: run, close, cancel
  ui,        \* the queue of events: receiver open, length, Closed events sent
  reserved,  \* the token that owns the raw bytes, or 0
  detected,  \* the token of a detected and unclaimed transfer, or 0
  cans,      \* CANs in a row in what the detected transfer has received
  drain,     \* the quarantine: token or 0, CANs in a row, marker seen, finishes
  held,      \* the sentry holds back what may be the start of a header
  commands,  \* the queue of commands
  driver,    \* what the owner of each token is doing
  backlog,   \* raw events waiting for the owner of each token
  cancel,    \* tokens that are asked to cancel
  call,      \* where the callers of begin, claim and decline are
  declining, \* the token that decline has found
  device,    \* the device: shell, proto, told (to abort), can, canned
  tokens, reads, inputs,
  excused,   \* protocol bytes may now come with no owner to take them
  residue    \* protocol bytes were shown although they were not excused

api == <<call, declining, stop>>
line == <<reserved, detected, cans, drain, held>>
drivers == <<driver, backlog, cancel>>
world == <<device, reads, excused, residue>>
vars == <<actor, top, busy, ui, line, commands, drivers, api, world, tokens, inputs>>

Token == 1..MaxTokens
NoBusy == [op |-> "none", token |-> 0, bytes |-> <<>>]
NoDrain == [token |-> 0, can |-> 0, marker |-> FALSE, finishes |-> {}]

Init ==
  /\ actor = "opening" /\ top = FALSE /\ busy = NoBusy /\ stop = "run"
  /\ ui = [open |-> TRUE, length |-> 1, closed |-> 0]
  /\ reserved = 0 /\ detected = 0 /\ cans = 0 /\ drain = NoDrain /\ held = FALSE
  /\ commands = <<>>
  /\ driver = [t \in Token |-> "none"]
  /\ backlog = [t \in Token |-> 0]
  /\ cancel = {}
  /\ call = [c \in Calls |-> "idle"] /\ declining = 0
  /\ device = "shell"
  /\ tokens = 0 /\ reads = 0 /\ inputs = 0
  /\ excused = FALSE /\ residue = FALSE

----------------------------------------------------------------------------
\* Events to the user interface.

TrySend(u, closed) ==
  IF u.open /\ u.length < EventCapacity
  THEN [u EXCEPT !.length = @ + 1, !.closed = @ + closed]
  ELSE u

EmitClosed(u) == TrySend(u, 1)
FinishError(u) == EmitClosed(TrySend(u, 0))

FinishStopped(u) == IF stop = "run" THEN u ELSE EmitClosed(u)

EmitRegular(u) ==
  IF ~u.open THEN [ok |-> FALSE, ui |-> u]
  ELSE IF EventCapacity - u.length <= Reserve THEN [ok |-> FALSE, ui |-> FinishError(u)]
  ELSE [ok |-> TRUE, ui |-> TrySend(u, 0)]

\* What decoded bytes do; no event for no bytes.
EmitData(u, bytes) == IF bytes = <<>> THEN [ok |-> TRUE, ui |-> u] ELSE EmitRegular(u)

\* Bytes that reach the terminal.
Shows(bytes) ==
  residue' = (residue \/ (~excused /\ reserved \in {0, drain.token, detected} /\ \E i \in DOMAIN bytes : bytes[i] \in {"p", "c"}))

HeldBytes == IF held THEN <<"x">> ELSE <<>>

----------------------------------------------------------------------------
\* The end of the session.

\* The owner no longer has the receiving end of the raw events.
ReceiverGone(t) == driver[t] \in {"done", "failed", "gone", "dropped"}

\* RegistryGuard::drop, and the commands and answers that die with the actor.
End(u) ==
  /\ actor' = "ended" /\ top' = FALSE /\ busy' = NoBusy /\ ui' = u
  /\ reserved' = 0 /\ detected' = 0 /\ cans' = 0 /\ drain' = NoDrain /\ held' = FALSE
  /\ commands' = <<>>
  /\ driver' = [t \in Token |->
       IF driver[t] \in {"writing", "aborting", "ending"} THEN "failed"
       ELSE IF driver[t] = "pending" THEN "dropped" ELSE driver[t]]

\* The loop goes on after a step, or the session has ended in it.
GoOn(emitted) ==
  /\ actor' = "running" /\ top' = TRUE /\ busy' = NoBusy /\ ui' = emitted.ui

----------------------------------------------------------------------------
\* ProtocolAbortDrain.

\* push: the CANs in a row, whether the marker has been seen, and what follows
\* the protocol.
Push(can, marker, bytes) ==
  LET scan[i \in 0..Len(bytes)] ==
        IF i = 0 THEN [can |-> can, marker |-> marker, tail |-> <<>>]
        ELSE LET s == scan[i - 1] IN
          IF s.tail # <<>> THEN s
          ELSE IF s.marker
               THEN IF bytes[i] = "c" THEN s
                    ELSE [s EXCEPT !.tail = SubSeq(bytes, i, Len(bytes))]
               ELSE LET n == IF bytes[i] = "c" THEN s.can + 1 ELSE 0
                    IN  [s EXCEPT !.can = n, !.marker = n >= Required]
  IN  scan[Len(bytes)]

NewDrain(token) == [NoDrain EXCEPT !.token = token]

CompleteDrain(d, tail) ==
  LET emitted == EmitData(ui, tail) IN
  IF emitted.ok
  THEN /\ GoOn(emitted)
       /\ reserved' = IF reserved = d.token THEN 0 ELSE reserved
       /\ detected' = IF detected = d.token THEN 0 ELSE detected
       /\ drain' = NoDrain /\ held' = FALSE /\ cans' = 0
       /\ driver' = [t \in Token |->
            IF t \in d.finishes /\ driver[t] = "ending" THEN "done"
            ELSE IF t = d.token /\ driver[t] = "pending" THEN "dropped" ELSE driver[t]]
       /\ UNCHANGED commands
  ELSE End(emitted.ui)

----------------------------------------------------------------------------
\* The actor.

Opens ==
  /\ actor = "opening"
  /\ LET emitted == EmitRegular(ui) IN
     IF emitted.ok
     THEN GoOn(emitted) /\ UNCHANGED <<line, commands, driver>>
     ELSE End(emitted.ui)
  /\ UNCHANGED <<backlog, cancel, api, world, tokens, inputs>>

\* The port does not open, or not in OPEN_TIMEOUT.
OpenFails ==
  /\ actor = "opening"
  /\ End(FinishError(ui))
  /\ UNCHANGED <<backlog, cancel, api, world, tokens, inputs>>

\* The top of the loop: release_abandoned_transfer.
\* Mutant: a transfer in quarantine is released as well.
LoopTopUnprotected ==
  /\ actor = "running" /\ top
  /\ IF reserved # 0 /\ ReceiverGone(reserved)
     THEN LET emitted == EmitData(ui, HeldBytes) IN
          /\ IF emitted.ok
             THEN /\ reserved' = 0
                  /\ detected' = IF detected = reserved THEN 0 ELSE detected
                  /\ held' = FALSE /\ ui' = emitted.ui /\ top' = FALSE
                  /\ UNCHANGED <<actor, busy, cans, drain, commands, driver>>
             ELSE End(emitted.ui)
          /\ excused' = (device # "shell" /\ reserved # drain.token)
          /\ UNCHANGED residue
     ELSE /\ top' = FALSE
          /\ UNCHANGED <<actor, busy, ui, line, commands, driver, excused, residue>>
  /\ UNCHANGED <<backlog, cancel, api, device, reads, tokens, inputs>>

\* Mutant: nothing is released there.
LoopTopNever ==
  /\ actor = "running" /\ top
  /\ top' = FALSE
  /\ UNCHANGED <<actor, busy, ui, line, commands, driver, excused, residue>>
  /\ UNCHANGED <<backlog, cancel, api, device, reads, tokens, inputs>>

LoopTop ==
  /\ actor = "running" /\ top
  /\ IF reserved # 0 /\ ReceiverGone(reserved) /\ reserved # drain.token
     THEN LET emitted == EmitData(ui, HeldBytes) IN
          /\ IF emitted.ok
             THEN /\ reserved' = 0
                  /\ detected' = IF detected = reserved THEN 0 ELSE detected
                  /\ held' = FALSE /\ ui' = emitted.ui /\ top' = FALSE
                  /\ UNCHANGED <<actor, busy, cans, drain, commands, driver>>
             ELSE End(emitted.ui)
          /\ excused' = (device # "shell" /\ driver[reserved] # "dropped")
          /\ UNCHANGED residue
     ELSE /\ top' = FALSE
          /\ UNCHANGED <<actor, busy, ui, line, commands, driver, excused, residue>>
  /\ UNCHANGED <<backlog, cancel, api, device, reads, tokens, inputs>>

\* The actor waits in its select.
Selects == actor = "running" /\ ~top /\ busy = NoBusy

\* A stop: a close flushes and shuts the port down, which may fail.
Stops ==
  /\ actor = "opening" \/ Selects
  /\ stop # "run"
  /\ \/ End(FinishStopped(ui))
     \/ actor = "running" /\ stop = "close" /\ End(FinishError(ui))
  /\ UNCHANGED <<backlog, cancel, api, world, tokens, inputs>>

\* Nobody receives the events any more.
EventsClosed ==
  /\ actor = "opening" \/ Selects
  /\ ~ui.open
  /\ End(ui)
  /\ UNCHANGED <<backlog, cancel, api, world, tokens, inputs>>

\* The drain's deadline, in the select or at the top of the loop.
DrainDeadline ==
  /\ Selects
  /\ drain.token # 0
  /\ CompleteDrain(drain, <<>>)
  /\ excused' = (device # "shell")
  /\ UNCHANGED <<backlog, cancel, api, device, reads, residue, tokens, inputs>>

DetectionDeadline ==
  /\ Selects
  /\ detected # 0 /\ reserved = detected
  /\ detected' = 0 /\ cans' = 0 /\ held' = FALSE
  /\ driver' = [driver EXCEPT ![detected] = "dropped"]
  /\ busy' = [NoBusy EXCEPT !.op = "unclaimed", !.token = detected]
  /\ UNCHANGED <<actor, top, ui, reserved, drain, commands, backlog, cancel, api, world,
                 tokens, inputs>>

\* The commands.

DropInput(cmd) ==
  /\ cmd.op = "input"
  /\ IF reserved # 0
     THEN top' = TRUE /\ UNCHANGED busy
     ELSE busy' = [NoBusy EXCEPT !.op = "input"] /\ UNCHANGED top
  /\ UNCHANGED <<actor, ui, line, drivers, excused, residue>>

\* A write of the owner, or its abort sequence; not if the token is stale.
OwnerWrite(cmd) ==
  /\ cmd.op \in {"write", "abort"}
  /\ IF reserved = cmd.token
     THEN /\ busy' = [NoBusy EXCEPT !.op = cmd.op, !.token = cmd.token]
          /\ UNCHANGED <<top, driver>>
     ELSE /\ driver' = [driver EXCEPT ![cmd.token] =
                          IF @ \in {"writing", "aborting"} THEN "held" ELSE @]
          /\ top' = TRUE
          /\ UNCHANGED busy
  /\ UNCHANGED <<actor, ui, line, backlog, cancel, excused, residue>>

\* EndTransfer: tail is what the owner returns to the terminal.
\* Mutant: the transfer is released while it is in quarantine.
EndTransferAtOnce(cmd) ==
  /\ cmd.op = "end"
  /\ LET mine == reserved = cmd.token
         emitted == EmitData(ui, IF mine THEN HeldBytes \o cmd.tail ELSE <<>>) IN
     /\ reserved' = IF mine THEN 0 ELSE reserved
     /\ detected' = IF mine /\ detected = cmd.token THEN 0 ELSE detected
     /\ held' = IF mine THEN FALSE ELSE held
     /\ driver' = [driver EXCEPT ![cmd.token] = IF @ = "ending" THEN "done" ELSE @]
     /\ excused' = IF mine THEN device # "shell" /\ drain.token # cmd.token ELSE excused
     /\ ui' = emitted.ui /\ top' = TRUE
     /\ UNCHANGED <<actor, busy, cans, drain, residue>>
  /\ UNCHANGED <<backlog, cancel>>

EndTransfer(cmd) ==
  /\ cmd.op = "end"
  /\ IF drain.token = cmd.token
     THEN /\ drain' = [drain EXCEPT !.finishes =
                         IF driver[cmd.token] = "ending" THEN @ \cup {cmd.token} ELSE @]
          /\ top' = TRUE
          /\ UNCHANGED <<actor, busy, ui, reserved, detected, cans, held, driver, excused, residue>>
     ELSE LET mine == reserved = cmd.token
              first == EmitData(ui, IF mine THEN HeldBytes ELSE <<>>)
              emitted == IF first.ok /\ mine THEN EmitData(first.ui, cmd.tail) ELSE first IN
          /\ IF emitted.ok
             THEN /\ GoOn(emitted)
                  /\ reserved' = IF mine THEN 0 ELSE reserved
                  /\ detected' = IF mine /\ detected = cmd.token THEN 0 ELSE detected
                  /\ held' = IF mine THEN FALSE ELSE held
                  /\ driver' = [driver EXCEPT ![cmd.token] = IF @ = "ending" THEN "done" ELSE @]
                  /\ UNCHANGED <<cans, drain>>
             ELSE /\ End(emitted.ui)
          /\ excused' = IF mine THEN device # "shell" ELSE excused
          /\ UNCHANGED residue
  /\ UNCHANGED <<backlog, cancel>>

DeclineDetected(cmd) ==
  /\ cmd.op = "decline"
  /\ IF reserved = cmd.token /\ detected = cmd.token
     THEN /\ detected' = 0 /\ cans' = 0 /\ held' = FALSE
          /\ driver' = [driver EXCEPT ![detected] = "dropped"]
          /\ busy' = [NoBusy EXCEPT !.op = "unclaimed", !.token = detected]
          /\ UNCHANGED <<top, reserved, drain>>
     ELSE top' = TRUE /\ UNCHANGED <<line, busy, driver>>
  /\ UNCHANGED <<actor, ui, backlog, cancel, excused, residue>>

Command ==
  /\ Selects
  /\ commands # <<>>
  /\ LET cmd == Head(commands) IN
     \/ DropInput(cmd) /\ commands' = Tail(commands)
     \/ OwnerWrite(cmd) /\ commands' = Tail(commands)
     \/ DeclineDetected(cmd) /\ commands' = Tail(commands)
     \/ EndTransfer(cmd) /\ commands' = IF actor' = "ended" THEN <<>> ELSE Tail(commands)
  /\ UNCHANGED <<api, device, reads, tokens, inputs>>

\* The end of a write: interruptible_serial_io, interruptible_transfer_io.

Writes == busy.op \in {"input", "write", "abort", "unclaimed"}

\* A write of a transfer ends as soon as the transfer is cancelled.
WriteCancelled ==
  /\ busy.op = "write" /\ busy.token \in cancel
  /\ driver' = [driver EXCEPT ![busy.token] = IF @ = "writing" THEN "held" ELSE @]
  /\ busy' = NoBusy /\ top' = TRUE
  /\ UNCHANGED <<actor, ui, line, commands, backlog, cancel, api, world, tokens, inputs>>

WriteInterrupted ==
  /\ Writes
  /\ \/ stop # "run" /\ End(FinishStopped(ui))
     \/ ~ui.open /\ End(ui)
     \/ End(FinishError(ui))
  /\ UNCHANGED <<backlog, cancel, api, world, tokens, inputs>>

\* What the device makes of a write.
Receives(op) ==
  device' \in CASE op = "write" /\ device = "shell" -> {"shell", "proto"}
                [] op \in {"abort", "unclaimed"} /\ device = "proto" -> {"told"}
                [] OTHER -> {device}

\* An abort, of the owner or of a detection, opens the quarantine.
\* Mutant: an unclaimed detection is released as soon as it is aborted.
WriteDoneNoDrain ==
  /\ Writes
  /\ ~(busy.op = "write" /\ busy.token \in cancel)
  /\ Receives(busy.op)
  /\ drain' = IF busy.op = "abort" THEN NewDrain(busy.token) ELSE drain
  /\ driver' = [t \in Token |->
       CASE t = busy.token /\ driver[t] = "writing" -> "held"
         [] t = busy.token /\ driver[t] = "aborting" -> "aborted"
         [] OTHER -> driver[t]]
  /\ busy' = NoBusy /\ top' = TRUE
  /\ UNCHANGED <<actor, ui, reserved, detected, cans, held, commands, backlog, cancel, api,
                 reads, excused, residue, tokens, inputs>>

WriteDone ==
  /\ Writes
  /\ ~(busy.op = "write" /\ busy.token \in cancel)
  /\ Receives(busy.op)
  /\ drain' = IF busy.op \in {"abort", "unclaimed"} THEN NewDrain(busy.token) ELSE drain
  /\ driver' = [t \in Token |->
       CASE t = busy.token /\ driver[t] = "writing" -> "held"
         [] t = busy.token /\ driver[t] = "aborting" -> "aborted"
         [] OTHER -> driver[t]]
  /\ busy' = NoBusy /\ top' = TRUE
  /\ UNCHANGED <<actor, ui, reserved, detected, cans, held, commands, backlog, cancel, api,
                 reads, excused, residue, tokens, inputs>>

----------------------------------------------------------------------------
\* What is read from the device.

\* What the device may send, and what it is then.
Sends ==
  CASE device = "shell" -> {[bytes |-> <<"t">>, next |-> "shell"],
                            [bytes |-> <<"x">>, next |-> "shell"],
                            [bytes |-> <<"t", "h">>, next |-> "proto"],
                            [bytes |-> <<"h", "c">>, next |-> "can"],
                            [bytes |-> <<"h", "c", "c">>, next |-> "canned"],
                            [bytes |-> <<"h", "c", "c", "t">>, next |-> "shell"]}
    [] device \in {"proto", "told"} ->
                           {[bytes |-> <<"p">>, next |-> device],
                            [bytes |-> <<"p", "c">>, next |-> "can"],
                            [bytes |-> <<"c", "c">>, next |-> "canned"],
                            [bytes |-> <<"c", "c", "t">>, next |-> "shell"]}
    [] device = "can" ->   {[bytes |-> <<"c">>, next |-> "canned"],
                            [bytes |-> <<"c", "t">>, next |-> "shell"]}
    [] device = "canned" -> {[bytes |-> <<"c">>, next |-> "canned"],
                            [bytes |-> <<"t">>, next |-> "shell"]}

\* The device reaches the end of its protocol.
DeviceFinishes ==
  /\ device = "proto"
  /\ \E t \in Token : driver[t] \in {"held", "writing", "ending"}
  /\ device' = "shell" /\ excused' = FALSE
  /\ UNCHANGED <<actor, top, busy, ui, line, commands, drivers, api, reads, residue, tokens, inputs>>

\* In quarantine.
ReadDrained(bytes) ==
  LET pushed == Push(drain.can, drain.marker, bytes) IN
  /\ drain.token # 0
  /\ IF pushed.tail # <<>>
     THEN CompleteDrain(drain, pushed.tail) /\ Shows(pushed.tail)
     ELSE /\ drain' = [drain EXCEPT !.can = pushed.can, !.marker = pushed.marker]
          /\ top' = TRUE
          /\ UNCHANGED <<actor, busy, ui, reserved, detected, cans, held, commands, driver, residue>>

\* record_pending_zmodem_bytes: the device cancels a transfer nobody has claimed.
ReadPendingCancelled(bytes) ==
  LET pushed == Push(cans, cans >= Required, bytes)
      over == [token |-> detected, can |-> pushed.can, marker |-> TRUE, finishes |-> {}] IN
  /\ drain.token = 0 /\ detected # 0 /\ pushed.marker
  /\ IF pushed.tail # <<>>
     THEN CompleteDrain(over, pushed.tail) /\ Shows(pushed.tail)
     ELSE /\ drain' = over /\ detected' = 0 /\ cans' = 0
          /\ driver' = [driver EXCEPT ![detected] = "dropped"]
          /\ top' = TRUE
          /\ UNCHANGED <<actor, busy, ui, reserved, held, commands, residue>>

\* The bytes are for the owner: it has been found, and they are sent next.
ReadOwned(bytes) ==
  LET pushed == Push(cans, cans >= Required, bytes) IN
  /\ drain.token = 0 /\ ~(detected # 0 /\ pushed.marker)
  /\ reserved # 0 /\ ~ReceiverGone(reserved)
  /\ cans' = IF detected # 0 THEN pushed.can ELSE cans
  /\ busy' = [NoBusy EXCEPT !.op = "route", !.token = reserved]
  /\ UNCHANGED <<actor, top, ui, reserved, detected, drain, held, commands, driver, residue>>

\* The bytes go through the sentry; a header takes them for a transfer.
HeaderAt(bytes) == {i \in DOMAIN bytes : bytes[i] = "h"}

ReadFree(bytes) ==
  LET starts == HeaderAt(bytes)
      pass == CASE starts # {} -> HeldBytes \o SubSeq(bytes, 1, (CHOOSE i \in starts : TRUE) - 1)
                [] starts = {} /\ bytes = <<"x">> -> HeldBytes
                [] OTHER -> HeldBytes \o bytes
      emitted == EmitData(ui, pass) IN
  /\ drain.token = 0 /\ detected = 0
  /\ reserved # 0 => ReceiverGone(reserved)
  /\ Shows(pass)
  /\ IF ~emitted.ok THEN End(emitted.ui)
     ELSE /\ ui' = emitted.ui /\ reserved' = 0
          /\ held' = (bytes = <<"x">>)
          /\ IF starts = {} THEN top' = TRUE /\ UNCHANGED busy
             ELSE /\ busy' = [NoBusy EXCEPT !.op = "detect",
                        !.bytes = SubSeq(bytes, CHOOSE i \in starts : TRUE, Len(bytes))]
                  /\ UNCHANGED top
          /\ UNCHANGED <<actor, detected, cans, drain, commands, driver>>

Read ==
  /\ Selects
  /\ reads < MaxReads /\ reads' = reads + 1
  /\ \E s \in Sends :
       /\ HeaderAt(s.bytes) # {} => tokens < MaxTokens
       /\ device' = s.next
       /\ \/ ReadDrained(s.bytes)
          \/ ReadPendingCancelled(s.bytes)
          \/ ReadOwned(s.bytes)
          \/ ReadFree(s.bytes)
       /\ excused' = (s.next # "shell" /\ (excused
            \/ (drain.token = 0 /\ reserved # 0 /\ driver[reserved] \in {"failed", "gone"})
            \/ (s.bytes = <<"t", "h">> /\ drain.token # 0 /\ drain'.token = 0)))
  /\ UNCHANGED <<backlog, cancel, api, tokens, inputs>>

\* The end of the device's output, or an error.
ReadEnds ==
  /\ Selects
  /\ \/ LET emitted == EmitData(ui, HeldBytes) IN
        End(IF emitted.ok THEN EmitClosed(emitted.ui) ELSE emitted.ui)
     \/ End(FinishError(ui))
  /\ UNCHANGED <<backlog, cancel, api, world, tokens, inputs>>

\* try_send_transfer_event: an owner that is full, or gone since it was found,
\* ends the session.
Delivers(t) ==
  IF ReceiverGone(t) \/ backlog[t] = RawCapacity
  THEN End(FinishError(ui)) /\ UNCHANGED backlog
  ELSE /\ backlog' = [backlog EXCEPT ![t] = @ + 1]
       /\ busy' = NoBusy /\ top' = TRUE
       /\ UNCHANGED <<actor, ui, line, commands, driver>>

Route ==
  /\ busy.op = "route"
  /\ Delivers(busy.token)
  /\ UNCHANGED <<cancel, api, world, tokens, inputs>>

\* reserve_detected_zmodem: a transfer may have begun since the bytes were read.
Detect ==
  /\ busy.op = "detect"
  /\ IF reserved # 0
     THEN Delivers(reserved) /\ UNCHANGED <<tokens, residue>>
     ELSE LET pushed == Push(0, FALSE, busy.bytes)
              token == tokens + 1
              over == [token |-> token, can |-> pushed.can, marker |-> TRUE, finishes |-> {}]
              told == EmitRegular(ui) IN
          /\ tokens < MaxTokens /\ tokens' = token
          /\ UNCHANGED backlog
          /\ CASE pushed.tail # <<>> ->
                    LET emitted == EmitData(ui, pushed.tail) IN
                    /\ Shows(pushed.tail)
                    /\ IF emitted.ok
                       THEN /\ GoOn(emitted)
                            /\ driver' = [driver EXCEPT ![token] = "dropped"]
                            /\ held' = FALSE
                            /\ UNCHANGED <<reserved, detected, cans, drain, commands>>
                       ELSE End(emitted.ui)
               [] pushed.marker /\ pushed.tail = <<>> ->
                    /\ reserved' = token /\ drain' = over
                    /\ driver' = [driver EXCEPT ![token] = "dropped"]
                    /\ busy' = NoBusy /\ top' = TRUE
                    /\ UNCHANGED <<actor, ui, detected, cans, held, commands, residue>>
               [] OTHER ->
                    /\ UNCHANGED residue
                    /\ IF told.ok
                       THEN /\ GoOn(told)
                            /\ reserved' = token /\ detected' = token /\ cans' = pushed.can
                            /\ driver' = [driver EXCEPT ![token] = "pending"]
                            /\ UNCHANGED <<drain, held, commands>>
                       ELSE End(told.ui)
  /\ UNCHANGED <<cancel, api, device, reads, excused, inputs>>

----------------------------------------------------------------------------
\* The callers.  entry and ensure_running come first, on a copy of the entry.

Enters(c) ==
  /\ actor # "ended" /\ stop = "run" /\ call[c] = "idle"
  /\ call' = [call EXCEPT ![c] = "entered"]
  /\ UNCHANGED <<actor, top, busy, ui, line, commands, drivers, declining, stop, world, tokens, inputs>>

Returns(c) == call' = [call EXCEPT ![c] = "idle"]

\* Bound: the last token is kept for a header that is being looked at.
TokenLeft == busy.op = "detect" => tokens + 1 < MaxTokens

\* begin_raw_transfer takes the bytes unless they are taken.
Begin ==
  /\ "begin" \in Calls /\ call["begin"] = "entered"
  /\ TokenLeft
  /\ Returns("begin")
  /\ IF reserved # 0 THEN UNCHANGED <<reserved, driver, tokens>>
     ELSE /\ tokens < MaxTokens /\ tokens' = tokens + 1
          /\ reserved' = tokens + 1
          /\ driver' = [driver EXCEPT ![tokens + 1] = "held"]
  /\ UNCHANGED <<actor, top, busy, ui, detected, cans, drain, held, commands, backlog, cancel,
                 declining, stop, world, inputs>>

\* claim_detected_zmodem.  Its two looks, at the owner and at the detection, are
\* one: a detection exists only while its token owns the bytes.
Claim ==
  /\ "claim" \in Calls /\ call["claim"] = "entered"
  /\ Returns("claim")
  /\ IF detected # 0
     THEN detected' = 0 /\ driver' = [driver EXCEPT ![detected] = "held"]
     ELSE UNCHANGED <<detected, driver>>
  /\ UNCHANGED <<actor, top, busy, ui, reserved, cans, drain, held, commands, backlog, cancel,
                 declining, stop, world, tokens, inputs>>

\* decline_detected_zmodem looks first and sends afterwards; commands that find
\* the queue full are refused.
Decline ==
  /\ "decline" \in Calls
  /\ \/ /\ call["decline"] = "entered"
        /\ IF detected # 0
           THEN /\ call' = [call EXCEPT !["decline"] = "found"]
                /\ declining' = detected
           ELSE Returns("decline") /\ UNCHANGED declining
        /\ UNCHANGED commands
     \/ /\ call["decline"] = "found"
        /\ Returns("decline") /\ declining' = 0
        /\ commands' = IF actor = "ended" \/ Len(commands) = CmdCapacity THEN commands
                       ELSE Append(commands, [op |-> "decline", token |-> declining, tail |-> <<>>])
  /\ UNCHANGED <<actor, top, busy, ui, line, drivers, stop, world, tokens, inputs>>

\* input, its Ctrl+C included, which cancels the transfer that runs; and
\* request_transfer_cancel_exact.
Input ==
  /\ actor # "ended" /\ stop = "run" /\ inputs < MaxInputs
  /\ inputs' = inputs + 1
  /\ \/ reserved # 0 /\ cancel' = cancel \cup {reserved} /\ UNCHANGED commands
     \/ /\ reserved = 0 /\ Len(commands) < CmdCapacity
        /\ commands' = Append(commands, [op |-> "input", token |-> 0, tail |-> <<>>])
        /\ UNCHANGED cancel
  /\ UNCHANGED <<actor, top, busy, ui, line, driver, backlog, api, world, tokens>>

RequestStop ==
  /\ actor # "ended" /\ stop = "run"
  /\ stop' \in {"close", "cancel"}
  /\ UNCHANGED <<actor, top, busy, ui, line, commands, drivers, call, declining, world, tokens, inputs>>

\* The user interface takes an event, or goes away.
Receive ==
  /\ ui.open /\ ui.length > 0
  /\ ui' = [ui EXCEPT !.length = @ - 1]
  /\ UNCHANGED <<actor, top, busy, line, commands, drivers, api, world, tokens, inputs>>

CloseEvents ==
  /\ ui.open
  /\ ui' = [ui EXCEPT !.open = FALSE]
  /\ UNCHANGED <<actor, top, busy, line, commands, drivers, api, world, tokens, inputs>>

----------------------------------------------------------------------------
\* The owner of a transfer: SerialRawTransfer.

DriverReceives(t) ==
  /\ driver[t] \in {"held", "aborted"} /\ backlog[t] > 0
  /\ backlog' = [backlog EXCEPT ![t] = @ - 1]
  /\ UNCHANGED <<actor, top, busy, ui, line, commands, driver, cancel, api, world, tokens, inputs>>

\* A command of the owner; it waits for a place in the queue, and fails when
\* the session has ended.
DriverSends(t, cmd, next) ==
  IF actor = "ended"
  THEN driver' = [driver EXCEPT ![t] = "failed"] /\ UNCHANGED commands
  ELSE /\ Len(commands) < CmdCapacity
       /\ commands' = Append(commands, cmd)
       /\ driver' = [driver EXCEPT ![t] = next]

DriverWrites(t) ==
  /\ driver[t] = "held" /\ reserved = t
  /\ \/ DriverSends(t, [op |-> "write", token |-> t, tail |-> <<>>], "writing")
     \/ DriverSends(t, [op |-> "abort", token |-> t, tail |-> <<>>], "aborting")
  /\ UNCHANGED <<actor, top, busy, ui, line, backlog, cancel, api, world, tokens, inputs>>

\* finish_with_terminal_bytes: bytes only after a successful end.
DriverFinishes(t) ==
  /\ \/ driver[t] = "held" /\ \E tail \in {<<>>, <<"t">>} :
          DriverSends(t, [op |-> "end", token |-> t, tail |-> tail], "ending")
     \/ driver[t] = "aborted" /\ DriverSends(t, [op |-> "end", token |-> t, tail |-> <<>>], "ending")
  /\ UNCHANGED <<actor, top, busy, ui, line, backlog, cancel, api, world, tokens, inputs>>

\* The owner is dropped at any point; its EndTransfer is sent if there is room.
DriverDrops(t) ==
  /\ driver[t] \in {"held", "writing", "aborting", "aborted", "ending"}
  /\ driver' = [driver EXCEPT ![t] = "gone"]
  /\ commands' = IF actor = "ended" \/ Len(commands) = CmdCapacity THEN commands
                 ELSE Append(commands, [op |-> "end", token |-> t, tail |-> <<>>])
  /\ UNCHANGED <<actor, top, busy, ui, line, backlog, cancel, api, world, tokens, inputs>>

----------------------------------------------------------------------------
Next ==
  \/ Opens \/ OpenFails \/ LoopTop \/ Stops \/ EventsClosed
  \/ DrainDeadline \/ DetectionDeadline \/ Command
  \/ WriteCancelled \/ WriteInterrupted \/ WriteDone
  \/ Read \/ ReadEnds \/ Route \/ Detect \/ DeviceFinishes
  \/ \E c \in Calls : Enters(c)
  \/ Begin \/ Claim \/ Decline \/ Input \/ RequestStop
  \/ Receive \/ CloseEvents
  \/ \E t \in Token : DriverReceives(t) \/ DriverWrites(t) \/ DriverFinishes(t) \/ DriverDrops(t)

Spec == Init /\ [][Next]_vars

----------------------------------------------------------------------------
\* The types of the variables.
TypeOK ==
  /\ actor \in {"opening", "running", "ended"}
  /\ top \in BOOLEAN /\ held \in BOOLEAN /\ excused \in BOOLEAN /\ residue \in BOOLEAN
  /\ stop \in {"run", "close", "cancel"}
  /\ ui.open \in BOOLEAN /\ ui.length \in 0..EventCapacity /\ ui.closed \in 0..1
  /\ reserved \in 0..MaxTokens /\ detected \in 0..MaxTokens /\ drain.token \in 0..MaxTokens
  /\ drain.finishes \subseteq Token /\ cancel \subseteq Token
  /\ Len(commands) <= CmdCapacity
  /\ \A t \in Token : backlog[t] \in 0..RawCapacity
  /\ busy = NoBusy \/ actor = "running"
  /\ \A t \in Token : driver[t] \in {"none", "pending", "held", "writing", "aborting", "aborted",
                                     "ending", "done", "failed", "gone", "dropped"}

\* While the bytes are in quarantine they belong to the transfer that was
\* aborted, and to no other: no new transfer begins, and no detection waits.
\* A detection that waits owns the bytes.
Quarantine ==
  /\ drain.token # 0 => reserved = drain.token /\ detected = 0
  /\ detected # 0 => reserved = detected /\ driver[detected] = "pending"

\* What is left of an aborted or declined transfer, up to the device's cancel
\* marker, never reaches the terminal; only a deadline, an owner that vanished
\* or one that finished too early lets such bytes through.
NoResidue == ~residue

\* An owner whose finish has returned owns nothing any more: its bytes are
\* released, the quarantine is over, and no write of it is still queued.
FinishedMeansReleased ==
  \A t \in Token : driver[t] = "done" =>
    /\ reserved # t /\ drain.token # t
    /\ \A i \in DOMAIN commands :
         commands[i].token = t => commands[i].op = "decline"

\* A session that has ended has said so: a user interface that listens finds one
\* Closed event, whatever filled the queue before.
ClosedIsTold == (actor = "ended" /\ ui.open) => ui.closed = 1

\* A detected transfer is never taken away from the owner that claimed it: only
\* the owner's own commands abort it.
ClaimIsExclusive ==
  \A t \in Token : busy.op = "unclaimed" /\ busy.token = t => driver[t] = "dropped"

\* What the liveness properties speak of: a driver that finishes, one that has
\* vanished, the reservation it made, and an open detection.
Finishing(t) == driver[t] = "ending"
Vanished(t) == driver[t] = "gone"
Unreserved(t) == reserved # t \/ actor = "ended"
Undecided(t) == detected = t
=============================================================================
