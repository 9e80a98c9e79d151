---------------------------- MODULE TelnetSession ----------------------------
(***************************************************************************)
(* One session of TelnetRuntimeManager: its actor (run_session) with the    *)
(* codec and the automatic login, against a peer that negotiates as RFC    *)
(* 1143 asks and prints what it likes.                                     *)
(*                                                                         *)
(* The connection to the peer holds OutCapacity messages; a peer that does  *)
(* not read makes the actor wait in a write.  A write that answers the     *)
(* peer's own commands belongs to the read, which the actor drops when     *)
(* something else comes; every other write is waited for.                  *)
(***************************************************************************)
EXTENDS TelnetCodec

CONSTANTS
  Lines,        \* what the peer may print: user, pass, cmd, cont, last, text
  MaxAsks,      \* bound: commands the peer sends on its own
  MaxTexts,     \* bound: lines the peer prints
  MaxInputs,    \* bound: inputs of the user
  MaxResizes,   \* bound: sizes after the first
  MaxFrame,     \* bound: tokens in one read
  OutCapacity,  \* what the connection takes while the peer does not read
  CmdCapacity,  \* COMMAND_CHANNEL_CAPACITY
  Username, Password, Startup  \* what the automatic login is given

\* What a model must choose.
TelnetSessionAssumption ==
  /\ Lines \subseteq {"user", "pass", "cmd", "cont", "last", "text"}
  /\ MaxAsks \in Nat /\ MaxTexts \in Nat /\ MaxInputs \in Nat /\ MaxResizes \in Nat
  /\ MaxFrame \in Nat \ {0} /\ OutCapacity \in Nat \ {0} /\ CmdCapacity \in Nat \ {0}
  /\ Username \in BOOLEAN /\ Password \in BOOLEAN /\ Startup \in BOOLEAN

VARIABLES
  actor,    \* connecting, running, ended
  stop,     \* run, close, cancel
  listens,  \* somebody receives the session's events
  commands, \* the queue of commands
  codec,
  login,    \* the automatic login
  late,     \* its time is over
  busy,     \* the write that is under way: what is left, and what is shown after
  toPeer, toUs,
  peer,     \* the peer's options: him (ours), us (its own), and our size
  shown,    \* the echo the terminal was told, and for each line it has got the
            \* echo it knew then
  read,     \* for each line the codec has read, the echo after that read
  wrote,    \* the lines written to the peer, in order
  dropped,  \* a read was dropped before its replies were written
  asks, texts, inputs

io == <<busy, toPeer, toUs>>
history == <<read, wrote, dropped>>
bounds == <<asks, texts, inputs>>
vars == <<actor, stop, listens, commands, codec, login, late, io, peer, shown, history, bounds>>

Idle == [op |-> "none", out |-> <<>>, data |-> <<>>, events |-> <<>>]

\* AutoLogin::new_at: nothing to do without a user name or a password.
Init ==
  /\ actor = "connecting" /\ stop = "run" /\ listens = TRUE /\ commands = <<>>
  /\ codec = NewCodec(0)
  /\ login = [state |-> IF Username \/ Password THEN "active" ELSE "disabled",
              tail |-> <<>>, wake |-> FALSE, user |-> FALSE, pass |-> FALSE]
  /\ late = FALSE
  /\ busy = Idle /\ toPeer = <<>> /\ toUs = <<>>
  /\ peer = [him |-> [o \in Options |-> "no"], us |-> [o \in Options |-> "no"], size |-> 0]
  /\ shown = [remote |-> TRUE, local |-> FALSE, lines |-> <<>>]
  /\ read = <<>> /\ wrote = <<>> /\ dropped = FALSE
  /\ asks = 0 /\ texts = 0 /\ inputs = 0

End == actor' = "ended" /\ busy' = Idle /\ commands' = <<>>

----------------------------------------------------------------------------
\* AutoLogin::handle_text_at on the lines of one read: the new state, and what
\* is written.
LastOf(tail) == IF tail = <<>> THEN "" ELSE tail[Len(tail)]

\* has_username_prompt_before_password
UserBeforePassword(tail) ==
  \E j \in DOMAIN tail :
    /\ tail[j] = "pass" /\ \A k \in j + 1..Len(tail) : tail[k] # "pass"
    /\ \E i \in 1..j - 1 : tail[i] = "user"

Complete(l, lines) ==
  IF (l.user \/ l.pass) /\ LastOf(l.tail) = "cmd"
  THEN [login |-> [l EXCEPT !.state = "completed"],
        lines |-> IF Startup THEN Append(lines, "startup") ELSE lines]
  ELSE [login |-> l, lines |-> lines]

SendPrompted(l) ==
  LET user == /\ ~l.user /\ (Username \/ (Password /\ ~l.pass))
              /\ LastOf(l.tail) = "user" \/ UserBeforePassword(l.tail)
      pass == ~l.pass /\ Password /\ LastOf(l.tail) = "pass"
  IN  Complete([l EXCEPT !.user = @ \/ user, !.pass = @ \/ pass],
               (IF user THEN <<"user">> ELSE <<>>) \o (IF pass THEN <<"pass">> ELSE <<>>))

\* Mutant: the time that is over is not looked at.
HandleTextUntimed(lines) ==
  LET l == [login EXCEPT !.tail = @ \o lines] IN
  IF login.state # "active" THEN [login |-> login, lines |-> <<>>]
  ELSE IF ~l.wake /\ LastOf(l.tail) = "cont"
  THEN [login |-> [l EXCEPT !.wake = TRUE], lines |-> <<"wake">>]
  ELSE SendPrompted(l)

\* A command prompt completes a login of which something was sent; a prompt to
\* continue is answered once; then the prompts for the name and the password.
HandleText(lines) ==
  LET l == [login EXCEPT !.tail = @ \o lines] IN
  IF login.state # "active" THEN [login |-> login, lines |-> <<>>]
  ELSE IF late THEN [login |-> [login EXCEPT !.state = "timedout"], lines |-> <<>>]
  ELSE IF (l.user \/ l.pass) /\ LastOf(l.tail) = "cmd" THEN Complete(l, <<>>)
  ELSE IF ~l.wake /\ LastOf(l.tail) = "cont"
  THEN [login |-> [l EXCEPT !.wake = TRUE], lines |-> <<"wake">>]
  ELSE SendPrompted(l)

HandleUserInput ==
  IF login.state = "active" THEN [login EXCEPT !.state = "cancelled"] ELSE login

----------------------------------------------------------------------------
\* Writing.  A write puts into the connection what fits, and waits with the
\* rest.

Fits(out) ==
  LET room == OutCapacity - Len(toPeer) IN IF Len(out) < room THEN Len(out) ELSE room

LinesIn(msgs) == SelectSeq(msgs, LAMBDA m : m.kind = "line")

ToLines(lines) == [i \in DOMAIN lines |-> Message("line", lines[i])]

\* The values of the lines among the messages that go out.
Written(msgs) ==
  LET l == LinesIn(msgs) IN wrote' = wrote \o [i \in DOMAIN l |-> l[i].value]

Put(out) ==
  /\ toPeer' = toPeer \o SubSeq(out, 1, Fits(out))
  /\ Written(SubSeq(out, 1, Fits(out)))

Rest(out) == SubSeq(out, Fits(out) + 1, Len(out))

\* The terminal is told of echo, and gets lines.
Tell(was, events) ==
  LET echo(side) ==
        LET of == SelectSeq(events, LAMBDA e : e.side = side) IN
        IF of = <<>> THEN was[side] ELSE of[Len(of)].enabled
  IN  [was EXCEPT !.remote = echo("remote"), !.local = echo("local")]

Echoing(remote, local) == [remote |-> remote, local |-> local]
Under(echo, lines) == [i \in DOMAIN lines |-> echo]
Give(was, lines) == [was EXCEPT !.lines = @ \o Under(Echoing(was.remote, was.local), lines)]

\* A write of a handler: the actor waits until it is done.
HandlerWrites(out, lines) ==
  /\ Put(out)
  /\ IF Rest(out) = <<>>
     THEN busy' = Idle /\ shown' = Give(shown, lines)
     ELSE busy' = [Idle EXCEPT !.op = "handler", !.out = Rest(out), !.data = lines] /\ UNCHANGED shown

----------------------------------------------------------------------------
\* The actor.

Connects ==
  /\ actor = "connecting"
  /\ actor' = "running"
  /\ UNCHANGED <<stop, listens, commands, codec, login, late, io, peer, shown, history, bounds>>

\* The actor selects when it waits for nothing but the peer: a read whose
\* replies are not written yet is dropped by whatever else comes.
Selects == actor = "running" /\ busy.op \in {"none", "read"}
Drops == dropped' = (dropped \/ busy.op = "read")

\* A stop; also an error: of the connection, or because nobody takes the events.
\* Mutant: a session that is closed goes on with what is in its select.
InterruptOnlyCancel ==
  /\ actor = "connecting" \/ Selects
  /\ stop = "cancel" \/ ~listens
  /\ End /\ Drops
  /\ UNCHANGED <<stop, listens, codec, login, late, toPeer, toUs, peer, shown, read, wrote, bounds>>

Interrupt ==
  /\ actor = "connecting" \/ Selects
  /\ stop # "run" \/ ~listens
  /\ End /\ Drops
  /\ UNCHANGED <<stop, listens, codec, login, late, toPeer, toUs, peer, shown, read, wrote, bounds>>

Fails ==
  /\ actor # "ended"
  /\ End
  /\ UNCHANGED <<stop, listens, codec, login, late, toPeer, toUs, peer, shown, history, bounds>>

Command ==
  /\ Selects
  /\ commands # <<>> /\ commands' = Tail(commands)
  /\ Drops
  /\ LET cmd == Head(commands) IN
     \/ /\ cmd.kind = "input"
        /\ login' = HandleUserInput
        /\ HandlerWrites(<<Message("line", "input")>>, <<>>)
        /\ UNCHANGED codec
     \/ /\ cmd.kind = "resize"
        /\ LET d == CodecResize(codec, cmd.value) IN
           codec' = d.codec /\ HandlerWrites(d.out, <<>>)
        /\ UNCHANGED login
  /\ UNCHANGED <<actor, stop, listens, late, toUs, peer, read, bounds>>

\* Mutant: the text is processed before the events.
ProcessTextFirst(events, data, put) ==
  LET t == HandleText(data) IN
  /\ login' = IF data = <<>> THEN login ELSE t.login
  /\ busy' = [Idle EXCEPT !.op = IF t.lines = <<>> THEN "none" ELSE "handler",
                          !.out = ToLines(t.lines)]
  /\ shown' = Tell(Give(shown, data), events)
  /\ put

\* What a read does once its replies are written: the events, then
\* process_decoded_data.
Process(events, data, put) ==
  IF data = <<>> THEN busy' = Idle /\ shown' = Tell(shown, events) /\ UNCHANGED login /\ put
  ELSE LET t == HandleText(data)
           lines == ToLines(t.lines) IN
       /\ login' = t.login
       /\ busy' = [Idle EXCEPT !.op = "handler", !.out = lines, !.data = data]
       /\ shown' = Tell(shown, events)
       /\ put

\* session.read: one frame is decoded and its replies are written.
Read ==
  /\ actor = "running" /\ busy = Idle
  /\ toUs # <<>>
  /\ \E n \in 1..MaxFrame :
       /\ n <= Len(toUs)
       /\ toUs' = SubSeq(toUs, n + 1, Len(toUs))
       /\ LET d == CodecReceive(codec, SubSeq(toUs, 1, n)) IN
          /\ codec' = d.codec
          /\ read' = read \o Under(Echoing(d.codec.remoteEcho, d.codec.localEcho), d.data)
          /\ IF Rest(d.out) = <<>>
             THEN Process(d.events, d.data, Put(d.out))
             ELSE /\ Put(d.out)
                  /\ busy' = [op |-> "read", out |-> Rest(d.out), data |-> d.data,
                              events |-> d.events]
                  /\ UNCHANGED <<login, shown>>
  /\ UNCHANGED <<actor, stop, listens, commands, late, peer, dropped, bounds>>

\* The connection has room again.
WriteOn ==
  /\ actor = "running" /\ busy.op # "none"
  /\ busy.out = <<>> \/ Fits(busy.out) > 0
  /\ IF Rest(busy.out) # <<>>
     THEN Put(busy.out) /\ busy' = [busy EXCEPT !.out = Rest(@)] /\ UNCHANGED <<login, shown>>
     ELSE IF busy.op = "read"
          THEN Process(busy.events, busy.data, Put(busy.out))
          ELSE /\ Put(busy.out) /\ busy' = Idle /\ shown' = Give(shown, busy.data)
               /\ UNCHANGED login
  /\ UNCHANGED <<actor, stop, listens, commands, codec, late, toUs, peer, read, dropped, bounds>>

----------------------------------------------------------------------------
\* The callers, and the clock of the automatic login.

Send(cmd) ==
  /\ actor # "ended" /\ stop = "run" /\ Len(commands) < CmdCapacity
  /\ commands' = Append(commands, cmd)
  /\ UNCHANGED <<actor, stop, listens, codec, login, late, io, peer, shown, history, asks, texts>>

Input == inputs < MaxInputs /\ inputs' = inputs + 1 /\ Send(Message("input", 0))

Resize ==
  \E size \in 1..MaxResizes :
    /\ size > codec.size
    /\ \A i \in DOMAIN commands : commands[i].kind = "resize" => commands[i].value < size
    /\ Send(Message("resize", size))
    /\ UNCHANGED inputs

RequestStop ==
  /\ actor # "ended" /\ stop = "run"
  /\ stop' \in {"close", "cancel"}
  /\ UNCHANGED <<actor, listens, commands, codec, login, late, io, peer, shown, history, bounds>>

CloseEvents ==
  /\ listens /\ listens' = FALSE
  /\ UNCHANGED <<actor, stop, commands, codec, login, late, io, peer, shown, history, bounds>>

Expires ==
  /\ ~late /\ (Username \/ Password) /\ late' = TRUE
  /\ UNCHANGED <<actor, stop, listens, commands, codec, login, io, peer, shown, history, bounds>>

----------------------------------------------------------------------------
\* The peer.

Token(kind, value) == [kind |-> kind, value |-> value]
Answers(verb, o) == toUs' = toUs \o <<Token("verb", verb), Token("option", o)>>

PeerRest == UNCHANGED <<actor, stop, listens, commands, codec, login, late, busy, shown, history,
                        texts, inputs>>

PeerAsks ==
  /\ actor = "running" /\ asks < MaxAsks /\ asks' = asks + 1
  /\ \E o \in Options :
       \/ peer.him[o] = "no" /\ peer' = [peer EXCEPT !.him[o] = "wantyes"] /\ Answers("DO", o)
       \/ peer.him[o] = "yes" /\ peer' = [peer EXCEPT !.him[o] = "wantno"] /\ Answers("DONT", o)
       \/ peer.us[o] = "no" /\ peer' = [peer EXCEPT !.us[o] = "wantyes"] /\ Answers("WILL", o)
       \/ peer.us[o] = "yes" /\ peer' = [peer EXCEPT !.us[o] = "wantno"] /\ Answers("WONT", o)
       \/ /\ o = "TTYPE" /\ peer.him[o] = "yes"
          /\ toUs' = Append(toUs, Token("send", o)) /\ UNCHANGED peer
  /\ UNCHANGED toPeer /\ PeerRest

\* What the peer does with one of our messages: its own state of the option
\* afterwards, and what it says.
SideOf(verb) == IF verb \in {"WILL", "WONT"} THEN "him" ELSE "us"

Reactions(verb, s) ==
  LET yes == IF verb = "WILL" THEN "DO" ELSE "WILL"
      no == IF verb \in {"WILL", "WONT"} THEN "DONT" ELSE "WONT" IN
  IF verb \in {"WILL", "DO"}
  THEN CASE s = "no" -> {<<"yes", yes>>, <<"no", no>>}
         [] s = "yes" -> {<<"yes", "">>}
         [] s = "wantno" -> {<<"no", "">>}
         [] s = "wantyes" -> {<<"yes", "">>}
  ELSE CASE s = "no" -> {<<"no", "">>}
         [] s = "yes" -> {<<"no", no>>}
         [] s \in {"wantno", "wantyes"} -> {<<"no", "">>}

PeerReads ==
  /\ toPeer # <<>> /\ toPeer' = Tail(toPeer)
  /\ LET msg == Head(toPeer) IN
     \/ /\ msg.kind \in Verbs
        /\ \E r \in Reactions(msg.kind, peer[SideOf(msg.kind)][msg.value]) :
             /\ peer' = [peer EXCEPT ![SideOf(msg.kind)][msg.value] = r[1]]
             /\ IF r[2] = "" THEN UNCHANGED toUs ELSE Answers(r[2], msg.value)
     \/ msg.kind = "naws" /\ peer' = [peer EXCEPT !.size = msg.value] /\ UNCHANGED toUs
     \/ msg.kind \in {"line", "ttype"} /\ UNCHANGED <<peer, toUs>>
  /\ UNCHANGED asks /\ PeerRest

PeerPrints ==
  /\ actor = "running" /\ texts < MaxTexts /\ texts' = texts + 1
  /\ \E l \in Lines : toUs' = Append(toUs, Token("text", l))
  /\ UNCHANGED <<actor, stop, listens, commands, codec, login, late, busy, toPeer, peer, shown,
                 history, asks, inputs>>

----------------------------------------------------------------------------
Next ==
  \/ Connects \/ Interrupt \/ Fails \/ Command \/ Read \/ WriteOn
  \/ Input \/ Resize \/ RequestStop \/ CloseEvents \/ Expires
  \/ PeerAsks \/ PeerReads \/ PeerPrints

Spec == Init /\ [][Next]_vars

----------------------------------------------------------------------------
\* The types of the variables.
TypeOK ==
  /\ actor \in {"connecting", "running", "ended"}
  /\ stop \in {"run", "close", "cancel"}
  /\ listens \in BOOLEAN /\ late \in BOOLEAN /\ dropped \in BOOLEAN
  /\ Len(commands) <= CmdCapacity /\ Len(toPeer) <= OutCapacity
  /\ codec.parse \in Verbs \cup {"data"}
  /\ login.state \in {"active", "disabled", "completed", "cancelled", "timedout"}
  /\ busy.op \in {"none", "read", "handler"}
  /\ \A o \in Options : {peer.him[o], peer.us[o]} \subseteq {"no", "yes", "wantyes", "wantno"}

\* Nothing is on its way.
AtRest ==
  /\ actor = "running" /\ busy = Idle /\ commands = <<>> /\ toPeer = <<>> /\ toUs = <<>>
  /\ codec.active

\* When the negotiation has come to rest, both sides agree on every option,
\* whoever asked first and however the offers crossed; unless a read was
\* dropped with its replies.
Agreement ==
  (AtRest /\ ~dropped) => \A o \in Options :
    /\ codec.local[o].enabled <=> peer.him[o] = "yes"
    /\ codec.remote[o].enabled <=> peer.us[o] = "yes"

\* A peer that wants the window size has the one the terminal has, also when it
\* changed before the peer agreed.
SizeKnown ==
  (AtRest /\ ~dropped /\ "NAWS" \in Options /\ codec.local["NAWS"].enabled)
     => peer.size = codec.size

\* Whenever a read is done with, and none was dropped, the terminal knows the echo
\* that was negotiated and has got every line that was read; and it got each line
\* when it had been told of the echo in force after the read that brought it.
TerminalIsTold ==
  (actor = "running" /\ busy = Idle /\ ~dropped) =>
    /\ shown.local = codec.localEcho /\ shown.remote = codec.remoteEcho
    /\ shown.lines = read

\* The automatic login writes each of its lines once, the startup command only
\* after something of the login, and nothing once the user has typed.
LoginOrder ==
  \A j \in DOMAIN wrote : wrote[j] # "input" =>
    /\ \A i \in 1..j - 1 : wrote[i] # wrote[j] /\ wrote[i] # "input"
    /\ wrote[j] = "startup" => \E i \in 1..j - 1 : wrote[i] \in {"user", "pass"}

\* After its time the automatic login decides nothing any more: a name, a
\* password or a command is not sent to a prompt that comes too late.
NoLateLoginStep ==
  late /\ login.state = "active" /\ login' # login => login'.state \in {"timedout", "cancelled"}

\* What the liveness properties speak of.
Told == stop # "run"
Ended == actor = "ended"
=============================================================================
