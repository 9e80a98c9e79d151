----------------------------- MODULE TelnetCodec -----------------------------
(***************************************************************************)
(* TelnetCodec (netcatty-telnet): the parser of what the peer sends, and    *)
(* the negotiation of options.  Operators on the codec's state only.       *)
(*                                                                         *)
(* What the peer sends is a sequence of tokens, which a read may cut        *)
(* anywhere: a line of text, the two bytes IAC verb, the option that       *)
(* follows them, or a whole request for the terminal type.                 *)
(***************************************************************************)
EXTENDS Naturals, Sequences

CONSTANT Options   \* the options in use

\* What a model must choose.
TelnetCodecAssumption ==
  Options \subseteq {"ECHO", "SGA", "TTYPE", "NAWS", "OTHER"}

Verbs == {"WILL", "WONT", "DO", "DONT"}

SupportsRemote == {"ECHO", "SGA"}
SupportsLocal == {"ECHO", "SGA", "TTYPE", "NAWS"}

NewOption == [enabled |-> FALSE, pending |-> FALSE, rejected |-> FALSE]

\* parse is "data", or the verb whose option comes next.
NewCodec(size) ==
  [active |-> FALSE, parse |-> "data", size |-> size,
   local |-> [o \in Options |-> NewOption], remote |-> [o \in Options |-> NewOption],
   remoteEcho |-> TRUE, known |-> FALSE, localEcho |-> FALSE]

\* What a call has produced so far.
Decoding(codec) == [codec |-> codec, data |-> <<>>, out |-> <<>>, events |-> <<>>]

Message(kind, value) == [kind |-> kind, value |-> value]

Says(d, verb, o) == [d EXCEPT !.out = Append(@, Message(verb, o))]

----------------------------------------------------------------------------
SetRemoteEcho(d, enabled) ==
  IF ~d.codec.known \/ d.codec.remoteEcho # enabled
  THEN [d EXCEPT !.codec.remoteEcho = enabled, !.codec.known = TRUE,
                 !.events = Append(@, [side |-> "remote", enabled |-> enabled])]
  ELSE d

SetLocalEcho(d, enabled) ==
  IF d.codec.localEcho # enabled
  THEN [d EXCEPT !.codec.localEcho = enabled,
                 !.events = Append(@, [side |-> "local", enabled |-> enabled])]
  ELSE d

AppendNaws(d) ==
  IF d.codec.active /\ "NAWS" \in Options /\ d.codec.local["NAWS"].enabled
  THEN [d EXCEPT !.out = Append(@, Message("naws", d.codec.size))]
  ELSE d

\* An option this side does not support is refused once.
Reject(d, side, o, verb) ==
  LET s == d.codec[side][o]
      refused == IF s.rejected THEN d ELSE Says(d, verb, o) IN
  [refused EXCEPT !.codec[side][o] = [enabled |-> FALSE, pending |-> FALSE, rejected |-> TRUE]]

On == [enabled |-> TRUE, pending |-> FALSE, rejected |-> FALSE]

\* The peer begins to echo: this side stops.
TakeEcho(d) ==
  LET quiet == IF d.codec.local["ECHO"].enabled
               THEN Says(SetLocalEcho([d EXCEPT !.codec.local["ECHO"] =
                      [enabled |-> FALSE, pending |-> FALSE, rejected |-> TRUE]], FALSE),
                      "WONT", "ECHO")
               ELSE d
  IN  SetRemoteEcho(quiet, TRUE)

HandleWill(d, o) ==
  IF o \notin SupportsRemote THEN Reject(d, "remote", o, "DONT")
  ELSE LET was == d.codec.remote[o]
           on == [d EXCEPT !.codec.remote[o] = On]
           echo == IF o = "ECHO" THEN TakeEcho(on) ELSE on
       IN  IF ~was.pending /\ ~was.enabled THEN Says(echo, "DO", o) ELSE echo

HandleWont(d, o) ==
  LET was == d.codec.remote[o]
      off == [d EXCEPT !.codec.remote[o] = NewOption]
      echo == IF o = "ECHO" THEN SetRemoteEcho(off, FALSE) ELSE off
  IN  IF ~was.pending /\ was.enabled THEN Says(echo, "DONT", o) ELSE echo

\* Mutant: the size is sent only with this side's own answer.
HandleDoSizeWithAnswer(d, o) ==
  IF o \notin SupportsLocal THEN Reject(d, "local", o, "WONT")
  ELSE LET was == d.codec.local[o]
           on == [d EXCEPT !.codec.local[o] = On]
           asked == ~was.pending /\ ~was.enabled
           said == IF asked THEN Says(on, "WILL", o) ELSE on
           echo == IF o = "ECHO" /\ ~was.enabled THEN SetLocalEcho(said, TRUE) ELSE said
       IN  IF o = "NAWS" /\ asked THEN AppendNaws(echo) ELSE echo

HandleDo(d, o) ==
  IF o \notin SupportsLocal THEN Reject(d, "local", o, "WONT")
  ELSE LET was == d.codec.local[o]
           on == [d EXCEPT !.codec.local[o] = On]
           said == IF ~was.pending /\ ~was.enabled THEN Says(on, "WILL", o) ELSE on
           echo == IF o = "ECHO" /\ ~was.enabled THEN SetLocalEcho(said, TRUE) ELSE said
       IN  IF o = "NAWS" /\ ~was.enabled THEN AppendNaws(echo) ELSE echo

\* Mutant: what the peer switches off stays on here.
HandleDontKeeping(d, o) ==
  LET was == d.codec.local[o]
      off == [d EXCEPT !.codec.local[o].pending = FALSE]
  IN  IF ~was.pending /\ was.enabled THEN Says(off, "WONT", o) ELSE off

HandleDont(d, o) ==
  LET was == d.codec.local[o]
      off == [d EXCEPT !.codec.local[o] = NewOption]
      echo == IF o = "ECHO" /\ was.enabled THEN SetLocalEcho(off, FALSE) ELSE off
  IN  IF ~was.pending /\ was.enabled THEN Says(echo, "WONT", o) ELSE echo

HandleOption(d, verb, o) ==
  CASE verb = "WILL" -> HandleWill(d, o)
    [] verb = "WONT" -> HandleWont(d, o)
    [] verb = "DO" -> HandleDo(d, o)
    [] verb = "DONT" -> HandleDont(d, o)

----------------------------------------------------------------------------
\* The first IAC makes the protocol active, and this side offers its options.
StartNegotiation(d) ==
  LET active == [d EXCEPT !.codec.active = TRUE]
      request(e, side, o, verb) ==
        IF o \in Options THEN Says([e EXCEPT !.codec[side][o].pending = TRUE], verb, o) ELSE e
  IN  request(request(request(active, "remote", "SGA", "DO"), "local", "TTYPE", "WILL"),
              "local", "NAWS", "WILL")

Decode(d, token) ==
  LET e == IF ~d.codec.active /\ token.kind # "text" THEN StartNegotiation(d) ELSE d IN
  CASE token.kind = "text" -> [e EXCEPT !.data = Append(@, token.value)]
    [] token.kind = "verb" -> [e EXCEPT !.codec.parse = token.value]
    [] token.kind = "option" ->
         [HandleOption(e, e.codec.parse, token.value) EXCEPT !.codec.parse = "data"]
    [] token.kind = "send" -> [e EXCEPT !.out = Append(@, Message("ttype", "IS"))]

\* receive: a frame of tokens.
CodecReceive(codec, frame) ==
  LET after[i \in 0..Len(frame)] ==
        IF i = 0 THEN Decoding(codec) ELSE Decode(after[i - 1], frame[i])
  IN  after[Len(frame)]

CodecResize(codec, size) == AppendNaws(Decoding([codec EXCEPT !.size = size]))
=============================================================================
