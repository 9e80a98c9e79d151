---------------------------- MODULE ZmodemTransfer ----------------------------
(***************************************************************************)
(* A ZMODEM batch between the sender and the receiver of                   *)
(* crates/netcatty-serial/src/zmodem.rs, each driven by its loop in        *)
(* src-tauri/src/serial_zmodem.rs, over a serial line that may lose or     *)
(* damage what it carries.                                                 *)
(*                                                                         *)
(* The line carries frames in order: headers, subpackets and the cancel    *)
(* sequence.  A machine turns the frames of one read into a queue of       *)
(* actions, and its driver performs them one by one before it reads again. *)
(* The sender streams a whole file without an answer, so that requests to  *)
(* go back may wait on the line.  A subpacket holds one chunk of one file. *)
(***************************************************************************)
EXTENDS Naturals, Sequences, SequencesExt, TLC

CONSTANTS
    Sizes,        \* the files of the batch, by their number of chunks
    Escapes,      \* the receiver asks for escaped control bytes
    RetryLimit,   \* attempts of one request
    MaxRead,      \* bound on the frames of one read
    Faults,       \* what may go wrong: "lost", "damaged", "late", "cancel", "io"
    MaxFaults     \* bound on the number of faults in a behaviour

\* What a model must choose.
BoundsAssumption ==
    /\ Sizes \in Seq(Nat) /\ Sizes # <<>>
    /\ Escapes \in BOOLEAN
    /\ {RetryLimit, MaxRead} \subseteq Nat \ {0}
    /\ MaxFaults \in Nat
    /\ Faults \subseteq {"lost", "damaged", "late", "cancel", "io"}

VARIABLES
    s,           \* the sender: machine, queue of actions, buffered input
    r,           \* the receiver
    toReceiver,  \* frames on the line
    toSender,
    staged,      \* chunks in the partial file
    saved,       \* the files published, in order
    faults       \* faults so far

vars == <<s, r, toReceiver, toSender, staged, saved, faults>>

Chunk(file, n) == <<file, n>>
Source(file) == [n \in 1..Sizes[file] |-> Chunk(file, n)]
Sources == [file \in 1..Len(Sizes) |-> Source(file)]

\* A header with its position, a subpacket with what it holds.  Both carry a
\* checksum.
Header(kind, pos) == [kind |-> kind, pos |-> pos, holds |-> <<>>, last |-> FALSE, valid |-> TRUE]
Subpacket(holds, last) ==
    [kind |-> "sub", pos |-> 0, holds |-> holds, last |-> last, valid |-> TRUE]
CAN == Header("CAN", 0)
OO == Header("OO", 0)

IsHeader(f) == f.kind \notin {"sub", "OO", "CAN"}

Writing(frame) == [do |-> "write", frame |-> frame, at |-> 0]
Doing(what, at) == [do |-> what, frame |-> CAN, at |-> at]

Queue(m, actions) == [m EXCEPT !.q = @ \o actions]
Write(m, frames) == Queue(m, [i \in 1..Len(frames) |-> Writing(frames[i])])

\* fail.
Fail(m, why) == [Queue(m, <<Doing("failed", 0)>>) EXCEPT !.st = "terminal", !.why = why]

Over(m) == m.end # ""

-----------------------------------------------------------------------------
(* The sender *)

\* send_offer, send_sender_init, send_end_of_file and send_finish.
SendOffer(m, tries) ==
    [Write(m, <<Header("ZFILE", 0), Subpacket(<<m.file>>, TRUE)>>) EXCEPT
        !.st = "offer", !.tries = tries]
SendSenderInit(m, tries) ==
    [Write(m, <<Header("ZSINIT", 0), Subpacket(<<>>, TRUE)>>) EXCEPT
        !.st = "senderInit", !.tries = tries]
SendEndOfFile(m, tries) ==
    [Write(m, <<Header("ZEOF", m.pos)>>) EXCEPT !.st = "afterFile", !.tries = tries]
SendFinish(m, tries) ==
    [Write(m, <<Header("ZFIN", 0)>>) EXCEPT !.st = "finish", !.tries = tries]

\* retry_sender_init, retry_offer, retry_end_of_file and retry_finish.
Retry(m, again) ==
    IF m.tries >= RetryLimit THEN Fail(m, "retry") ELSE again

\* request_source.
RequestSource(m) == [Queue(m, <<Doing("read", m.pos)>>) EXCEPT !.st = "source"]

\* begin_or_resume_source.
BeginOrResume(m, pos, tries) ==
    LET begun == Write([m EXCEPT !.pos = pos, !.tries = tries], <<Header("ZDATA", pos)>>)
    IN IF pos > Sizes[m.file] THEN Fail(m, "length")
       ELSE IF tries > RetryLimit THEN Fail(m, "retry")
       ELSE IF pos = Sizes[m.file]
            THEN SendEndOfFile(Write(begun, <<Subpacket(<<>>, TRUE)>>), 1)
       ELSE RequestSource(begun)

\* complete_current_file.
CompleteCurrentFile(m) ==
    LET n == [m EXCEPT !.file = @ + 1, !.pos = 0]
    IN IF m.file = Len(Sizes) THEN SendFinish(n, 1) ELSE SendOffer(n, 1)

\* complete_batch.
SenderCompletes(m) == [Queue(Write(m, <<OO>>), <<Doing("done", 0)>>) EXCEPT !.st = "terminal"]

\* handle_header.  Another header than the ones expected changes nothing.
SenderHeader(m, h) ==
    CASE m.st = "init" /\ h.kind = "ZRINIT" ->
             IF Escapes THEN SendOffer(m, 1) ELSE SendSenderInit(m, 1)
      [] m.st = "senderInit" /\ h.kind = "ZACK" -> SendOffer(m, 1)
      [] m.st = "senderInit" /\ h.kind \in {"ZRINIT", "ZNAK"} -> Retry(m, SendSenderInit(m, m.tries + 1))
      [] m.st = "offer" /\ h.kind = "ZRPOS" -> BeginOrResume(m, h.pos, m.tries)
      [] m.st = "offer" /\ h.kind \in {"ZRINIT", "ZNAK"} -> Retry(m, SendOffer(m, m.tries + 1))
      [] m.st = "source" /\ h.kind = "ZRPOS" -> BeginOrResume(m, h.pos, m.tries + 1)
      [] m.st = "afterFile" /\ h.kind = "ZRINIT" -> CompleteCurrentFile(m)
      [] m.st = "afterFile" /\ h.kind = "ZRPOS" -> BeginOrResume(m, h.pos, m.tries)
      [] m.st = "afterFile" /\ h.kind = "ZNAK" -> Retry(m, SendEndOfFile(m, m.tries + 1))
      [] m.st = "finish" /\ h.kind = "ZFIN" -> SenderCompletes(m)
      [] m.st = "finish" /\ h.kind \in {"ZRINIT", "ZNAK"} -> Retry(m, SendFinish(m, m.tries + 1))
      [] OTHER -> m

\* on_timeout: buffered input is dropped.
SenderTimeout(n) ==
    LET m == [n EXCEPT !.wire = <<>>]
    IN CASE m.st = "init" ->
                IF m.tries >= RetryLimit THEN Fail(m, "timeout") ELSE [m EXCEPT !.tries = @ + 1]
         [] m.st = "offer" -> Retry(m, SendOffer(m, m.tries + 1))
         [] m.st = "senderInit" -> Retry(m, SendSenderInit(m, m.tries + 1))
         [] m.st = "afterFile" -> Retry(m, SendEndOfFile(m, m.tries + 1))
         [] m.st = "finish" -> Retry(m, SendFinish(m, m.tries + 1))

Cancelled(m) == \E i \in 1..Len(m.wire) : m.wire[i].kind = "CAN"

\* The next frame of the input is handled; noise before a header is skipped.
Advance(m) == [m EXCEPT !.wire = Tail(@)]

SenderPumpOnce(m) ==
    CASE m.st = "terminal" \/ m.wire = <<>> \/ m.stuck -> m
      [] ~Head(m.wire).valid -> [Advance(m) EXCEPT !.stuck = TRUE]
      [] OTHER -> SenderHeader(Advance(m), Head(m.wire))

\* push_serial_bytes and pump_headers.  A header whose checksum fails ends
\* this read: what follows it waits for the next one.
SenderPump(m) ==
    IF Cancelled(m) THEN Fail([m EXCEPT !.wire = <<>>], "remote")
    ELSE [FoldLeft(LAMBDA n, f : SenderPumpOnce(n), m, m.wire) EXCEPT !.stuck = FALSE]

\* provide_source_chunk: the chunk that was read at pos goes out as the next
\* one.  It is refused when the machine does not wait for it.
ProvideSource(m, pos) ==
    LET last == m.pos + 1 = Sizes[m.file]
        sent == [Write(m, <<Subpacket(<<Chunk(m.file, pos + 1)>>, last)>>) EXCEPT !.pos = @ + 1]
    IN CASE m.st # "source" -> [m EXCEPT !.end = "failed", !.why = "state"]
         [] last -> SendEndOfFile(sent, 1)
         [] OTHER -> RequestSource(sent)

-----------------------------------------------------------------------------
(* The receiver *)

\* send_receiver_init, send_receiver_position, send_finish, and the answer to
\* an interrupted offer.
SendReceiverInit(m, tries) ==
    [Write(m, <<Header("ZRINIT", 0)>>) EXCEPT !.st = "header", !.tries = tries]
SendPosition(m, tries) ==
    [Write(m, <<Header("ZRPOS", m.written)>>) EXCEPT !.st = "dataHeader", !.tries = tries]
ReceiverFinish(m, tries) ==
    [Write(m, <<Header("ZFIN", 0)>>) EXCEPT !.st = "overAndOut", !.tries = tries]
SendNak(m, tries) ==
    [Write(m, <<Header("ZNAK", 0)>>) EXCEPT !.st = "header", !.tries = tries]

\* handle_end_of_file.  At another place than the end of the file the sender
\* has to go back, as if for the first time.
EndOfFile(m, pos) ==
    IF pos # m.written \/ m.written # Sizes[m.current]
    THEN Retry([m EXCEPT !.tries = 1], SendPosition(m, 2))
    ELSE SendReceiverInit(
             [Queue(m, <<Doing("complete", 0)>>) EXCEPT !.current = 0, !.written = 0], 1)

\* The headers that a receiver of data handles (AwaitDataHeader).
DataHeader(m, h) ==
    CASE h.kind = "ZEOF" -> EndOfFile(m, h.pos)
      [] h.kind = "ZDATA" /\ h.pos = m.written -> [m EXCEPT !.st = "data"]
      [] h.kind = "ZDATA" /\ h.pos # m.written -> Retry(m, SendPosition(m, m.tries + 1))
      [] OTHER -> m

\* handle_receiver_header.
ReceiverHeader(m, h) ==
    CASE m.st = "header" /\ h.kind = "ZSINIT" -> [m EXCEPT !.st = "senderInitData"]
      [] m.st = "header" /\ h.kind = "ZFILE" -> [m EXCEPT !.st = "metadata"]
      [] m.st = "header" /\ h.kind = "ZFIN" -> ReceiverFinish(m, 1)
      [] m.st = "dataHeader" -> DataHeader(m, h)
      [] m.st = "endOfFile" /\ h.kind = "ZEOF" -> EndOfFile(m, h.pos)
      [] m.st = "endOfFile" /\ h.kind = "ZDATA" /\ h.pos = m.written -> [m EXCEPT !.st = "data"]
      [] OTHER -> m

\* What a subpacket adds to the file, at most one chunk.
Size(sub) == Len(sub.holds)

\* handle_receiver_subpacket.
ReceiverSubpacket(m, sub) ==
    CASE m.st = "senderInitData" -> [Write(m, <<Header("ZACK", 0)>>) EXCEPT !.st = "header"]
      [] m.st = "metadata" ->
             [Queue(m, <<Doing("offer", 0)>>) EXCEPT
                 !.st = "acceptance", !.current = Head(sub.holds)]
      [] m.st = "data" ->
             IF m.written + Size(sub) > Sizes[m.current] THEN Fail(m, "incomplete")
             ELSE [Queue(m, <<Doing("put", m.written)>>) EXCEPT !.st = "sink", !.sub = sub]

\* recover_corrupt_input: buffered input is dropped.
Recover(n) ==
    LET m == [n EXCEPT !.wire = <<>>]
    IN IF m.st \in {"dataHeader", "data", "endOfFile"} THEN Retry(m, SendPosition(m, m.tries + 1))
       ELSE Retry(m, SendReceiverInit(m, m.tries + 1))

\* next_header: the first header of the input, or a frame whose checksum fails.
Candidates(m) == {i \in 1..Len(m.wire) : IsHeader(m.wire[i]) \/ ~m.wire[i].valid}
From(m, i) == [m EXCEPT !.wire = SubSeq(@, i + 1, Len(@))]
First(is) == CHOOSE i \in is : \A j \in is : i <= j

PumpHeader(m) ==
    LET i == First(Candidates(m))
    IN IF Candidates(m) = {} THEN [m EXCEPT !.wire = <<>>]
       ELSE IF m.wire[i].valid THEN ReceiverHeader(From(m, i), m.wire[i])
       ELSE Recover(m)

\* next_subpacket: a header in its place is read as the beginning of the next
\* subpacket, whose checksum then fails.
Subpackets(m) == {i \in 1..Len(m.wire) : m.wire[i].kind = "sub"}
PumpSubpacket(m) ==
    CASE Subpackets(m) = {} -> m
      [] Subpackets(m) # {} /\ First(Subpackets(m)) = 1 /\ m.wire[1].valid ->
             ReceiverSubpacket(From(m, 1), m.wire[1])
      [] OTHER -> Recover(m)

\* next_over_and_out and complete_batch.
PumpOverAndOut(m) ==
    IF \E i \in 1..Len(m.wire) : m.wire[i] = OO
    THEN [Queue(m, <<Doing("done", 0)>>) EXCEPT !.st = "terminal", !.wire = <<>>]
    ELSE [m EXCEPT !.wire = <<>>]

ReceiverPumpOnce(m) ==
    CASE m.wire = <<>> \/ m.st \in {"terminal", "acceptance", "sink"} -> m
      [] m.wire # <<>> /\ m.st \in {"header", "dataHeader", "endOfFile"} -> PumpHeader(m)
      [] m.wire # <<>> /\ m.st \in {"senderInitData", "metadata", "data"} -> PumpSubpacket(m)
      [] m.wire # <<>> /\ m.st = "overAndOut" -> PumpOverAndOut(m)

\* pump.  While the driver opens or writes the file the input waits.
ReceiverPump(m) ==
    IF m.st \in {"terminal", "acceptance", "sink"} THEN m
    ELSE IF Cancelled(m) THEN Fail([m EXCEPT !.wire = <<>>], "remote")
    ELSE FoldLeft(LAMBDA n, f : ReceiverPumpOnce(n), m, m.wire)

\* on_timeout: buffered input is dropped.
ReceiverTimeout(n) ==
    LET m == [n EXCEPT !.wire = <<>>]
    IN CASE m.st = "header" -> Retry(m, SendReceiverInit(m, m.tries + 1))
         [] m.st \in {"senderInitData", "metadata"} -> Retry(m, SendNak(m, m.tries + 1))
         [] m.st \in {"dataHeader", "data", "endOfFile"} -> Retry(m, SendPosition(m, m.tries + 1))
         [] m.st = "overAndOut" -> Retry(m, ReceiverFinish(m, m.tries + 1))

\* accept_file, when the driver has opened the partial file.
AcceptFile(m) == ReceiverPump(SendPosition([m EXCEPT !.written = 0], 1))

\* confirm_file_write, when the driver has written the chunk.
ConfirmFileWrite(m) ==
    ReceiverPump([m EXCEPT
        !.written = @ + Size(m.sub), !.st = IF m.sub.last THEN "endOfFile" ELSE "data"])

-----------------------------------------------------------------------------
(* The drivers *)

Machine(st) == [st |-> st, tries |-> 1, wire |-> <<>>, q |-> <<>>, why |-> "", end |-> ""]

Init ==
    /\ s = Machine("init") @@ [file |-> 1, pos |-> 0, stuck |-> FALSE]
    /\ r = SendReceiverInit(
               Machine("header") @@ [current |-> 0, written |-> 0, sub |-> CAN], 1)
    /\ toReceiver = <<>> /\ toSender = <<>>
    /\ staged = <<>> /\ saved = <<>>
    /\ faults = 0

Fault(kind) == kind \in Faults /\ faults < MaxFaults /\ faults' = faults + 1

\* The end of a driver that fails: the peer is told, unless it told us.
Ended(m) == [m EXCEPT !.end = "failed", !.q = <<>>, !.wire = <<>>, !.st = "terminal"]
Farewell(m) == IF m.why = "remote" THEN <<>> ELSE <<CAN>>

SenderEnds(m) ==
    /\ s' = Ended(m)
    /\ toReceiver' = toReceiver \o Farewell(m)

\* drive_sender performs its next action.
SenderActs ==
    /\ ~Over(s) /\ s.q # <<>>
    /\ LET act == Head(s.q)
           m == [s EXCEPT !.q = Tail(@)]
           read == ProvideSource(m, act.at)
       IN \/ act.do = "write" /\ s' = m /\ toReceiver' = Append(toReceiver, act.frame)
          \/ act.do = "read" /\ ~Over(read) /\ s' = read /\ UNCHANGED toReceiver
          \/ act.do = "read" /\ Over(read) /\ SenderEnds(read)
          \/ act.do = "failed" /\ SenderEnds(m)
          \/ act.do = "done" /\ s' = [m EXCEPT !.end = "done"] /\ UNCHANGED toReceiver
    /\ UNCHANGED <<r, toSender, staged, saved, faults>>

\* The partial file is removed with the driver that fails.
ReceiverEnds(m) ==
    /\ r' = Ended(m)
    /\ toSender' = toSender \o Farewell(m)
    /\ staged' = <<>>
    /\ UNCHANGED saved

\* drive_receiver performs its next action.
ReceiverActs ==
    /\ ~Over(r) /\ r.q # <<>>
    /\ LET act == Head(r.q)
           m == [r EXCEPT !.q = Tail(@)]
       IN \/ /\ act.do = "write"
             /\ r' = m
             /\ toSender' = Append(toSender, act.frame)
             /\ UNCHANGED <<staged, saved>>
          \/ /\ act.do = "offer"
             /\ r' = AcceptFile(m)
             /\ staged' = <<>>
             /\ UNCHANGED <<toSender, saved>>
          \/ /\ act.do = "put"
             /\ r' = ConfirmFileWrite(m)
             /\ staged' = SubSeq(staged, 1, act.at) \o m.sub.holds
             /\ UNCHANGED <<toSender, saved>>
          \/ /\ act.do = "complete"
             /\ r' = m
             /\ saved' = Append(saved, staged) /\ staged' = <<>>
             /\ UNCHANGED toSender
          \/ act.do = "failed" /\ ReceiverEnds(m)
          \/ /\ act.do = "done"
             /\ r' = [m EXCEPT !.end = "done"]
             /\ UNCHANGED <<toSender, staged, saved>>
    /\ UNCHANGED <<s, toReceiver, faults>>

Idle(m) == ~Over(m) /\ m.q = <<>>
Reads(line) == {n \in 1..MaxRead : n <= Len(line)}

SenderReads ==
    /\ Idle(s)
    /\ \E n \in Reads(toSender) :
          /\ s' = SenderPump([s EXCEPT !.wire = @ \o SubSeq(toSender, 1, n)])
          /\ toSender' = SubSeq(toSender, n + 1, Len(toSender))
    /\ UNCHANGED <<r, toReceiver, staged, saved, faults>>

ReceiverReads ==
    /\ Idle(r)
    /\ \E n \in Reads(toReceiver) :
          /\ r' = ReceiverPump([r EXCEPT !.wire = @ \o SubSeq(toReceiver, 1, n)])
          /\ toReceiver' = SubSeq(toReceiver, n + 1, Len(toReceiver))
    /\ UNCHANGED <<s, toSender, staged, saved, faults>>

\* Frames for a transfer that is over go to the terminal.
ToTerminal ==
    \/ /\ Over(s) /\ toSender # <<>>
       /\ toSender' = <<>>
       /\ UNCHANGED <<s, r, toReceiver, staged, saved, faults>>
    \/ /\ Over(r) /\ toReceiver # <<>>
       /\ toReceiver' = <<>>
       /\ UNCHANGED <<s, r, toSender, staged, saved, faults>>

\* The wait for the peer is over.  A timer that expires although the peer has
\* something to say is a fault.
Quiet == toSender = <<>> /\ toReceiver = <<>> /\ s.q = <<>> /\ r.q = <<>>
Expired == \/ Quiet /\ UNCHANGED faults
           \/ ~Quiet /\ Fault("late")

SenderTimesOut ==
    /\ Idle(s) /\ s.st # "source"
    /\ Expired
    /\ s' = SenderTimeout(s)
    /\ UNCHANGED <<r, toReceiver, toSender, staged, saved>>

ReceiverTimesOut ==
    /\ Idle(r)
    /\ Expired
    /\ r' = ReceiverTimeout(r)
    /\ UNCHANGED <<s, toReceiver, toSender, staged, saved>>

-----------------------------------------------------------------------------
(* Faults *)

\* A header or the last bytes are lost.  Bytes lost inside subpackets leave one
\* whose checksum fails, which is damage; the protocol numbers no subpackets.
Lose ==
    /\ Fault("lost")
    /\ \/ /\ toReceiver # <<>> /\ Head(toReceiver).kind # "sub"
          /\ toReceiver' = Tail(toReceiver) /\ UNCHANGED toSender
       \/ toSender # <<>> /\ toSender' = Tail(toSender) /\ UNCHANGED toReceiver
    /\ UNCHANGED <<s, r, staged, saved>>

Damaged(line) == <<[Head(line) EXCEPT !.valid = FALSE]>> \o Tail(line)
Whole(line) == line # <<>> /\ Head(line).valid /\ Head(line).kind \notin {"CAN", "OO"}

Damage ==
    /\ Fault("damaged")
    /\ \/ Whole(toReceiver) /\ toReceiver' = Damaged(toReceiver) /\ UNCHANGED toSender
       \/ Whole(toSender) /\ toSender' = Damaged(toSender) /\ UNCHANGED toReceiver
    /\ UNCHANGED <<s, r, staged, saved>>

\* A user cancels either side, or its file cannot be read, written or
\* published.
Stop ==
    /\ \E why \in {"cancel", "io"} :
          /\ Fault(why)
          /\ \/ ~Over(s) /\ SenderEnds([s EXCEPT !.why = why]) /\ UNCHANGED <<r, toSender, staged, saved>>
             \/ ~Over(r) /\ ReceiverEnds([r EXCEPT !.why = why]) /\ UNCHANGED <<s, toReceiver>>

Finished == Over(s) /\ Over(r) /\ Quiet /\ UNCHANGED vars

Next ==
    \/ SenderActs \/ SenderReads \/ SenderTimesOut
    \/ ReceiverActs \/ ReceiverReads \/ ReceiverTimesOut
    \/ ToTerminal \/ Lose \/ Damage \/ Stop \/ Finished

Spec == Init /\ [][Next]_vars

-----------------------------------------------------------------------------
(* Properties *)

\* The variables have their types, and what is published or staged is at most
\* the batch.
TypeOK ==
    /\ s.file \in 1..Len(Sizes) + 1 /\ s.tries \in 1..RetryLimit
    /\ r.current \in 0..Len(Sizes) /\ r.tries \in 1..RetryLimit
    /\ r.current # 0 => r.written \in 0..Sizes[r.current]
    /\ faults \in 0..MaxFaults
    /\ Len(saved) <= Len(Sizes)

\* The files published are the files of the batch, in order, each exactly,
\* whatever was repeated, damaged, lost or answered late.
KeptIsExact == IsPrefix(saved, Sources)

\* A sender that reports success has its files published by the receiver, and
\* so has the receiver.
SuccessIsReal == s.end = "done" \/ r.end = "done" => saved = Sources

\* A transfer on a clean line, of which nobody gives up, succeeds on both sides.
CleanTransferSucceeds == faults = 0 => s.end # "failed" /\ r.end # "failed"

\* Both ends have come to an end.
BothOver == Over(s) /\ Over(r)
=============================================================================
