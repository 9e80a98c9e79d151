---------------------------- MODULE YmodemTransfer ----------------------------
(***************************************************************************)
(* A YMODEM file transfer between the sender and the receiver of           *)
(* crates/netcatty-serial/src/ymodem.rs, each driven by its loop in        *)
(* src-tauri/src/serial_ymodem.rs, over a serial line that may lose or     *)
(* damage what it carries.                                                 *)
(*                                                                         *)
(* The line carries frames in order: control bytes, packets and the cancel *)
(* sequence.  One read returns one frame or several; the state machine     *)
(* handles all of them before the driver performs the actions they queued, *)
(* which is one step here.  A chunk of the file is its number, so that the *)
(* file is <<1, .., Chunks>>.                                              *)
(***************************************************************************)
EXTENDS Naturals, Sequences, SequencesExt

CONSTANTS
    Chunks,       \* length of the file in packets
    Modulus,      \* block numbers wrap here; 256 in the code
    RetryLimit,   \* attempts of one packet or request
    Faults,       \* what may go wrong: "lost", "damaged", "late", "cancel", "io"
    MaxFaults     \* bound on the number of faults in a behaviour

\* What a model must choose.
BoundsAssumption ==
    /\ Chunks \in Nat
    /\ Modulus \in Nat \ {0, 1, 2}
    /\ RetryLimit \in Nat \ {0}
    /\ MaxFaults \in Nat
    /\ Faults \subseteq {"lost", "damaged", "late", "cancel", "io"}

VARIABLES
    s,           \* the sender's state machine
    r,           \* the receiver's
    toReceiver,  \* frames on the line
    toSender,
    file,        \* chunks in the file being received
    saved,       \* the files kept at the end, each a sequence of chunks
    faults       \* faults so far

vars == <<s, r, toReceiver, toSender, file, saved, faults>>

Source == [i \in 1..Chunks |-> i]

Control(b) == [kind |-> b]
C == Control("C")
ACK == Control("ACK")
NAK == Control("NAK")
EOT == Control("EOT")
CAN == Control("CAN")
Packet(holds, n) ==
    [kind |-> "packet", holds |-> holds, block |-> n % Modulus, chunk |-> n, valid |-> TRUE]
Header == Packet("header", 0)
EndPacket == Packet("end", 0)
Data(n) == Packet("data", n)

\* Room for one more frame on the line; a sender waits for each answer, so
\* that only repetitions can be on it together.
MaxLine == RetryLimit + MaxFaults + 3

-----------------------------------------------------------------------------
(* The sender.  m is the machine, m.out what it has queued for the line. *)

Write(m, frames) == [m EXCEPT !.out = @ \o frames]

\* A failure while a file operation is queued: the driver performs the
\* operation, and the machine refuses its result.
Failed(m, why) ==
    [m EXCEPT !.st = "failed",
              !.why = IF m.st \in {"source", "awaitFile", "awaitWrite"} THEN "state" ELSE why]

\* retry_header, retry_data_packet, retry_control and retry_end_packet.
RetryAt(m, frames, st) ==
    IF m.tries >= RetryLimit THEN Failed(m, "retry")
    ELSE [Write(m, frames) EXCEPT !.st = st, !.tries = @ + 1]

\* request_next_source_or_eot.  The chunk is read when the driver gets to it.
RequestNext(m) ==
    IF m.sent = Chunks THEN [Write(m, <<EOT>>) EXCEPT !.st = "firstEot", !.tries = 1]
    ELSE [m EXCEPT !.st = "source"]

\* Mutant: requests for the data are not counted.
RetryDataRequestForever(m) ==
    [Write(m, <<Header>>) EXCEPT !.st = "repeatedHeader", !.tries = 1]

\* retry_data_request: the header once more.
RetryDataRequest(m) ==
    IF m.requests >= RetryLimit THEN Failed(m, "retry")
    ELSE [Write(m, <<Header>>) EXCEPT
             !.st = "repeatedHeader", !.tries = 1, !.requests = @ + 1]

\* handle_event.  Another control byte than the ones expected is ignored.
SenderEvent(m, ev) ==
    CASE ev.kind = "CAN" -> Failed(m, "remote")
      [] ev.kind = "noise" -> Failed(m, "byte")
      [] m.st = "request" /\ ev.kind = "C" ->
             [Write(m, <<Header>>) EXCEPT !.st = "header", !.tries = 1]
      [] m.st = "header" /\ ev.kind = "ACK" -> [m EXCEPT !.st = "dataRequest", !.requests = 0]
      [] m.st = "header" /\ ev.kind = "NAK" -> RetryAt(m, <<Header>>, "header")
      [] m.st = "dataRequest" /\ ev.kind = "C" -> RequestNext(m)
      [] m.st = "dataRequest" /\ ev.kind = "NAK" -> RetryDataRequest(m)
      [] m.st = "repeatedHeader" /\ ev.kind = "ACK" -> [m EXCEPT !.st = "dataRequest"]
      [] m.st = "repeatedHeader" /\ ev.kind = "NAK" -> RetryAt(m, <<Header>>, "repeatedHeader")
      [] m.st = "data" /\ ev.kind = "ACK" -> RequestNext([m EXCEPT !.sent = @ + 1])
      [] m.st = "data" /\ ev.kind = "NAK" -> RetryAt(m, <<Data(m.sent + 1)>>, "data")
      [] m.st = "firstEot" /\ ev.kind = "NAK" ->
             [Write(m, <<EOT>>) EXCEPT !.st = "secondEot", !.tries = 1]
      [] m.st \in {"firstEot", "secondEot"} /\ ev.kind = "ACK" ->
             [m EXCEPT !.st = "endRequest", !.tries = 1]
      [] m.st = "secondEot" /\ ev.kind = "NAK" -> RetryAt(m, <<EOT>>, "secondEot")
      [] m.st = "endRequest" /\ ev.kind = "C" ->
             [Write(m, <<EndPacket>>) EXCEPT !.st = "end", !.tries = 1]
      [] m.st = "end" /\ ev.kind = "ACK" -> [m EXCEPT !.st = "done"]
      [] m.st = "end" /\ ev.kind = "NAK" -> RetryAt(m, <<EndPacket>>, "end")
      [] OTHER -> m

\* on_timeout.
SenderTimeout(m) ==
    CASE m.st = "request" -> Failed(m, "timeout")
      [] m.st \in {"header", "repeatedHeader"} -> RetryAt(m, <<Header>>, m.st)
      [] m.st = "dataRequest" -> RetryDataRequest(m)
      [] m.st = "data" -> RetryAt(m, <<Data(m.sent + 1)>>, "data")
      [] m.st \in {"firstEot", "secondEot", "endRequest"} -> RetryAt(m, <<EOT>>, m.st)
      [] m.st = "end" -> RetryAt(m, <<EndPacket>>, "end")

Over(m) == m.st \in {"done", "failed"}

\* push_serial_bytes: the frames of one read, until the machine is over.
SenderHandles(m, frames) ==
    FoldLeft(LAMBDA n, ev : IF Over(n) THEN n ELSE SenderEvent(n, ev), m, frames)

\* provide_source_chunk, called for the read that was queued.  After a failure
\* in the same read it is refused.
ProvideSource(m) ==
    IF m.st = "source"
    THEN [Write(m, <<Data(m.sent + 1)>>) EXCEPT !.st = "data", !.tries = 1] ELSE m

\* A failure that the peer did not report is reported to it
\* (should_send_protocol_abort).
Abort(m) ==
    IF m.st = "failed" /\ m.why # "remote" THEN Write(m, <<CAN>>) ELSE m

-----------------------------------------------------------------------------
(* The receiver.  m.put is the chunk queued for the file, m.files what the  *)
(* driver is told about the file: "open" and "keep".                        *)

\* Mutant: the size of the file is not compared.
FinishFileAnySize(m) ==
    [Write(m, <<ACK, C>>) EXCEPT !.st = "awaitHeader", !.rejected = 0, !.tell = "keep"]

\* finish_current_file.
FinishFile(m) ==
    LET answered == Write(m, <<ACK>>)
    IN IF m.written # Chunks THEN Failed(answered, "incomplete")
       ELSE [Write(answered, <<C>>) EXCEPT !.st = "awaitHeader", !.rejected = 0, !.tell = "keep"]

\* A packet that is not wanted is refused, with its own count.
Reject(m, limit, frames) ==
    IF m.rejected + 1 > limit THEN Failed(m, "retry")
    ELSE [Write(m, frames) EXCEPT !.rejected = @ + 1]

\* What the payload is as a header (parse_ymodem_file_header): an end packet,
\* whose name is empty, ends the batch; file contents are no header.
ParsedHeader(m, holds) ==
    CASE holds = "end" -> [Write(m, <<ACK>>) EXCEPT !.st = "done"]
      [] holds = "header" ->
             [Write(m, <<ACK>>) EXCEPT !.st = "awaitFile", !.written = 0, !.tell = "open"]
      [] holds = "data" -> Failed(m, "size")

\* handle_header.
HandleHeader(m, ev) ==
    CASE ev.kind = "packet" /\ ev.valid /\ ev.block = 0 ->
             ParsedHeader(m, ev.holds)
      [] \/ ev.kind = "packet" /\ ev.valid /\ ev.block = Modulus - 1
         \/ ev.kind = "EOT" -> Write(m, <<ACK, C>>)
      [] ev.kind = "noise" -> Failed(m, "byte")
      [] ev.kind = "packet" -> Reject(m, RetryLimit - 1, <<NAK, C>>)
      [] OTHER -> m

\* Mutant: the number of a packet is not compared.
HandleDataAny(m, ev) ==
    CASE ev.kind = "EOT" -> [Write(m, <<NAK>>) EXCEPT !.st = "awaitEot", !.rejected = 0]
      [] ev.kind = "packet" /\ ev.valid /\ ev.holds = "data" ->
             IF m.written = Chunks THEN Write(m, <<ACK>>)
             ELSE [m EXCEPT !.st = "awaitWrite", !.put = ev.chunk]
      [] ev.kind = "packet" /\ ev.valid -> Write(m, <<ACK>>)
      [] OTHER -> m

\* handle_data.  The wanted packet is queued for the file and answered when it
\* is written; the one before it was answered already.
HandleData(m, ev) ==
    CASE ev.kind = "EOT" -> [Write(m, <<NAK>>) EXCEPT !.st = "awaitEot", !.rejected = 0]
      [] ev.kind = "packet" /\ ev.valid /\ ev.block = m.expected ->
             IF m.written = Chunks
             THEN [Write(m, <<ACK>>) EXCEPT !.expected = (@ + 1) % Modulus, !.rejected = 0]
             ELSE [m EXCEPT !.st = "awaitWrite", !.put = ev.chunk]
      [] ev.kind = "packet" /\ ev.valid /\ (ev.block + 1) % Modulus = m.expected ->
             Write(m, <<ACK>>)
      [] ev.kind = "noise" -> Failed(m, "byte")
      [] ev.kind = "packet" -> Reject(m, RetryLimit, <<NAK>>)
      [] OTHER -> m

\* handle_event.  While the driver opens or writes the file no frame may come.
ReceiverEvent(m, ev) ==
    CASE ev.kind = "CAN" -> Failed(m, "remote")
      [] m.st = "awaitHeader" -> HandleHeader(m, ev)
      [] m.st = "awaitData" -> HandleData(m, ev)
      [] m.st = "awaitEot" -> IF ev.kind = "EOT" THEN FinishFile(m) ELSE Failed(m, "eot")
      [] OTHER -> Failed(m, "frame")

\* push_serial_bytes.
ReceiverHandles(m, frames) ==
    FoldLeft(LAMBDA n, ev : IF Over(n) THEN n ELSE ReceiverEvent(n, ev), m, frames)

\* on_timeout.
ReceiverTimeout(m) ==
    CASE m.st = "awaitHeader" -> Reject(m, RetryLimit - 1, <<C>>)
      [] m.st \in {"awaitData", "awaitEot"} -> Reject(m, RetryLimit, <<NAK>>)

\* accept_file, when the driver has opened the file.
AcceptFile(m) ==
    IF m.st = "awaitFile"
    THEN [Write(m, <<C>>) EXCEPT !.st = "awaitData", !.expected = 1, !.rejected = 0] ELSE m

\* confirm_file_write, when the driver has written the chunk.
ConfirmFileWrite(m) ==
    IF m.st = "awaitWrite"
    THEN [Write(m, <<ACK>>) EXCEPT
             !.st = "awaitData", !.expected = (@ + 1) % Modulus, !.rejected = 0,
             !.written = @ + 1]
    ELSE m

-----------------------------------------------------------------------------
(* The drivers *)

Init ==
    /\ s = [st |-> "request", tries |-> 0, requests |-> 0, sent |-> 0, why |-> "", out |-> <<>>]
    /\ r = [st |-> "awaitHeader", rejected |-> 0, expected |-> 0, written |-> 0,
            tell |-> "", put |-> 0, why |-> "", out |-> <<>>]
    /\ toReceiver = <<>> /\ toSender = <<C>>
    /\ file = <<>> /\ saved = <<>>
    /\ faults = 0

Fault(kind) == kind \in Faults /\ faults < MaxFaults /\ faults' = faults + 1

\* What is left of the machine between two steps of its driver.
Resting(m) == [m EXCEPT !.out = <<>>]

\* drive_sender performs the actions of machine m.
SenderDone(m) ==
    LET n == Abort(ProvideSource(m))
    IN /\ s' = Resting(n)
       /\ toReceiver' = toReceiver \o n.out
       /\ UNCHANGED <<r, file, saved>>

\* drive_receiver performs the actions of machine m: the file is opened,
\* written, kept or, when the transfer ends early, removed.
ReceiverDone(m) ==
    LET n == Abort(ConfirmFileWrite(AcceptFile(m)))
        written == IF m.tell = "open" THEN <<>>
                   ELSE IF m.st = "awaitWrite" THEN Append(file, m.put) ELSE file
        kept == m.tell = "keep"
    IN /\ r' = [Resting(n) EXCEPT !.tell = "", !.put = 0]
       /\ toSender' = toSender \o n.out
       /\ saved' = IF kept THEN Append(saved, file) ELSE saved
       /\ file' = IF kept \/ Over(n) THEN <<>> ELSE written
       /\ UNCHANGED s

\* The frames of one read.
Reads(line) == {n \in 1..2 : n <= Len(line)}

SenderReceives ==
    /\ ~Over(s)
    /\ \E n \in Reads(toSender) :
          /\ toSender' = SubSeq(toSender, n + 1, Len(toSender))
          /\ SenderDone(SenderHandles(s, SubSeq(toSender, 1, n)))
    /\ UNCHANGED faults

ReceiverReceives ==
    /\ ~Over(r)
    /\ \E n \in Reads(toReceiver) :
          LET m == ReceiverHandles(r, SubSeq(toReceiver, 1, n))
          IN /\ toReceiver' = SubSeq(toReceiver, n + 1, Len(toReceiver))
             /\ ReceiverDone(m)
    /\ UNCHANGED faults

\* Frames for a transfer that is over go to the terminal.
ToTerminal ==
    \/ /\ Over(s) /\ toSender # <<>>
       /\ toSender' = <<>>
       /\ UNCHANGED <<s, r, toReceiver, file, saved, faults>>
    \/ /\ Over(r) /\ toReceiver # <<>>
       /\ toReceiver' = <<>>
       /\ UNCHANGED <<s, r, toSender, file, saved, faults>>

\* The wait for the peer is over.  A timer that expires although an answer is
\* on its way is a fault.
Quiet == toSender = <<>> /\ toReceiver = <<>>
Expired == \/ Quiet /\ UNCHANGED faults
           \/ ~Quiet /\ Fault("late")

SenderTimesOut ==
    /\ ~Over(s)
    /\ Expired
    /\ SenderDone(SenderTimeout(s))
    /\ UNCHANGED toSender

ReceiverTimesOut ==
    /\ ~Over(r)
    /\ Expired
    /\ ReceiverDone(ReceiverTimeout(r))
    /\ UNCHANGED toReceiver

-----------------------------------------------------------------------------
(* Faults *)

Lose ==
    /\ Fault("lost")
    /\ \/ toReceiver # <<>> /\ toReceiver' = Tail(toReceiver) /\ UNCHANGED toSender
       \/ toSender # <<>> /\ toSender' = Tail(toSender) /\ UNCHANGED toReceiver
    /\ UNCHANGED <<s, r, file, saved>>

\* A packet fails its checksum, a control byte becomes another byte.
Damaged(f) == IF f.kind = "packet" THEN [f EXCEPT !.valid = FALSE] ELSE Control("noise")

Damage ==
    /\ Fault("damaged")
    /\ \/ /\ toReceiver # <<>>
          /\ toReceiver' = <<Damaged(Head(toReceiver))>> \o Tail(toReceiver)
          /\ UNCHANGED toSender
       \/ /\ toSender # <<>>
          /\ toSender' = <<Damaged(Head(toSender))>> \o Tail(toSender)
          /\ UNCHANGED toReceiver
    /\ UNCHANGED <<s, r, file, saved>>

\* A user cancels either side, or its file cannot be read or written.
SenderStops(why) ==
    /\ ~Over(s)
    /\ SenderDone(Failed(s, why))
    /\ UNCHANGED toSender
ReceiverStops(why) ==
    /\ ~Over(r)
    /\ ReceiverDone(Failed(r, why))
    /\ UNCHANGED toReceiver

Stop == \E why \in {"cancel", "io"} : Fault(why) /\ (SenderStops(why) \/ ReceiverStops(why))

Finished == Over(s) /\ Over(r) /\ Quiet /\ UNCHANGED vars

Moves == SenderReceives \/ ReceiverReceives \/ ToTerminal \/ SenderTimesOut \/ ReceiverTimesOut
Next == Moves \/ Lose \/ Damage \/ Stop \/ Finished

Spec == Init /\ [][Next]_vars

-----------------------------------------------------------------------------
(* Properties *)

\* The variables have their types, and the line never holds more than the
\* repetitions the retry limits allow.
TypeOK ==
    /\ s.sent \in 0..Chunks /\ s.tries \in 0..RetryLimit /\ s.requests \in 0..RetryLimit
    /\ r.written \in 0..Chunks /\ r.expected \in 0..Modulus - 1 /\ r.rejected \in 0..RetryLimit
    /\ Len(toReceiver) <= MaxLine /\ Len(toSender) <= 2 * MaxLine
    /\ faults \in 0..MaxFaults

\* What is in the file is a prefix of the source, whatever was repeated,
\* damaged, lost or answered late.
FileIsPrefix == IsPrefix(file, Source)

\* A file that is kept is the source, once.
KeptIsExact == saved \in {<<>>, <<Source>>}

\* A sender that reports success has its file kept by the receiver.
SuccessIsReal == s.st = "done" => saved = <<Source>>

\* A transfer on a clean line, of which nobody gives up, succeeds on both sides.
CleanTransferSucceeds == faults = 0 => s.st # "failed" /\ r.st # "failed"

\* Both ends have come to an end.
BothOver == Over(s) /\ Over(r)
=============================================================================
