------------------------------- MODULE Framer -------------------------------
(* The framer and the two read loops that use it: Framer.cpp,               *)
(* Session::onRead() on the server and TransferService::onBytes() on the    *)
(* client.  A peer's byte stream arrives cut into pieces at any place; the  *)
(* state is what one receiver has made of the pieces so far.  On the server *)
(* the payload goes on to the line reassembler, one chunk for each read.    *)
EXTENDS Codec, FiniteSets, FiniteSetsExt, Eager

(* The conversations, records with these fields.  stage: the receiver's     *)
(* state when the bytes start to arrive; have: bytes of result.csv kept from *)
(* an earlier download, or in Receiving the size of the file; items: what    *)
(* the peer means to send, messages and single payload bytes (Data); bytes:  *)
(* what is on the wire.                                                      *)
CONSTANTS Streams, CR, LF, MaxLen

ASSUME ReassemblerAssumption ==
    /\ MaxLen \in Nat \ {0}
    /\ CR # LF

Lines == INSTANCE LineReassembler

VARIABLES
    stream,     \* the conversation: where the receiver starts and all the bytes
    pos,        \* bytes delivered so far
    rx          \* the receiver

vars == <<stream, pos, rx>>

Data(b) == [type |-> 0, byte |-> b]

kFramerBufferSize == Max({kResultRequestMaxSize, kUploadHeaderMaxSize})

-----------------------------------------------------------------------------
(* Framer.  types holds _expected and _alternate; buf is _buffer[0.._size). *)

reset(types) == [buf |-> <<>>, types |-> types, status |-> "NeedMoreData"]

fixedSizeFor(type) == IF type \in Named THEN FixedSize(type) ELSE kPreambleSize

messageType(f) == byteAt(f.buf, kOffsetType)

\* Faulty variant: a message may be of any size.
FitsAlways(total) == TRUE

Fits(total) == total <= kFramerBufferSize

\* One turn of feed()'s loop up to the copy: a verdict on what is buffered, and
\* how far to read next.
Judge(f) ==
    LET size   == expectedMessageSize(f.buf)
        n      == Len(f.buf)
        target == IF size.status = "Ok" THEN size.size
                  ELSE IF n < kPreambleSize THEN kPreambleSize
                  ELSE fixedSizeFor(messageType(f))
    IN  CASE size.status \notin {"Ok", "NeedMoreData"} -> [status |-> size.status, target |-> n]
          [] n >= kPreambleSize /\ messageType(f) \notin f.types
                                        -> [status |-> "BadType", target |-> n]
          [] size.status = "Ok" /\ ~Fits(size.size)
                                        -> [status |-> "BadValue", target |-> n]
          [] size.status = "Ok" /\ n = size.size
                                        -> [status |-> "Ok", target |-> n]
          [] target <= n                -> [status |-> "BadValue", target |-> n]
          [] OTHER                      -> [status |-> "NeedMoreData", target |-> target]

\* The loop of feed(): the framer after reading from data, and the bytes it took.
RECURSIVE FeedFrom(_, _, _)
FeedFrom(f, data, consumed) ==
    LET verdict == Judge(f)
        take    == Min({verdict.target - Len(f.buf), Len(data) - consumed})
    IN  IF verdict.status # "NeedMoreData" \/ consumed = Len(data)
        THEN [framer |-> [f EXCEPT !.status = verdict.status], consumed |-> consumed]
        ELSE Given(<<[f EXCEPT !.buf = @ \o SubSeq(data, consumed + 1, consumed + take)],
                     consumed + take>>,
                   LAMBDA a : FeedFrom(a[1], data, a[2]))

\* Faulty variant: a message still incomplete at the end of a read starts afresh.
feedForgets(f, data) ==
    LET r == FeedFrom(f, data, 0)
    IN  IF f.status # "NeedMoreData" THEN [framer |-> f, consumed |-> 0]
        ELSE IF r.framer.status = "NeedMoreData" THEN [r EXCEPT !.framer = reset(f.types)]
        ELSE r

feed(f, data) ==
    IF f.status # "NeedMoreData" THEN [framer |-> f, consumed |-> 0]
    ELSE FeedFrom(f, data, 0)

-----------------------------------------------------------------------------
(* The receivers.  rx.stage is SessionState or Expecting; rx.left counts the *)
(* payload bytes still to come, rx.got what was accepted, rx.open how the    *)
(* connection stands: "open", "closed", or "refused" after Ack(PROTOCOL_ERROR). *)

End(r, how) == [r EXCEPT !.open = how]

Expect(r, stage, types) == [r EXCEPT !.stage = stage, !.framer = reset(types)]

\* beginCsvReceive(): the limits, then the payload; nothing left ends the download.
beginCsvReceive(r, m) ==
    IF m.csvSize > kMaxCsvSize \/ (r.stage = "ResumeReply" /\ r.have > m.csvSize)
    THEN End(r, "closed")
    ELSE LET left == m.csvSize - (IF r.stage = "ResumeReply" THEN r.have ELSE 0)
         IN  [r EXCEPT !.left = left, !.stage = IF left = 0 THEN "Nothing" ELSE "CsvPayload"]

\* What the handlers do with a decoded message.  The checksum of a trailer matches and
\* the result asked for is held: otherwise the session ends (ServerSession).
Accept(r, m) ==
    CASE m.type = UploadHeader ->
            [Expect(r, "Receiving", {UploadTrailer}) EXCEPT !.left = m.fileSize]
      [] m.type = UploadTrailer -> [r EXCEPT !.stage = "Analyzing", !.lines = Lines!finish(@)]
      [] m.type = ResultRequest -> [r EXCEPT !.stage = "SendingResult"]
      [] m.type = DownloadDone  -> End(r, "closed")
      [] m.type = Ack /\ r.stage = "Ack" /\ m.status = 0 ->
            Expect(r, "ResultHeader", {ResultHeader})
      [] m.type = Ack /\ ~(r.stage = "Ack" /\ m.status = 0) -> End(r, "closed")
      [] m.type = ResultHeader  -> beginCsvReceive(r, m)

\* consumeHeader/Trailer/Done(), handleAck/ResultHeader/ResumeReplyBytes().
ConsumeMessage(r, data) ==
    Given(feed(r.framer, data), LAMBDA fed :
        LET type    == messageType(fed.framer)
            decoded == decode(type, fed.framer.buf)
            verdict == IF fed.framer.status = "Ok" THEN decoded.status ELSE fed.framer.status
            next    == [r EXCEPT !.framer = fed.framer]
        IN  [consumed |-> fed.consumed,
             rx |-> CASE verdict = "NeedMoreData" -> next
                      [] verdict = "Ok" ->
                            Accept([next EXCEPT !.got = Append(@, decoded.msg)], decoded.msg)
                      [] verdict = "BadValue" /\ r.stage \in {"WaitHeader", "Receiving"} ->
                            End(next, "refused")
                      [] OTHER -> End(next, "closed")])

\* consumePayload() and handleCsvBytes(): their own share, no more.
ConsumePayload(r, data) ==
    LET take == Min({r.left, Len(data)})
    IN  [consumed |-> take,
         rx |-> [r EXCEPT !.left = @ - take,
                          !.lines = IF r.stage = "Receiving"
                                    THEN Lines!feed(@, SubSeq(data, 1, take)) ELSE @,
                          !.got = @ \o [i \in 1..take |-> Data(data[i])],
                          !.stage = IF @ = "CsvPayload" /\ take = r.left THEN "Nothing" ELSE @]]

Consume(r, data) ==
    CASE r.stage \in {"Analyzing", "SendingResult", "Nothing"} ->
            [consumed |-> 0, rx |-> End(r, "closed")]
      [] r.stage \in {"Receiving", "CsvPayload"} /\ r.left > 0 -> ConsumePayload(r, data)
      [] OTHER -> ConsumeMessage(r, data)

\* The loop of Session::onRead() and TransferService::onBytes(): each stage takes
\* its share of the read and leaves the rest to the next.
RECURSIVE Stages(_, _)
Stages(r, data) ==
    IF data = <<>> \/ r.open # "open" THEN r
    ELSE Given(Consume(r, data), LAMBDA step :
            IF step.consumed = 0 THEN step.rx
            ELSE Given(SubSeq(data, step.consumed + 1, Len(data)), LAMBDA rest :
                    Stages(step.rx, rest)))

\* Session::onRead() of a read into a slot of the ring: payload, then at most the
\* trailer; what is behind the trailer is dropped.
SlotRead(r, data) ==
    Given(ConsumePayload(r, data), LAMBDA step :
        LET tail == SubSeq(data, step.consumed + 1, Len(data))
        IN  IF tail = <<>> THEN step.rx ELSE ConsumeMessage(step.rx, tail).rx)

\* onAllocate() offers a slot while payload is outstanding.
onRead(r, data) ==
    IF r.open = "open" /\ r.stage = "Receiving" /\ r.left > 0
    THEN SlotRead(r, data)
    ELSE Stages(r, data)

-----------------------------------------------------------------------------
\* What the framer was last reset to before the stage begins.
TypesOf(stage) ==
    CASE stage = "WaitHeader"  -> {UploadHeader, ResultRequest}
      [] stage = "Receiving"   -> {UploadTrailer}
      [] stage = "WaitDone"    -> {DownloadDone}
      [] stage = "Ack"         -> {Ack}
      [] stage = "ResumeReply" -> {Ack, ResultHeader}

Start(s) == [stage |-> s.stage, framer |-> reset(TypesOf(s.stage)),
             left |-> IF s.stage = "Receiving" THEN s.have ELSE 0,
             have |-> s.have, got |-> <<>>, open |-> "open", lines |-> Lines!empty]

Init ==
    /\ stream \in Streams
    /\ pos = 0
    /\ rx = Start(stream)

\* TCP delivers the next n bytes.
Deliver(n) ==
    /\ pos + n <= Len(stream.bytes)
    /\ pos' = pos + n
    /\ rx' = Given(SubSeq(stream.bytes, pos + 1, pos + n), LAMBDA data : onRead(rx, data))
    /\ UNCHANGED stream

\* The connection breaks; the next one says the same.  The receiver is new, the
\* reassembler is the resident parser's (resetSessionState()).
Break ==
    /\ pos > 0
    /\ pos' = 0
    /\ rx' = [Start(stream) EXCEPT !.lines = Lines!reset(rx.lines)]
    /\ UNCHANGED stream

Done == pos = Len(stream.bytes) /\ UNCHANGED vars

Next == Done \/ Break \/ \E n \in 1..Len(stream.bytes) - pos : Deliver(n)

Spec == Init /\ [][Next]_vars

-----------------------------------------------------------------------------
(* The receiver's fields have their types.  Whatever the peer sends, what is *)
(* kept is bounded: no length field makes the framer hold more bytes than    *)
(* its buffer, no declared size or offset makes the count of outstanding     *)
(* bytes wrap, no missing line feed makes the reassembler outgrow MaxLen.    *)
TypeOK ==
    /\ pos \in 0..Len(stream.bytes)
    /\ rx.open \in {"open", "closed", "refused"}
    /\ rx.framer.types \subseteq Known
    /\ Len(rx.framer.buf) <= kFramerBufferSize
    /\ rx.left \in 0..Max({kMaxFileSize, kMaxCsvSize})
    /\ Len(rx.lines.fragment) <= MaxLen

Wire(item) == IF item.type = 0 THEN <<item.byte>> ELSE Encode(item)

Encoded(items) == FlattenSeq([i \in DOMAIN items |-> Wire(items[i])])

Honest == stream.bytes = Encoded(stream.items)

\* More bytes than the messages and the payload the receiver accepted.
Overrun ==
    rx.stage = "Analyzing" /\ pos > Len(FlattenSeq([i \in DOMAIN rx.got |-> Wire(rx.got[i])]))

(* However the stream is cut into reads, and whatever an earlier connection  *)
(* left behind, the receiver stands where it would stand had everything so  *)
(* far come in one read: partial messages and lines are kept, remainders    *)
(* handed on (Framer::feed(), onRead(), onBytes(), LineReassembler::feed()). *)
(* The exception is a peer that talks on behind the trailer: those bytes    *)
(* close the session or are dropped, as the read falls (Session.cpp:163).   *)
CutsDoNotMatter ==
    ~Overrun => rx = Given(<<Start(stream), SubSeq(stream.bytes, 1, pos)>>, LAMBDA a :
                           Stages(a[1], a[2]))

\* The bytes of an item with the reserved ones marked -1.
Unreserved(item) ==
    IF item.type = 0 THEN Wire(item) ELSE ReplaceAt(ReplaceAt(Wire(item), 7, -1), 8, -1)

(* Whatever bytes arrive, the accepted messages and payload, encoded again, *)
(* are the bytes at the front of the stream, the two reserved bytes of each  *)
(* preamble aside: decode() neither invents nor drops nor shifts a field.   *)
NothingInvented ==
    \A seen \in {FlattenSeq([i \in DOMAIN rx.got |-> Unreserved(rx.got[i])])} :
        /\ Len(seen) <= pos
        /\ \A i \in DOMAIN seen : seen[i] \in {-1, stream.bytes[i]}

\* The limits of the protocol, whoever enforces them.
Lawful(m) ==
    /\ m.type \in Named => /\ m.fileSize <= kMaxFileSize
                           /\ Len(m.filename) \in 1..kMaxFilenameLen
                           /\ Range(m.filename) \cap Forbidden = {}
    /\ m.type = ResultRequest => m.startOffset <= kMaxCsvSize
    /\ m.type = ResultHeader => m.csvSize <= kMaxCsvSize
    /\ m.type = Ack => m.status \in 0..NoSuchResult

(* A peer that keeps to the protocol is understood: everything it sent has  *)
(* been accepted once the last byte has arrived, every Ack status included.  *)
LegalArrives ==
    (Honest /\ \A i \in DOMAIN stream.items :
                /\ Lawful(stream.items[i])
                /\ stream.items[i].type = UploadTrailer => i = Len(stream.items))
        => /\ IsPrefix(rx.got, stream.items)
           /\ pos = Len(stream.bytes) => rx.got = stream.items

\* The payload an upload has delivered so far.
Payload == LET data == SelectSeq(rx.got, LAMBDA item : item.type = 0)
           IN  [i \in DOMAIN data |-> data[i].byte]

Uploading == stream.stage \in {"WaitHeader", "Receiving"}

(* Chunk boundaries do not show: the lines handed to the parser are those of *)
(* the whole upload so far, each once, in order, with its offset, over-long  *)
(* ones reported once, and nothing of an earlier upload (feed, finish, reset). *)
LinesOfTheStream ==
    Uploading => rx.lines.emitted =
        Given(Payload, LAMBDA data : Lines!LinesOf(data, rx.stage = "Analyzing"))

=============================================================================
