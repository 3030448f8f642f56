------------------------------- MODULE Codec -------------------------------
(* The wire format: protocol.h, Codec.cpp.                                  *)
(* Offsets, field widths, message types and status codes are the code's; a  *)
(* byte has Base values instead of 256 and the limits are constants, so that *)
(* a length field can still hold more than its limit.  Messages are records; *)
(* a filename is its sequence of bytes.                                     *)
EXTENDS Integers, Sequences, SequencesExt

CONSTANTS
    Base,               \* number of values of a byte
    kMagic,             \* the four magic bytes
    kProtocolVersion,
    kMaxFilenameLen,
    kMaxFileSize,
    kMaxCsvSize,
    Forbidden           \* bytes a filename may not hold: control codes, / and \

ASSUME CodecAssumption ==
    /\ Base \in Nat /\ Base > 7
    /\ kMagic \in Seq(0..Base - 1) /\ Len(kMagic) = 4
    /\ kProtocolVersion \in 0..Base - 1
    /\ kMaxFilenameLen \in 1..Base * Base - 1
    /\ kMaxFileSize \in Nat /\ kMaxCsvSize \in Nat
    /\ Forbidden \subseteq 0..Base - 1

Byte == 0..Base - 1

UploadHeader  == 1
UploadTrailer == 2
Ack           == 3
ResultHeader  == 4
DownloadDone  == 5
ResultRequest == 7      \* 6 is reserved for a heartbeat

NoSuchResult == 5       \* the last AckStatus

kOffsetVersion == 4
kOffsetType == 5
kPreambleSize == 8
kUploadHeaderFixedSize == kPreambleSize + 8 + 2
kUploadTrailerSize == kPreambleSize + 4
kAckSize == kPreambleSize + 1 + 8
kResultHeaderSize == kPreambleSize + 8 + 4
kDownloadDoneSize == kPreambleSize
kResultRequestFixedSize == kPreambleSize + 8 + 4 + 8 + 2
kUploadHeaderMaxSize == kUploadHeaderFixedSize + kMaxFilenameLen
kResultRequestMaxSize == kResultRequestFixedSize + kMaxFilenameLen

-----------------------------------------------------------------------------
(* Big-endian integers of w bytes; offsets count from 0 as in the code.     *)

\* Faulty variant: the low byte first.
PutLittleEndian(v, w) == [i \in 1..w |-> (v \div Base ^ (i - 1)) % Base]

Put(v, w) == [i \in 1..w |-> (v \div Base ^ (w - i)) % Base]

Get(buf, off, w) ==
    LET v[i \in 0..w] == IF i = 0 THEN 0 ELSE v[i - 1] * Base + buf[off + i] IN v[w]

byteAt(buf, off) == buf[off + 1]

-----------------------------------------------------------------------------
(* Encoding: nothing is validated here.                                     *)

Preamble(type) == kMagic \o <<kProtocolVersion, type, 0, 0>>

\* The length of a name is cast to 16 bits; Put keeps the low two bytes.
EncodeUploadHeader(m) ==
    Preamble(UploadHeader) \o Put(m.fileSize, 8) \o Put(Len(m.filename), 2) \o m.filename

EncodeUploadTrailer(m) == Preamble(UploadTrailer) \o Put(m.crc32, 4)

EncodeAck(m) == Preamble(Ack) \o <<m.status>> \o Put(m.receivedBytes, 8)

EncodeResultHeader(m) == Preamble(ResultHeader) \o Put(m.csvSize, 8) \o Put(m.crc32, 4)

EncodeResultRequest(m) ==
    Preamble(ResultRequest) \o Put(m.fileSize, 8) \o Put(m.crc32, 4)
        \o Put(m.startOffset, 8) \o Put(Len(m.filename), 2) \o m.filename

Encode(m) ==
    CASE m.type = UploadHeader  -> EncodeUploadHeader(m)
      [] m.type = UploadTrailer -> EncodeUploadTrailer(m)
      [] m.type = Ack           -> EncodeAck(m)
      [] m.type = ResultHeader  -> EncodeResultHeader(m)
      [] m.type = ResultRequest -> EncodeResultRequest(m)
      [] m.type = DownloadDone  -> Preamble(DownloadDone)

-----------------------------------------------------------------------------
(* Decoding.  A result is [status, msg]; msg counts when status is "Ok".    *)

\* The part common to checkPreamble() and expectedMessageSize().
PreambleStatus(buf, types) ==
    CASE Len(buf) < kPreambleSize                        -> "NeedMoreData"
      [] SubSeq(buf, 1, 4) # kMagic                      -> "BadMagic"
      [] byteAt(buf, kOffsetVersion) # kProtocolVersion  -> "BadVersion"
      [] byteAt(buf, kOffsetType) \notin types           -> "BadType"
      [] OTHER                                           -> "Ok"

isValidFilename(name) ==
    /\ Len(name) \in 1..kMaxFilenameLen
    /\ \A i \in DOMAIN name : name[i] \notin Forbidden

Known == {UploadHeader, UploadTrailer, Ack, ResultHeader, DownloadDone, ResultRequest}

\* Where the whole size of a message becomes known.
FixedSize(type) ==
    CASE type = UploadHeader  -> kUploadHeaderFixedSize
      [] type = UploadTrailer -> kUploadTrailerSize
      [] type = Ack           -> kAckSize
      [] type = ResultHeader  -> kResultHeaderSize
      [] type = DownloadDone  -> kDownloadDoneSize
      [] type = ResultRequest -> kResultRequestFixedSize

Named == {UploadHeader, ResultRequest}      \* messages that end in a filename

expectedMessageSize(buf) ==
    LET pre   == PreambleStatus(buf, Known)
        type  == byteAt(buf, kOffsetType)
        fixed == FixedSize(type)
    IN  CASE pre # "Ok"                             -> [status |-> pre, size |-> 0]
          [] type \notin Named                      -> [status |-> "Ok", size |-> fixed]
          [] type \in Named /\ Len(buf) < fixed     -> [status |-> "NeedMoreData", size |-> 0]
          [] OTHER -> [status |-> "Ok", size |-> fixed + Get(buf, fixed - 2, 2)]

\* The bytes after the fixed part, as long as the length field says.
NameOf(buf, fixed) == SubSeq(buf, fixed + 1, fixed + Get(buf, fixed - 2, 2))

Decoded(type, buf) ==
    CASE type = UploadHeader ->
            [type |-> type, fileSize |-> Get(buf, 8, 8), filename |-> NameOf(buf, 18)]
      [] type = UploadTrailer -> [type |-> type, crc32 |-> Get(buf, 8, 4)]
      [] type = Ack ->
            [type |-> type, status |-> byteAt(buf, 8), receivedBytes |-> Get(buf, 9, 8)]
      [] type = ResultHeader ->
            [type |-> type, csvSize |-> Get(buf, 8, 8), crc32 |-> Get(buf, 16, 4)]
      [] type = ResultRequest ->
            [type |-> type, fileSize |-> Get(buf, 8, 8), crc32 |-> Get(buf, 16, 4),
             startOffset |-> Get(buf, 20, 8), filename |-> NameOf(buf, 30)]
      [] type = DownloadDone -> [type |-> type]

\* Faulty variant: the bound not moved when NO_SUCH_RESULT was added.
StatusDefinedOld(status) == status < NoSuchResult

StatusDefined(status) == status <= NoSuchResult

\* The value checks of the decode() overloads.
ValuesInRange(m) ==
    CASE m.type = UploadHeader  -> m.fileSize <= kMaxFileSize /\ isValidFilename(m.filename)
      [] m.type = Ack           -> StatusDefined(m.status)
      [] m.type = ResultRequest -> /\ m.fileSize <= kMaxFileSize
                                   /\ m.startOffset <= kMaxCsvSize
                                   /\ isValidFilename(m.filename)
      [] OTHER                  -> TRUE

decode(type, buf) ==
    LET pre   == PreambleStatus(buf, {type})
        fixed == FixedSize(type)
        whole == type \notin Named \/ Len(buf) >= fixed + Get(buf, fixed - 2, 2)
    IN  CASE pre # "Ok"                         -> [status |-> pre, msg |-> [type |-> 0]]
          [] pre = "Ok" /\ ~(Len(buf) >= fixed /\ whole)
                                                -> [status |-> "NeedMoreData", msg |-> [type |-> 0]]
          [] OTHER -> IF ValuesInRange(Decoded(type, buf))
                      THEN [status |-> "Ok", msg |-> Decoded(type, buf)]
                      ELSE [status |-> "BadValue", msg |-> [type |-> 0]]
=============================================================================
