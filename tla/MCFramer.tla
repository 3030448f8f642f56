------------------------------ MODULE MCFramer ------------------------------
EXTENDS Framer

MCMagic == <<2, 1, 4, 3>>

Names == {<<5>>, <<5, 6>>}
Header(n, name) == [type |-> UploadHeader, fileSize |-> n, filename |-> name]
Request(n, at, name) ==
    [type |-> ResultRequest, fileSize |-> n, crc32 |-> 4095, startOffset |-> at, filename |-> name]
Trailer == [type |-> UploadTrailer, crc32 |-> 517]
AckOf(status) == [type |-> Ack, status |-> status, receivedBytes |-> 70]
ResultOf(n) == [type |-> ResultHeader, csvSize |-> n, crc32 |-> 1]

\* A payload that begins like a message.
FirstBytes(n) == [i \in 1..n |-> Data(kMagic[i])]

Talk(stage, have, items) ==
    Given(items, LAMBDA i : [stage |-> stage, have |-> have, items |-> i, bytes |-> Encoded(i)])

Legal ==
    {Talk("WaitHeader", 0, <<Header(n, name)>> \o FirstBytes(n) \o <<Trailer>>) :
        n \in 0..3, name \in Names}
    \cup {Talk("WaitHeader", 0, <<Request(n, at, name)>>) :
        n \in {0, kMaxFileSize}, at \in {0, kMaxCsvSize}, name \in Names}
    \cup {Talk("WaitDone", 0, <<[type |-> DownloadDone]>>)}
    \cup {Talk("Ack", 0, <<AckOf(0), ResultOf(n)>> \o FirstBytes(n)) : n \in 0..kMaxCsvSize}
    \cup {Talk(stage, 0, <<AckOf(status)>>) : stage \in {"Ack", "ResumeReply"}, status \in 1..5}
    \cup {Talk("ResumeReply", have, <<ResultOf(kMaxCsvSize)>> \o FirstBytes(kMaxCsvSize - have)) :
        have \in 0..kMaxCsvSize}

\* Every payload of up to kMaxFileSize bytes, line ends included, from the header on.
Texts ==
    UNION {{Talk("Receiving", n, [i \in 1..n |-> Data(text[i])] \o <<Trailer>>) :
            text \in [1..n -> {2, CR, LF}]} : n \in 0..kMaxFileSize}

\* Values beyond the limits, as a peer of another version could send them.
Illegal ==
    {Talk("WaitHeader", 0, <<Header(kMaxFileSize + 1, <<5>>)>>),
     Talk("WaitHeader", 0, <<Header(1, <<5, 0>>), Data(2)>>),
     Talk("WaitHeader", 0, <<Header(1, <<>>), Data(2)>>),
     Talk("WaitHeader", 0, <<Request(1, kMaxCsvSize + 1, <<5>>)>>),
     Talk("WaitHeader", 0, <<Header(1, <<5>>), Data(2), Trailer, Data(2)>>),
     Talk("Ack", 0, <<AckOf(6)>>),
     Talk("Ack", 0, <<AckOf(0), ResultOf(kMaxCsvSize + 1), Data(2)>>)}
    \cup {Talk("WaitHeader", 0, <<Header(1, [i \in 1..n |-> 5])>>) : n \in {3, 14, 15, 63}}
    \cup {Talk("WaitHeader", 0, <<Request(1, 0, [i \in 1..n |-> 5])>>) : n \in {3, 63}}

\* One byte of a conversation replaced.
Damaged ==
    UNION {{[s EXCEPT !.bytes[i] = b] : i \in DOMAIN s.bytes, b \in {0, 1, 3, 6, 7}} :
            s \in {Talk("WaitHeader", 0, <<Header(1, <<5>>), Data(2), Trailer>>),
                   Talk("WaitHeader", 0, <<Request(1, 1, <<5>>)>>),
                   Talk("WaitDone", 0, <<[type |-> DownloadDone]>>),
                   Talk("ResumeReply", 1, <<ResultOf(2), Data(2)>>),
                   Talk("ResumeReply", 1, <<AckOf(5)>>)}}

MCStreams == Legal \cup Texts \cup Illegal \cup Damaged
=============================================================================
