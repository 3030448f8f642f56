-------------------------- MODULE LineReassembler --------------------------
(***************************************************************************)
(* server/src/parser/LineReassembler: the ring's chunks cut a log at        *)
(* arbitrary places; feed() puts its lines together again, finish() emits   *)
(* what is left at the end of the upload, reset() serves the next session.  *)
(* Operators on the reassembler's members; emitted is what onLine was given *)
(* since the last reset().                                                  *)
(***************************************************************************)
EXTENDS Integers, Sequences, SequencesExt, Eager

CONSTANTS CR, LF,      \* the bytes '\r' and '\n'
          MaxLen       \* _maxLen

empty == [fragment |-> <<>>, lineStart |-> 0, discarding |-> FALSE, streamOffset |-> 0,
          emitted |-> <<>>]

reset(ra) == empty
-----------------------------------------------------------------------------
StripCR(text) == IF text # <<>> /\ Last(text) = CR THEN Front(text) ELSE text

emitLine(ra, text, tooLong) ==
    [ra EXCEPT !.emitted = Append(@, [text |-> IF tooLong THEN text ELSE StripCR(text),
                                      offset |-> ra.lineStart, tooLong |-> tooLong]),
               !.fragment = <<>>]

\* No line feed in the rest of the chunk: keep it, or report and start discarding.
appendTail(ra, tail) ==
    IF Len(ra.fragment) + Len(tail) > MaxLen
    THEN [emitLine(ra, ra.fragment \o SubSeq(tail, 1, MaxLen - Len(ra.fragment)), TRUE)
            EXCEPT !.discarding = TRUE]
    ELSE [ra EXCEPT !.fragment = @ \o tail]

\* Faulty variant: the limit is applied to the piece, not to the whole line.
completeLineByPiece(ra, piece) ==
    IF Len(piece) > MaxLen
    THEN emitLine(ra, SubSeq(piece, 1, MaxLen), TRUE)
    ELSE emitLine(ra, ra.fragment \o piece, FALSE)

\* A line feed: the line is the fragment, if any, and the piece before it.
completeLine(ra, piece) ==
    IF Len(ra.fragment) + Len(piece) > MaxLen
    THEN emitLine(ra, ra.fragment \o SubSeq(piece, 1, MaxLen - Len(ra.fragment)), TRUE)
    ELSE emitLine(ra, ra.fragment \o piece, FALSE)

\* feed() on the part of the chunk from pos on; streamOffset is base + pos.
RECURSIVE feed(_, _)
feed(ra, chunk) ==
    LET nl   == SelectInSeq(chunk, LAMBDA b : b = LF)
        rest == SubSeq(chunk, nl + 1, Len(chunk))
    IN  IF chunk = <<>> THEN ra
        ELSE IF nl = 0
        THEN [(IF ra.discarding THEN ra ELSE appendTail(ra, chunk))
                EXCEPT !.streamOffset = @ + Len(chunk)]
        ELSE Given(<<[(IF ra.discarding THEN ra ELSE completeLine(ra, SubSeq(chunk, 1, nl - 1)))
                        EXCEPT !.discarding = FALSE,
                               !.streamOffset = @ + nl,
                               !.lineStart = ra.streamOffset + nl], rest>>,
                   LAMBDA a : feed(a[1], a[2]))

finish(ra) ==
    [(IF ~ra.discarding /\ ra.fragment # <<>> THEN emitLine(ra, ra.fragment, FALSE) ELSE ra)
       EXCEPT !.fragment = <<>>, !.discarding = FALSE]
-----------------------------------------------------------------------------
\* Reference: the lines of a stream, cut at its line feeds without regard to
\* chunks.  An over-long one is its first MaxLen bytes; the last one counts when
\* it is over-long already, or when the stream has ended and it is not empty.
LinesOf(s, ended) ==
    LET starts == SelectSeq([i \in 1 .. Len(s) + 1 |-> i - 1], LAMBDA p : p = 0 \/ s[p] = LF)
        complete(k) == k < Len(starts)
        raw(k) == SubSeq(s, starts[k] + 1, IF complete(k) THEN starts[k + 1] - 1 ELSE Len(s))
        line(k) == [text |-> IF Len(raw(k)) > MaxLen THEN SubSeq(raw(k), 1, MaxLen)
                             ELSE StripCR(raw(k)),
                    offset |-> starts[k], tooLong |-> Len(raw(k)) > MaxLen]
        counts(k) == complete(k) \/ Len(raw(k)) > MaxLen \/ (ended /\ raw(k) # <<>>)
    IN  SelectSeq([k \in 1 .. Len(starts) |-> IF counts(k) THEN line(k) ELSE <<>>],
                  LAMBDA l : l # <<>>)
=============================================================================
