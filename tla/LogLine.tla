------------------------------ MODULE LogLine ------------------------------
(* The verdict on one log line: LogLineParser.cpp.                          *)
(* A line is a record.  text is its sequence of lexemes: "[", "]", " ", ",", *)
(* "BYDA" (the separator " BYDA::"), ": " (a colon and a space), ":" (a colon *)
(* with something else behind it), names, and values by what the number      *)
(* parsers make of them: "int" (digits within int64), "big" (digits beyond   *)
(* it), "real" (another finite number, worth line.spd), "inf" and anything   *)
(* else.  "ts" is a timestamp of the right shape, worth line.ts.  Spaces     *)
(* only, control characters and excess length are flags of the line.        *)
EXTENDS Integers, Sequences, FiniteSets, SequencesExt, Eager

CONSTANTS
    kTsRangeHours,      \* half width of the window around the first valid line
    kSpdMax             \* speeds from 0 up to this one enter the average

ASSUME LogLineAssumption == kTsRangeHours \in Nat /\ kSpdMax \in Nat \ {0}

\* The names in alphabetical order, and the fields each module's lines are
\* checked for: integers, and one transition "d->d".
Modules == <<"AntennaProfileSpec", "BeamSteerCtrlUnitImpl", "DetectionTaskRunner",
             "RadarTrackNodeState", "SectorSchedulerRTS">>
BeamSteer == Modules[2]

kModules ==
    [m \in Range(Modules) |->
        CASE m = "RadarTrackNodeState" -> [ints |-> <<"nodeUID", "rfLane">>, arrow |-> "lockState"]
          [] m = "AntennaProfileSpec"  -> [ints |-> <<"sectorID">>, arrow |-> ""]
          [] m = BeamSteer             -> [ints |-> <<"unitAddr">>, arrow |-> ""]
          [] m = "DetectionTaskRunner" -> [ints |-> <<"jobID">>, arrow |-> ""]
          [] m = "SectorSchedulerRTS"  -> [ints |-> <<"jobID", "gatedFlag">>, arrow |-> ""]]

-----------------------------------------------------------------------------
(* Numbers.                                                                 *)

\* "" when the token is an integer, else why not; digits that overflow are
\* reported as such whatever follows them.
parseInt64Field(token) ==
    CASE token = <<"int">>                    -> ""
      [] token # <<>> /\ token[1] = "big"     -> "NUM_OUT_OF_RANGE"
      [] OTHER                                -> "BAD_NUMBER"

parseDoubleField(token) == token \in {<<"int">>, <<"big">>, <<"real">>}

isArrowPair(token) ==
    Len(token) = 3 /\ token[2] = "->" /\ {token[1], token[3]} \subseteq {"int", "big"}

\* The speed a token stands for.
Speed(token, line) ==
    CASE token = <<"int">> -> 1 [] token = <<"big">> -> kSpdMax [] OTHER -> line.spd

-----------------------------------------------------------------------------
(* The calendar.  A timestamp is <<year, month, day, hour, minute, second>>; *)
(* seconds since the epoch are kept as days and the seconds of the day.     *)

\* Faulty variant: the years counted from January.
daysFromCivilJanuary(y, m, d) ==
    LET era == y \div 400
        yoe == y - era * 400
        doy == (153 * (m + (IF m > 2 THEN -3 ELSE 9)) + 2) \div 5 + d - 1
    IN  era * 146097 + yoe * 365 + yoe \div 4 - yoe \div 100 + doy - 719468

daysFromCivil(y, m, d) ==
    LET yy  == IF m <= 2 THEN y - 1 ELSE y
        era == yy \div 400
        yoe == yy - era * 400
        doy == (153 * (m + (IF m > 2 THEN -3 ELSE 9)) + 2) \div 5 + d - 1
    IN  era * 146097 + yoe * 365 + yoe \div 4 - yoe \div 100 + doy - 719468

isLeapYear(y) == (y % 4 = 0 /\ y % 100 # 0) \/ y % 400 = 0

daysInMonth(y, m) ==
    IF m = 2 /\ isLeapYear(y) THEN 29
    ELSE <<31, 28, 31, 30, 31, 30, 31, 31, 30, 31, 30, 31>>[m]

validTimestamp(ts) ==
    /\ ts[2] \in 1..12 /\ ts[3] \in 1..daysInMonth(ts[1], ts[2])
    /\ ts[4] <= 23 /\ ts[5] <= 59 /\ ts[6] <= 59

absSeconds(ts) ==
    [day |-> daysFromCivil(ts[1], ts[2], ts[3]), sec |-> ts[4] * 3600 + ts[5] * 60 + ts[6]]

delta(a, b) == (a.day - b.day) * 86400 + a.sec - b.sec

inWindow(abs, anchor) ==
    LET limit == kTsRangeHours * 3600
    IN  delta(abs, anchor) <= limit /\ delta(abs, anchor) >= -limit

-----------------------------------------------------------------------------
(* Structure.                                                               *)

\* The first "]" at or behind from, 0 when there is none.
Close(text, from) == SelectInSubSeq(text, from, Len(text), LAMBDA x : x = "]")

\* The four header fields in brackets, one after the other.
headerTokens(text) ==
    Given(SelectSeq([i \in DOMAIN text |-> i], LAMBDA i : text[i] = "]"), LAMBDA closes :
        LET open(k) == IF k = 1 THEN 1 ELSE closes[k - 1] + 1
        IN  IF /\ Len(closes) >= 4
               /\ \A k \in 1..4 : text[open(k)] = "[" /\ closes[k] > open(k) + 1
            THEN [ok |-> TRUE, pos |-> closes[4] + 1,
                  tokens |-> [k \in 1..4 |-> SubSeq(text, open(k) + 1, closes[k] - 1)]]
            ELSE [ok |-> FALSE, pos |-> 1, tokens |-> <<>>])

\* [ok, tokens, module, message]: the line cut at its separators.
frame(text) ==
    Given(headerTokens(text), LAMBDA header :
        LET start  == header.pos + 1
            colon  == SelectInSubSeq(text, start, Len(text), LAMBDA x : x \in {":", ": "})
        IN  IF /\ header.ok
               /\ header.pos <= Len(text) /\ text[header.pos] = "BYDA"
               /\ colon > start /\ text[colon] = ": "
            THEN [ok |-> TRUE, tokens |-> header.tokens, module |-> SubSeq(text, start, colon - 1),
                  message |-> SubSeq(text, colon + 1, Len(text))]
            ELSE [ok |-> FALSE, tokens |-> <<>>, module |-> <<>>, message |-> <<>>])

\* Brackets come in pairs, are not nested and not empty.
bracketsSane(message) ==
    LET brackets == SelectSeq(message, LAMBDA x : x \in {"[", "]"})
    IN  /\ Len(brackets) % 2 = 0
        /\ \A i \in DOMAIN brackets : brackets[i] = IF i % 2 = 1 THEN "[" ELSE "]"
        /\ ~\E i \in 1..Len(message) - 1 : message[i] = "[" /\ message[i + 1] = "]"

\* Where name starts a word and is followed by a bracket, first of all; 0 if nowhere.
FieldAt(message, name) ==
    LET at == {i \in 1..Len(message) - 1 :
                /\ message[i] = name /\ message[i + 1] = "["
                /\ i = 1 \/ message[i - 1] \in {" ", ",", ":", ": "}}
    IN  IF at = {} THEN 0 ELSE CHOOSE i \in at : \A j \in at : i <= j

hasField(message, name) == FieldAt(message, name) # 0

findField(message, name) ==
    LET open == FieldAt(message, name) + 1 IN SubSeq(message, open + 1, Close(message, open) - 1)

-----------------------------------------------------------------------------
\* The first reason among these that is not "".
FirstOf(reasons) ==
    LET found == SelectSeq(reasons, LAMBDA r : r # "") IN IF found = <<>> THEN "" ELSE found[1]

Int64IfPresent(message, name) ==
    IF hasField(message, name) THEN parseInt64Field(findField(message, name)) ELSE ""

DoubleIfPresent(message, name) ==
    IF hasField(message, name) /\ ~parseDoubleField(findField(message, name))
    THEN "BAD_NUMBER" ELSE ""

\* Stage 4 behind the brackets: what the module's own fields have against the line.
moduleFields(module, message) ==
    LET spec == kModules[module]
    IN  FirstOf([i \in DOMAIN spec.ints |-> Int64IfPresent(message, spec.ints[i])]
                \o <<IF /\ spec.arrow # "" /\ hasField(message, spec.arrow)
                        /\ ~isArrowPair(findField(message, spec.arrow))
                     THEN "BAD_NUMBER" ELSE "">>
                \o IF module = BeamSteer
                   THEN <<DoubleIfPresent(message, "spd"), DoubleIfPresent(message, "advDelta")>>
                   ELSE <<>>)

\* The reason to skip the line framed as f, "" for none.  anchor holds at most one time.
verdict(line, f, anchor) ==
    LET numbers == FirstOf([i \in 1..3 |-> parseInt64Field(f.tokens[i + 1])])
    IN  IF line.tooLong THEN "LINE_TOO_LONG"
        ELSE IF line.blank THEN "EMPTY"
        ELSE IF line.ctrl THEN "CTRL_CHAR"
        ELSE IF ~f.ok THEN "BAD_FRAME"
        ELSE IF f.tokens[1] # <<"ts">> \/ ~validTimestamp(line.ts) THEN "BAD_TIMESTAMP"
        ELSE IF \E a \in anchor : ~inWindow(absSeconds(line.ts), a) THEN "TS_OUT_OF_RANGE"
        ELSE IF numbers # "" THEN numbers
        ELSE IF ~bracketsSane(f.message) THEN "BAD_BRACKET"
        ELSE IF f.module \notin {<<m>> : m \in DOMAIN kModules} THEN "UNKNOWN_MODULE"
        ELSE moduleFields(f.module[1], f.message)

\* LogLineParser::parse(): the verdict, the anchor afterwards, and the parsed line.
parse(line, anchor) ==
    Given(frame(line.text), LAMBDA f :
        LET reason == verdict(line, f, anchor)
            hasSpd == f.module = <<BeamSteer>> /\ hasField(f.message, "spd")
            spd    == Speed(findField(f.message, "spd"), line)
            inRange == hasSpd /\ spd >= 0 /\ spd < kSpdMax
        IN  [reason |-> reason,
             anchor |-> IF reason = "" /\ anchor = {} THEN {absSeconds(line.ts)} ELSE anchor,
             module |-> f.module, ts |-> line.ts, hasSpd |-> hasSpd,
             spdInRange |-> inRange, spd |-> IF inRange THEN spd ELSE 0])
=============================================================================
