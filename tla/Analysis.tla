------------------------------ MODULE Analysis ------------------------------
(* The parser thread's bookkeeping, line by line, and what the client reads  *)
(* out of the result: StatsCollector.cpp, SkipReporter.cpp, CsvBuilder.cpp,  *)
(* the line callback, finishSession() and resetSessionState() of             *)
(* ParserThread.cpp, and ResultSummary.cpp.  A CSV is its sequence of rows.  *)
EXTENDS LogLine, FiniteSetsExt, TLC

CONSTANTS
    Pools,                  \* sets of lines; a log takes its lines from one of them
    MaxLines,               \* bound: lines of all sessions together
    MaxSessions,            \* bound: sessions begun; the last takes no line
    kMaxStatsEntries,
    kMaxUnknownModules,
    kMaxSkipSamples,
    UnknownNames,           \* names of no module, in alphabetical order
    LongNames,              \* those that agree in their first kMaxModuleNameBytes bytes
    kFraction               \* 10 ^ (digits behind the point of avg_speed)

VARIABLES
    pool,           \* where this log's lines come from
    anchor,         \* LogLineParser: the time of the first valid line, if any
    stats,          \* StatsCollector
    reporter,       \* SkipReporter
    totalLines,
    seen,           \* history: the lines of this session, each with its verdict
    published,      \* the last finished session: rows, report, and its history
    sessions,       \* sessions begun
    fed             \* lines fed in all sessions

session == <<anchor, stats, reporter, totalLines, seen>>
vars == <<pool, session, published, sessions, fed>>

\* skipReasonCode(): in alphabetical order.
Reasons == <<"BAD_BRACKET", "BAD_FRAME", "BAD_NUMBER", "BAD_TIMESTAMP", "CTRL_CHAR", "EMPTY",
             "LINE_TOO_LONG", "MAP_LIMIT", "NUM_OUT_OF_RANGE", "TS_OUT_OF_RANGE",
             "UNKNOWN_MODULE">>

Rank(names, x) == CHOOSE i \in DOMAIN names : names[i] = x

\* The sum of a function's values.
SumOf(f) == MapThenSumSet(LAMBDA x : f[x], DOMAIN f)

\* A map with one more at x.
Bump(f, x) == IF x \in DOMAIN f THEN [f EXCEPT ![x] = @ + 1] ELSE f @@ (x :> 1)

-----------------------------------------------------------------------------
(* StatsCollector.  buckets maps <<module, hour key>> to a count.           *)

emptyStats == [buckets |-> <<>>, valid |-> 0, excluded |-> 0, missing |-> 0, spdSum |-> 0]

makeHourKey(ts) == ts[1] * 1000000 + ts[2] * 10000 + ts[3] * 100 + ts[4]

hasRoom(s, key) == key \in DOMAIN s.buckets \/ Cardinality(DOMAIN s.buckets) < kMaxStatsEntries

countSpeed(s, p) ==
    CASE p.hasSpd /\ p.spdInRange  -> [s EXCEPT !.spdSum = @ + p.spd, !.valid = @ + 1]
      [] p.hasSpd /\ ~p.spdInRange -> [s EXCEPT !.excluded = @ + 1]
      [] OTHER -> IF p.module[1] = BeamSteer THEN [s EXCEPT !.missing = @ + 1] ELSE s

\* Faulty variant: the sample is taken before the limit is looked at.
recordStatsSampleFirst(s, p) ==
    LET key == <<p.module[1], makeHourKey(p.ts)>>
        t   == countSpeed(s, p)
    IN  IF hasRoom(s, key) THEN [ok |-> TRUE, stats |-> [t EXCEPT !.buckets = Bump(@, key)]]
        ELSE [ok |-> FALSE, stats |-> t]

\* StatsCollector::record(): a new key is refused at the limit, an old one counts on.
recordStats(s, p) ==
    LET key == <<p.module[1], makeHourKey(p.ts)>>
    IN  IF hasRoom(s, key)
        THEN [ok |-> TRUE, stats |-> [countSpeed(s, p) EXCEPT !.buckets = Bump(@, key)]]
        ELSE [ok |-> FALSE, stats |-> s]

-----------------------------------------------------------------------------
(* SkipReporter.                                                            *)

emptyReporter ==
    [total |-> 0, counts |-> [r \in Range(Reasons) |-> 0], unknown |-> <<>>, unlisted |-> 0,
     samples |-> <<>>]

\* A name as the report keeps it.
Listed(name) == IF name \in LongNames THEN "(cut)" ELSE name

\* Faulty variant: at the limit no name counts on.
recordUnknownModuleFull(rep, name) ==
    IF Cardinality(DOMAIN rep.unknown) < kMaxUnknownModules
    THEN [rep EXCEPT !.unknown = Bump(@, Listed(name))]
    ELSE [rep EXCEPT !.unlisted = @ + 1]

recordUnknownModule(rep, name) ==
    IF Listed(name) \in DOMAIN rep.unknown \/ Cardinality(DOMAIN rep.unknown) < kMaxUnknownModules
    THEN [rep EXCEPT !.unknown = Bump(@, Listed(name))]
    ELSE [rep EXCEPT !.unlisted = @ + 1]

\* SkipReporter::record(); offset is the number of the line.
recordSkip(rep, reason, offset, module) ==
    LET r == [rep EXCEPT !.total = @ + 1, !.counts[reason] = @ + 1,
                         !.samples = IF Len(@) < kMaxSkipSamples
                                     THEN Append(@, [reason |-> reason, offset |-> offset]) ELSE @]
    IN  IF reason = "UNKNOWN_MODULE" THEN recordUnknownModule(r, module[1]) ELSE r

\* writeReport(): names by falling count, and how much is not shown.
writeReport(rep) ==
    [total |-> rep.total, counts |-> rep.counts,
     names |-> SortSeq(SelectSeq(UnknownNames, LAMBDA n : n \in DOMAIN rep.unknown),
                       LAMBDA a, b : \/ rep.unknown[a] > rep.unknown[b]
                                     \/ /\ rep.unknown[a] = rep.unknown[b]
                                        /\ Rank(UnknownNames, a) < Rank(UnknownNames, b)),
     lines |-> rep.unknown, unlisted |-> rep.unlisted,
     samples |-> rep.samples, more |-> rep.total - Len(rep.samples)]

-----------------------------------------------------------------------------
(* CsvBuilder.  A row is its name, the code or hour behind it, and a value. *)

Row(name, value) == [name |-> name, code |-> "", hour |-> 0, value |-> value]

\* The average sum/n as the code writes it, in units of the last digit.
formatFixed6(sum, n) ==
    LET whole    == sum \div n
        micros   == ((sum % n) * kFraction * 2 + n) \div (2 * n)
        integral == IF micros >= kFraction THEN whole + 1 ELSE whole
    IN  IF n = 0 \/ sum = 0 THEN 0 ELSE integral * kFraction + (micros % kFraction)

\* The rows of one module, in this order of its hours.
RowsOf(s, m, hours) ==
    [i \in DOMAIN hours |-> [Row(m, s.buckets[<<m, hours[i]>>]) EXCEPT !.hour = hours[i]]]

HoursOf(s, m) == {k[2] : k \in {b \in DOMAIN s.buckets : b[1] = m}}

\* forEachBucket(): modules by name, hours ascending.
BucketRows(s) ==
    FlattenSeq([i \in DOMAIN Modules |->
        RowsOf(s, Modules[i], SetToSortSeq(HoursOf(s, Modules[i]), <))])

\* Faulty variant: the loop over the reasons ends one short.
OccurredShort(rep) == SelectSeq(Front(Reasons), LAMBDA r : rep.counts[r] > 0)

\* Reasons that occurred, in alphabetical order.
Occurred(rep) == SelectSeq(Reasons, LAMBDA r : rep.counts[r] > 0)

ReasonRows(rep) ==
    [i \in DOMAIN Occurred(rep) |->
        [Row("skip_reason_", rep.counts[Occurred(rep)[i]]) EXCEPT !.code = Occurred(rep)[i]]]

buildResultCsv(s, rep, lines) ==
    <<Row("module,hour,count", 0)>> \o BucketRows(s) \o
    <<Row("", 0),
      Row("metric,value", 0),
      Row("total_lines", lines),
      Row("avg_speed", formatFixed6(s.spdSum, s.valid)),
      Row("valid_spd_samples", s.valid),
      Row("excluded_spd_samples", s.excluded),
      Row("missing_spd_samples", s.missing),
      Row("skipped_lines", rep.total)>> \o ReasonRows(rep)

-----------------------------------------------------------------------------
(* ResultSummary, on the client.                                            *)

\* The rows behind "metric,value" up to an empty one or the end.
MetricBlock(rows) ==
    LET head == SelectInSeq(rows, LAMBDA r : r.name = "metric,value")
        tail == SubSeq(rows, head + 1, Len(rows))
        gap  == SelectInSeq(tail, LAMBDA r : r.name = "")
    IN  IF head = 0 THEN <<>> ELSE IF gap = 0 THEN tail ELSE SubSeq(tail, 1, gap - 1)

summarizeResultCsv(rows) ==
    LET block   == MetricBlock(rows)
        the(n)  == SelectSeq(block, LAMBDA r : r.name = n)
        reasons == the("skip_reason_")
        sum     == SumOf([i \in DOMAIN reasons |-> reasons[i].value])
    IN  [hasTotal |-> the("total_lines") # <<>>,
         totalLines |-> IF the("total_lines") = <<>> THEN 0 ELSE Last(the("total_lines")).value,
         skippedLines |-> IF the("skipped_lines") = <<>> THEN sum
                          ELSE Last(the("skipped_lines")).value,
         reasons |-> SortSeq(reasons, LAMBDA a, b :
                        \/ a.value > b.value
                        \/ a.value = b.value /\ Rank(Reasons, a.code) < Rank(Reasons, b.code))]

\* The warning under the result, empty when nothing was skipped; at most three reasons.
formatSkipWarning(summary) ==
    IF summary.skippedLines = 0 THEN <<>>
    ELSE <<[skipped |-> summary.skippedLines,
            of |-> IF summary.hasTotal THEN <<summary.totalLines>> ELSE <<>>,
            shown |-> SubSeq(summary.reasons, 1, Min({3, Len(summary.reasons)})),
            more |-> Max({0, Len(summary.reasons) - 3})]>>

-----------------------------------------------------------------------------
(* ParserThread.                                                            *)

Init ==
    /\ pool \in Pools
    /\ anchor = {} /\ stats = emptyStats /\ reporter = emptyReporter
    /\ totalLines = 0 /\ seen = <<>>
    /\ published = <<>> /\ sessions = 1 /\ fed = 0

\* The callback of consumeReadySlots() and finishSession() for one line.
Line(line) ==
    \E p \in {parse(line, anchor)} :
    LET counted == recordStats(stats, p)
        reason  == IF p.reason # "" THEN p.reason ELSE IF counted.ok THEN "" ELSE "MAP_LIMIT"
    IN  /\ fed < MaxLines /\ sessions < MaxSessions
        /\ fed' = fed + 1
        /\ totalLines' = totalLines + 1
        /\ anchor' = p.anchor
        /\ stats' = IF p.reason = "" THEN counted.stats ELSE stats
        /\ reporter' = IF reason = "" THEN reporter
                       ELSE recordSkip(reporter, reason, totalLines + 1, p.module)
        /\ seen' = Append(seen, [line |-> line, module |-> p.module, reason |-> reason])
        /\ UNCHANGED <<pool, published, sessions>>

\* Faulty variant: the skips of the last session stay.
resetSessionStateKeepsSkips ==
    /\ sessions < MaxSessions
    /\ sessions' = sessions + 1
    /\ anchor' = {} /\ stats' = emptyStats /\ totalLines' = 0 /\ seen' = <<>>
    /\ UNCHANGED reporter

resetSessionState ==
    /\ sessions < MaxSessions
    /\ sessions' = sessions + 1
    /\ anchor' = {} /\ stats' = emptyStats /\ reporter' = emptyReporter
    /\ totalLines' = 0 /\ seen' = <<>>

finishSession ==
    /\ published' = <<[rows |-> buildResultCsv(stats, reporter, totalLines),
                       report |-> writeReport(reporter), seen |-> seen]>>
    /\ resetSessionState
    /\ UNCHANGED <<pool, fed>>

\* _abortRequested seen by the loop.
abort ==
    /\ resetSessionState
    /\ UNCHANGED <<pool, published, fed>>

Next == (\E line \in pool : Line(line)) \/ finishSession \/ abort

Spec == Init /\ [][Next]_vars

-----------------------------------------------------------------------------
\* What the client was sent, if anything: its rows of one name, and their sum.
Rows(name) ==
    IF published = <<>> THEN <<>> ELSE SelectSeq(published[1].rows, LAMBDA r : r.name = name)
Value(name) == LET rows == Rows(name) IN SumOf([i \in DOMAIN rows |-> rows[i].value])

\* The lines of the published session that got this verdict.
Got(reason) == {i \in DOMAIN published[1].seen : published[1].seen[i].reason = reason}
LineAt(i) == published[1].seen[i].line
ModuleAt(i) == published[1].seen[i].module[1]

\* Timestamps compared field by field, down to the hour.
Earlier(a, b) == \E k \in 1..4 : a[k] < b[k] /\ \A j \in 1..k - 1 : a[j] = b[j]

\* The rows of module m are in the order of time, an hour once.
InOrder(m) ==
    \A i \in DOMAIN Rows(m), j \in DOMAIN Rows(m) :
        i < j => \A a \in Got(""), b \in Got("") :
                    (/\ ModuleAt(a) = m /\ makeHourKey(LineAt(a).ts) = Rows(m)[i].hour
                     /\ ModuleAt(b) = m /\ makeHourKey(LineAt(b).ts) = Rows(m)[j].hour)
                        => Earlier(LineAt(a).ts, LineAt(b).ts)

(* The CSV of a session tells of that session's lines and of no other: each *)
(* bucket row is the number of its lines of that module and hour, and every  *)
(* line is in one bucket or under one reason; the rows are at most           *)
(* kMaxStatsEntries and in the order of time (finishSession(),               *)
(* resetSessionState(), StatsCollector::record(), SkipReporter::record(),    *)
(* makeHourKey(), forEachBucket()).                                          *)
ResultIsOfItsSession ==
    published # <<>> =>
        /\ \A m \in Range(Modules) : InOrder(m)
        /\ Cardinality({i \in DOMAIN published[1].rows :
                            published[1].rows[i].name \in Range(Modules)}) <= kMaxStatsEntries
        /\ Value("total_lines") = Len(published[1].seen)
        /\ \A m \in Range(Modules) :
            /\ Value(m) = Cardinality({i \in Got("") : ModuleAt(i) = m})
            /\ \A r \in Range(Rows(m)) :
                r.value = Cardinality({i \in Got("") :
                            ModuleAt(i) = m /\ SubSeq(LineAt(i).ts, 1, 4) =
                                <<r.hour \div 1000000, (r.hour \div 10000) % 100,
                                  (r.hour \div 100) % 100, r.hour % 100>>})
        /\ Value("skipped_lines") = Len(published[1].seen) - Cardinality(Got(""))

(* StatsCollector.h 77: the speed samples taken, left out and missing are    *)
(* together the counted lines of BeamSteerCtrlUnitImpl, at the entry limit   *)
(* as below it; and avg_speed is the average of the samples taken to within  *)
(* half a unit of its last digit, a fraction that rounds up to one included  *)
(* (StatsCollector::record(), averageSpeed(), formatFixed6()).               *)
SpeedIsHonest ==
    LET off == formatFixed6(stats.spdSum, stats.valid) * stats.valid - stats.spdSum * kFraction
    IN  /\ SumOf([k \in {b \in DOMAIN stats.buckets : b[1] = BeamSteer} |-> stats.buckets[k]])
              = stats.valid + stats.excluded + stats.missing
        /\ stats.valid = 0 \/ (2 * off <= stats.valid /\ -2 * off <= stats.valid)

(* The report names the unknown modules honestly: a listed name has all its  *)
(* lines, what is not listed is in the rest, and both make up the count of   *)
(* UNKNOWN_MODULE; the samples are the first skipped lines                   *)
(* (recordUnknownModule() at kMaxUnknownModules, writeReport()).             *)
ReportIsHonest ==
    published # <<>> =>
        LET report  == published[1].report
            skipped == DOMAIN published[1].seen \ Got("")
            sampled == {s.offset : s \in Range(report.samples)}
        IN  /\ SumOf(report.lines) + report.unlisted = Cardinality(Got("UNKNOWN_MODULE"))
            /\ \A n \in DOMAIN report.lines : report.lines[n] =
                    Cardinality({i \in Got("UNKNOWN_MODULE") : Listed(ModuleAt(i)) = n})
            /\ sampled \subseteq skipped
            /\ \A i \in skipped \ sampled, j \in sampled : j < i
            /\ Len(report.samples) + report.more = Cardinality(skipped)
            /\ Cardinality(DOMAIN report.lines) <= kMaxUnknownModules
            /\ Len(report.samples) <= kMaxSkipSamples

\* The calendar by counting: the last day of a month, and the day after a day.
LastDay(y, m) ==
    IF m = 2 THEN IF y % 4 = 0 /\ (y % 100 = 0 => y % 400 = 0) THEN 29 ELSE 28
    ELSE 31 - (((m - 1) % 7) % 2)
Tomorrow(d) ==
    IF d[3] < LastDay(d[1], d[2]) THEN <<d[1], d[2], d[3] + 1>>
    ELSE IF d[2] < 12 THEN <<d[1], d[2] + 1, 1>> ELSE <<d[1] + 1, 1, 1>>
DaysLater(d, n) == LET f[k \in 0..n] == IF k = 0 THEN d ELSE Tomorrow(f[k - 1]) IN f[n]

\* At most kTsRangeHours from timestamp a on to timestamp b.
NotMuchLater(a, b) ==
    \E n \in 0..(kTsRangeHours \div 24 + 1) :
        /\ DaysLater(SubSeq(a, 1, 3), n) = SubSeq(b, 1, 3)
        /\ n * 86400 + (b[4] - a[4]) * 3600 + (b[5] - a[5]) * 60 + b[6] - a[6]
            <= kTsRangeHours * 3600

(* The window is elapsed time, across month ends, new year and leap days:    *)
(* the counted lines are on days that exist and within kTsRangeHours of the  *)
(* first counted one, and a line refused for its time is not                *)
(* (daysFromCivil(), parseTimestamp(), the anchor in parse()).               *)
WindowIsElapsedTime ==
    LET passed == {i \in DOMAIN seen : seen[i].reason \in {"", "MAP_LIMIT"}}
        first  == seen[Min(passed)].line.ts
        near(i) == NotMuchLater(first, seen[i].line.ts) \/ NotMuchLater(seen[i].line.ts, first)
    IN  /\ \A i \in passed : LET ts == seen[i].line.ts IN ts[3] <= LastDay(ts[1], ts[2]) /\ near(i)
        /\ \A i \in DOMAIN seen : seen[i].reason = "TS_OUT_OF_RANGE" => passed # {} /\ ~near(i)

(* The client's warning says of the CSV what the server meant: how many of   *)
(* how many lines were skipped, the commonest reasons first, and the reasons *)
(* add up to the total that summarizeResultCsv() falls back on               *)
(* (ResultSummary.cpp 96-97).                                               *)
WarningAgrees ==
    published # <<>> =>
        LET summary == summarizeResultCsv(published[1].rows)
            warning == formatSkipWarning(summary)
            skipped == Len(published[1].seen) - Cardinality(Got(""))
        IN  /\ SumOf([i \in DOMAIN summary.reasons |-> summary.reasons[i].value]) = skipped
            /\ (skipped = 0) = (warning = <<>>)
            /\ warning # <<>> =>
                /\ warning[1].skipped = skipped /\ warning[1].of = <<Len(published[1].seen)>>
                /\ \A r \in Range(summary.reasons) : \A k \in DOMAIN warning[1].shown :
                        r.value > warning[1].shown[k].value => r \in Range(warning[1].shown)
                /\ Len(warning[1].shown) + warning[1].more = Len(summary.reasons)
=============================================================================
