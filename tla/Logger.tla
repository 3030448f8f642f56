------------------------------- MODULE Logger -------------------------------
(* The log files of a daemon that runs for days: Logger.cpp, the start in    *)
(* main.cpp and the clean-up timer of ServerApp.cpp.  A file is the sequence *)
(* of the lines in it, each one unit long; file 0 of a day is the active     *)
(* name, file i the one rotated to _00i.  The calls are serialised by        *)
(* _mutex, but log() reads the clock before it takes the lock.               *)
(* A daemon's stdout is /dev/null (Daemon.cpp), so a line sent there is lost. *)
(* A stream that could not write keeps the line in its buffer: close() tries  *)
(* it once more, and that may succeed.                                       *)
EXTENDS Integers, Sequences, FiniteSets

CONSTANTS
    Threads, Loop,          \* who logs; Loop also runs the timer
    kMaxLogFileBytes,       \* the size a file may reach
    kMaxRotationIndex,
    kLogRetentionDays,
    MaxDay, MaxLines, MaxFaults, MaxStarts, MaxSweeps     \* bounds

ASSUME LoggerAssumption ==
    /\ Loop \in Threads
    /\ kMaxLogFileBytes \in Nat \ {0} /\ kMaxRotationIndex \in Nat
    /\ kLogRetentionDays \in Nat \ {0, 1}

VARIABLES
    day,                \* the clock: the date
    up, starts,         \* the daemon runs; times it was started
    dirs, files,        \* the disk: date directories, <<day, index>> -> lines
    lg,                 \* the Logger
    prunedToday,        \* _lastPruneDate is the date of today
    now,                \* each thread's reading of the clock while it waits to log
    fate,               \* history: what became of each line
    swept,              \* history: dates removed by others,
    overgrown,          \* with a failed rotation or a size that could not be read,
    clobbered,          \* with a rotated file that was overwritten
    faults

disk == <<dirs, files>>
history == <<fate, swept, overgrown, clobbered, faults>>
vars == <<day, up, starts, disk, lg, prunedToday, now, history>>

Days == 1..MaxDay

\* What the calls into the file system made by one log() come to.  "dir": the directory
\* cannot be made, "file": the file cannot be opened, "size": its size cannot be read.
\* probe: the rotated name whose exists() fails.
Opened == {"ok", "size"}
Opening == Opened \cup {"dir", "file"}
Calm == [open |-> "ok", probe |-> 0, rename |-> "ok", reopen |-> "ok", write |-> "ok",
         retry |-> "ok", rewrite |-> "ok"]
Trouble == [open : Opening, probe : 0..kMaxRotationIndex, rename : {"ok", "no"},
            reopen : Opening, write : {"ok", "no"}, retry : Opening, rewrite : {"ok", "no"}]
FaultsOf(f) == Cardinality({k \in DOMAIN f : f[k] # Calm[k]})
Troubles == {f \in Trouble : FaultsOf(f) <= MaxFaults}

\* toFile: a file is open; linked: it can still be reached by its name; stuck: the line
\* that could not be written and that the stream, failed since, still holds.
Closed == [toFile |-> FALSE, date |-> 0, linked |-> FALSE, bytes |-> 0, stuck |-> 0]

World == [dirs |-> dirs, files |-> files, lg |-> lg,
          overgrown |-> overgrown, clobbered |-> clobbered]

-----------------------------------------------------------------------------
(* Logger, as operators from world to world.  late: the lines held by a failed *)
(* stream that its close() gets out after all.                                *)

Existing(w, d) == IF <<d, 0>> \in DOMAIN w.files THEN w.files[<<d, 0>>] ELSE <<>>

WithFile(files_, key, lines) ==
    [k \in DOMAIN files_ \cup {key} |-> IF k = key THEN lines ELSE files_[k]]

\* A line in the open file; a file without a name is out of sight.
appended(w, n) ==
    IF w.lg.linked
    THEN [w EXCEPT !.files = WithFile(@, <<w.lg.date, 0>>, Append(Existing(w, w.lg.date), n))]
    ELSE w

\* _file.flush() and _file.close().
closed(w, late) ==
    LET out == IF w.lg.stuck \in late THEN appended(w, w.lg.stuck) ELSE w
    IN  [out EXCEPT !.lg = [@ EXCEPT !.toFile = FALSE, !.stuck = 0]]

\* Faulty variant: the counter starts at nothing.
existingSizeZero(w, d, how) == 0

\* A file that exists is continued, and its size counts if it can be read.
existingSize(w, d, how) == IF how = "size" THEN 0 ELSE Len(Existing(w, d))

\* openForDateLocked(): the old file is let go only when the new one is open.
openForDate(w, d, how, late) ==
    CASE how = "dir"  -> w
      [] how = "file" -> [w EXCEPT !.dirs = @ \cup {d}]
      [] how \in Opened ->
            LET c == closed(w, late)
            IN  [dirs  |-> w.dirs \cup {d},
                 files |-> WithFile(c.files, <<d, 0>>, Existing(c, d)),
                 lg    |-> [toFile |-> TRUE, date |-> d, linked |-> TRUE,
                            bytes |-> existingSize(c, d, how), stuck |-> 0],
                 overgrown |-> IF how = "size" /\ Existing(c, d) # <<>>
                               THEN w.overgrown \cup {d} ELSE w.overgrown,
                 clobbered |-> w.clobbered]

\* Faulty variant: always _001.
TargetFirst(w, d, probe) == {i \in 1..kMaxRotationIndex : i = 1}

Taken(w, d, i) == <<d, i>> \in DOMAIN w.files

\* The first rotated name that does not seem to be taken, if any.
Target(w, d, probe) ==
    {i \in 1..kMaxRotationIndex :
        /\ i = probe \/ ~Taken(w, d, i)
        /\ \A j \in 1..i - 1 : j # probe /\ Taken(w, d, j)}

\* The active file under its new name.
renamed(files_, d, i) ==
    [k \in (DOMAIN files_ \ {<<d, 0>>}) \cup {<<d, i>>} |->
        IF k = <<d, i>> THEN files_[<<d, 0>>] ELSE files_[k]]

\* rotateLocked(): close, rename, open again; a rotation that failed resets the counter.
rotate(w, f, late) ==
    LET d == w.lg.date
        c == closed(w, late)
        i == CHOOSE i \in Target(c, d, f.probe) : TRUE
        moved == [c EXCEPT !.files = renamed(@, d, i),
                           !.clobbered = IF i = f.probe /\ Taken(c, d, i) THEN @ \cup {d} ELSE @]
        kept  == IF w.lg.linked THEN [c EXCEPT !.overgrown = @ \cup {d}] ELSE c
    IN  IF Target(c, d, f.probe) # {} /\ w.lg.linked /\ f.rename = "ok"
        THEN openForDate(moved, d, f.reopen, {})
        ELSE [openForDate(kept, d, f.reopen, {}) EXCEPT !.lg = [@ EXCEPT !.bytes = 0]]

\* A line that was written and flushed.
written(w, n) ==
    LET p == appended(w, n) IN [p EXCEPT !.lg = [@ EXCEPT !.bytes = p.lg.bytes + 1]]

\* Faulty variant: a sink that was cut stays cut.
ReadyNoRecovery(w, today, f, late) ==
    IF w.lg.toFile /\ today # w.lg.date THEN openForDate(w, today, f.open, late) ELSE w

\* log() down to the rotation: the file of today, or any file at all.
Ready(w, today, f, late) ==
    IF ~w.lg.toFile \/ today # w.lg.date THEN openForDate(w, today, f.open, late) ELSE w

NeedsRotation(w) == w.lg.toFile /\ w.lg.bytes + 1 > kMaxLogFileBytes

\* Faulty variant: a line that could not be written is given up.
retryNever(w, today, f, n, late) == [w |-> closed(w, late), where |-> "lost"]

\* The second try of log(): close, open again, write again.
retry(w, today, f, n, late) ==
    LET again == openForDate(closed(w, late), today, f.retry, {})
    IN  CASE f.retry \notin Opened -> [w |-> again, where |-> "lost"]
          [] f.retry \in Opened /\ f.rewrite = "ok" -> [w |-> written(again, n), where |-> "file"]
          [] OTHER -> [w |-> [again EXCEPT !.lg = [@ EXCEPT !.stuck = n]], where |-> "lost"]

\* log(): the world afterwards and where line n went.  A failed stream takes nothing.
log(w, today, f, n, late) ==
    LET ready == Ready(w, today, f, late)
        open  == IF NeedsRotation(ready) THEN rotate(ready, f, late) ELSE ready
    IN  CASE ~open.lg.toFile -> [w |-> open, where |-> "lost"]
          [] open.lg.toFile /\ open.lg.stuck = 0 /\ f.write = "ok" ->
                [w |-> written(open, n), where |-> IF open.lg.linked THEN "file" ELSE "nowhere"]
          [] OTHER -> retry(IF open.lg.stuck = 0 THEN [open EXCEPT !.lg = [@ EXCEPT !.stuck = n]] ELSE open,
                            today, f, n, late)

\* pruneOldLogs(): dates before the window, the active one never.
Expired(w) == {d \in w.dirs : d # w.lg.date /\ d < day - (kLogRetentionDays - 1)}

Remove(w, gone) ==
    [w EXCEPT !.dirs = @ \ gone,
              !.files = [k \in {x \in DOMAIN @ : x[1] \notin gone} |-> @[k]],
              !.lg = [@ EXCEPT !.linked = w.lg.linked /\ w.lg.date \notin gone]]

Becomes(w) ==
    /\ dirs' = w.dirs /\ files' = w.files /\ lg' = w.lg
    /\ overgrown' = w.overgrown /\ clobbered' = w.clobbered

\* The clean-up; what cannot be removed stays.  It logs when it removed something.
prune(w, gone) ==
    /\ gone \in SUBSET Expired(w)
    /\ Becomes(Remove(w, gone))
    /\ now' = [now EXCEPT ![Loop] = IF gone # {} THEN day ELSE 0]

-----------------------------------------------------------------------------
Idle == [t \in Threads |-> 0]

Init ==
    /\ day = 1
    /\ up = FALSE /\ starts = 0
    /\ dirs = {} /\ files = <<>> /\ lg = Closed
    /\ prunedToday = FALSE /\ now = Idle
    /\ fate = <<>> /\ swept = {} /\ overgrown = {} /\ clobbered = {} /\ faults = 0

\* main(): openFile(), then the clean-up.  main() gives up when the file cannot be opened.
start(how) ==
    LET opened == openForDate(World, day, how, {})
    IN  /\ ~up /\ starts < MaxStarts
        /\ how # "ok" => faults < MaxFaults
        /\ starts' = starts + 1
        /\ up' = (how \in Opened)
        /\ \/ how \in Opened /\ \E gone \in SUBSET Expired(opened) : prune(opened, gone)
           \/ how \notin Opened /\ Becomes(opened) /\ UNCHANGED now
        /\ faults' = IF how = "ok" THEN faults ELSE faults + 1
        /\ UNCHANGED <<day, prunedToday, fate, swept>>

\* close() at the end of main(), or a crash, which leaves late empty.
exit(late) ==
    /\ up
    /\ up' = FALSE
    /\ Becomes([closed(World, late) EXCEPT !.lg = Closed])
    /\ now' = Idle /\ prunedToday' = FALSE
    /\ UNCHANGED <<day, starts, fate, swept, faults>>

\* log() reads the clock,
readClock(t) ==
    /\ up /\ now[t] = 0
    /\ Len(fate) + Cardinality({u \in Threads : now[u] # 0}) < MaxLines
    /\ now' = [now EXCEPT ![t] = day]
    /\ UNCHANGED <<day, up, starts, disk, lg, prunedToday, history>>

\* and does the rest under the lock.  Only failures that make a difference are looked at.
logLocked(t, f, late) ==
    /\ up /\ now[t] # 0
    /\ faults + FaultsOf(f) <= MaxFaults
    /\ \E r \in {log(World, now[t], f, Len(fate) + 1, late)} :
        /\ \A k \in DOMAIN f : f[k] # Calm[k] =>
                log(World, now[t], [f EXCEPT ![k] = Calm[k]], Len(fate) + 1, late) # r
        /\ Becomes(r.w)
        /\ fate' = Append(fate, [where |-> r.where, stamp |-> now[t], dir |-> r.w.lg.date,
                                 faults |-> FaultsOf(f),
                                 sound |-> lg.toFile /\ lg.stuck = 0 /\ f.reopen \in Opened,
                                 cut |-> lg.toFile /\ ~lg.linked])
    /\ now' = [now EXCEPT ![t] = 0]
    /\ faults' = faults + FaultsOf(f)
    /\ UNCHANGED <<day, up, starts, prunedToday, swept>>

\* onPruneTick() in the hour of the clean-up, whenever that is, once a day.
onPruneTick ==
    /\ up /\ now[Loop] = 0
    /\ ~prunedToday
    /\ prunedToday' = TRUE
    /\ \E gone \in SUBSET Expired(World) : prune(World, gone)
    /\ UNCHANGED <<day, up, starts, fate, swept, faults>>

\* Time passes; no thread waits for the lock over more than one midnight.
tick ==
    /\ day < MaxDay
    /\ \A t \in Threads : now[t] \in {0, day}
    /\ day' = day + 1
    /\ prunedToday' = FALSE
    /\ UNCHANGED <<up, starts, disk, lg, now, history>>

\* Somebody else removes logs/; a file that is open stays open.
sweep ==
    /\ up /\ Cardinality(swept) < MaxSweeps /\ dirs # {}
    /\ Becomes(Remove(World, dirs))
    /\ swept' = swept \cup dirs
    /\ UNCHANGED <<day, up, starts, prunedToday, now, fate, faults>>

\* The lines a failed stream may hold: the one before the call, the one of the call.
Held == {lg.stuck} \ {0}
HeldIn(f) == Held \cup (IF f.write = "ok" THEN {} ELSE {Len(fate) + 1})

Next ==
    \/ \E how \in Opening : start(how)
    \/ \E late \in SUBSET Held : exit(late)
    \/ onPruneTick \/ tick \/ sweep
    \/ \E t \in Threads :
          \/ readClock(t)
          \/ \E f \in Troubles : \E late \in SUBSET HeldIn(f) : logLocked(t, f, late)

Spec == Init /\ [][Next]_vars

-----------------------------------------------------------------------------
(* A line that reached a file is there as long as its directory is active or  *)
(* within the retention days: no rotation, rollover, restart or clean-up      *)
(* takes it away (rotateLocked(), openForDateLocked(), pruneOldLogs()).       *)
(* Directories others removed are left out, and so are those where a failing  *)
(* exists() let a rotated file be overwritten.  A line whose call met no      *)
(* failure is nowhere twice.                                                  *)
WrittenStays ==
    \A n \in DOMAIN fate :
        /\ (/\ fate[n].where = "file" /\ fate[n].dir \notin swept \cup clobbered
            /\ fate[n].dir >= day - (kLogRetentionDays - 1) \/ (lg.toFile /\ fate[n].dir = lg.date))
                => \E k \in DOMAIN files : \E i \in DOMAIN files[k] :
                      k[1] = fate[n].dir /\ files[k][i] = n
        /\ fate[n].faults = 0 =>
              \A k, l \in DOMAIN files : \A i \in DOMAIN files[k], j \in DOMAIN files[l] :
                 files[k][i] = n /\ files[l][j] = n => k = l /\ i = j

(* When no call into the file system fails, a line reaches a file of the date *)
(* it was stamped with, whatever failed before and whatever date another      *)
(* thread has opened meanwhile (rollover, recovery and retry in log()).  The  *)
(* one exception is a file that others removed while it was open: log() goes  *)
(* on writing to it, although its comment counts on recovery.                 *)
CleanCallReachesFile ==
    \A n \in DOMAIN fate :
        fate[n].faults = 0 =>
            /\ fate[n].dir = fate[n].stamp
            /\ fate[n].where = "file" \/ (fate[n].where = "nowhere" /\ fate[n].cut)

(* With an open file and a stream in order, one failing call into the file    *)
(* system does not cost a line (log()'s retry; openForDateLocked() keeps the  *)
(* old file), unless it is the one that opens the file again after rotating.  *)
SoundSinkKeepsLine ==
    \A n \in DOMAIN fate :
        fate[n].where = "lost" /\ fate[n].sound => fate[n].faults >= 2

(* A file outgrows the limit only on a date whose rotation failed or where    *)
(* the size of a file that was opened again could not be read, restarts and   *)
(* returns to an earlier date included (_bytesWritten); the retry of log()    *)
(* does not look at the size, so each failure may cost one line more.         *)
FilesBounded ==
    \A k \in DOMAIN files : Len(files[k]) > kMaxLogFileBytes + faults => k[1] \in overgrown

(* The clean-up never takes the directory of the open file away, however     *)
(* long nothing was logged (pruneOldLogs(): the active date is excluded).   *)
ActiveNeverPruned == lg.toFile /\ ~lg.linked => lg.date \in swept
=============================================================================
