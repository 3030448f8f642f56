--------------------------- MODULE ServerProcess ---------------------------
(***************************************************************************)
(* The server as a process: main.cpp, Daemon.cpp and ServerApp.cpp with the *)
(* handles of common/net.  Several processes may be started in one          *)
(* directory; they share server.pid and compete for ports.  A signal may    *)
(* arrive between any two steps.  The steps of shutdown() are actions of    *)
(* their own, everything else the loop does in one callback is one action.  *)
(***************************************************************************)
EXTENDS Naturals

CONSTANTS Process,
          Configurations,  \* what main() can make of its arguments: ServerConfig!Configured
          MaxSignals,      \* bound on the signals sent
          MaxSessions,     \* bound on the connections accepted
          None

\* main() returns, goes on to daemonize() when it is asked to, or to init().
ASSUME ServerProcessAssumption ==
    /\ None \notin Process
    /\ \A c \in Configurations : /\ c.pc \in {"exited", "daemonize", "term"}
                                 /\ c.daemonize \in BOOLEAN
                                 /\ c.pc = "daemonize" => c.daemonize
                                 /\ c.pc = "term" => ~c.daemonize

VARIABLES proc,
          pidFile,      \* the process server.pid names
          signals,      \* signals sent so far
          sessions      \* connections accepted so far

counts == <<signals, sessions>>
vars == <<proc, pidFile, counts>>

Signal == {"term", "int"}
Handle == Signal \cup {"listener", "reaper", "async", "prune", "socket", "timer", "write"}

(* uv: what libuv knows of the handle; data: handle->data points at the      *)
(* object; held: the object exists and owns the memory.  "write" is a write  *)
(* request, whose memory is its own and whose data is WriteRequest::socket.  *)
NoHandle == [uv |-> "none", data |-> FALSE, held |-> FALSE]
Opened(state) == [uv |-> state, data |-> TRUE, held |-> TRUE]

Fresh == [pc |-> "ready", port |-> None, daemonize |-> FALSE, asAsked |-> TRUE,
          served |-> FALSE, shuttingDown |-> FALSE,
          blocked |-> {},           \* signals the loop thread blocks
          handled |-> {},           \* signals libuv has a handler for
          caught |-> {},            \* signals in libuv's pipe
          parser |-> "none", handles |-> [h \in Handle |-> NoHandle],
          shared |-> FALSE]         \* history: another daemon ran beside this one

Init ==
    /\ proc = [p \in Process |-> Fresh]
    /\ pidFile = None
    /\ signals = 0
    /\ sessions = 0

\* unclosed: the process exited with the file naming it.
Gone == {"ready", "exited", "killed", "unclosed"}
-----------------------------------------------------------------------------
(* Handles: close() and the destructors of TcpSocket, Listener and Timer, and *)
(* what SessionManager and ParserThread do with theirs.                       *)

\* TcpSocket::close(), Listener::close(): the object stays and is told.
Close(hs, h) ==
    IF hs[h].uv \in {"none", "closing", "closed"} THEN hs ELSE [hs EXCEPT ![h].uv = "closing"]

\* Faulty variant: the way back to the object is left open.
ForgottenKeepsData(handle) == [handle EXCEPT !.held = FALSE, !.uv = "closing"]

\* The object goes before the handle is closed: the close callback finds no object
\* and frees the memory.
Forgotten(handle) == [handle EXCEPT !.data = FALSE, !.held = FALSE, !.uv = "closing"]

\* The destructors.
Destroy(hs, h) ==
    IF hs[h].uv \in {"none", "closed"} THEN [hs EXCEPT ![h] = NoHandle]
    ELSE [hs EXCEPT ![h] = Forgotten(@)]

\* ~TcpSocket() also cuts its pending writes off.
DestroySession(hs) ==
    Destroy(Destroy([hs EXCEPT !["write"].data = FALSE], "socket"), "timer")

\* The close callbacks of one turn of the loop; a write of a closed socket is
\* completed first, Session::onClosed() asks for the reaper.
Closed(hs) ==
    [h \in Handle |->
        CASE hs[h].uv = "closing" /\ hs[h].data  -> [hs[h] EXCEPT !.uv = "closed"]
          [] hs[h].uv = "closing" /\ ~hs[h].data -> NoHandle
          [] h = "write" /\ hs["socket"].uv = "closing" -> NoHandle
          [] h = "reaper" /\ hs["socket"].uv = "closing" /\ hs["socket"].data
                /\ hs[h].uv = "inactive" -> [hs[h] EXCEPT !.uv = "active"]
          [] OTHER -> hs[h]]

Alive(hs) == \E h \in Handle : hs[h].uv \in {"active", "closing"}
-----------------------------------------------------------------------------
(* main() up to init(). *)

At(p, pc) == proc[p].pc = pc
Goes(p, pc, change) == proc' = [proc EXCEPT ![p] = [change EXCEPT !.pc = pc]]

\* The kernel takes back what the process had; the histories stay.
Ended(q, pc) ==
    [Fresh EXCEPT !.pc = pc, !.served = q.served, !.asAsked = q.asAsked,
                  !.shuttingDown = q.shuttingDown]

Launch(p, c) ==
    /\ At(p, "ready")
    /\ Goes(p, c.pc, [proc[p] EXCEPT !.port = c.port, !.daemonize = c.daemonize,
                                     !.asAsked = c.asAsked])
    /\ UNCHANGED pidFile

\* daemonize(), then the log file; either may fail.
daemonize(p) ==
    /\ At(p, "daemonize")
    /\ Goes(p, "pid", proc[p]) \/ Goes(p, "exited", Ended(proc[p], "exited"))
    /\ UNCHANGED pidFile

\* A daemon opens server.pid: those alive beside it share the file from now on.
Shared(p) ==
    LET others == {q \in Process \ {p} : proc[q].daemonize /\ proc[q].pc \notin Gone}
    IN  [q \in Process |-> [proc[q] EXCEPT
            !.shared = @ \/ q \in others \/ (q = p /\ others # {})]]

\* writePidFile(): the file cannot be opened, is left empty, or names this process, which
\* gives up all the same when fclose() fails after the flush.
writePidFile(p) ==
    /\ At(p, "pid")
    /\ \/ Goes(p, "exited", Ended(proc[p], "exited")) /\ UNCHANGED pidFile
       \/ proc' = [Shared(p) EXCEPT ![p] = Ended(@, "exited")] /\ pidFile' = None
       \/ proc' = [Shared(p) EXCEPT ![p] = Ended(@, "unclosed")] /\ pidFile' = p
       \/ proc' = [Shared(p) EXCEPT ![p].pc = "term"] /\ pidFile' = p
-----------------------------------------------------------------------------
(* ServerApp::init(): every step may fail. *)

FailsInit(p) == Goes(p, "initFailed", proc[p]) /\ UNCHANGED pidFile

\* uv_signal_init() and uv_signal_start().
registerSignal(p, s, next) ==
    /\ At(p, s)
    /\ \/ FailsInit(p)
       \/ /\ Goes(p, next, [proc[p] EXCEPT !.handled = @ \cup {s},
                                           !.handles[s] = Opened("active")])
          /\ UNCHANGED pidFile

\* The constructor of SessionManager, then ParserThread::start().
startParser(p) ==
    /\ At(p, "parser")
    /\ \/ FailsInit(p)
       \/ /\ Goes(p, "listen", [proc[p] EXCEPT
                                  !.parser = "running",
                                  !.handles["listener"] = Opened("inactive"),
                                  !.handles["reaper"] = Opened("inactive"),
                                  !.handles["async"] = Opened("active")])
          /\ UNCHANGED pidFile

PortTaken(p) ==
    \E q \in Process \ {p} : /\ proc[q].port = proc[p].port
                             /\ proc[q].handles["listener"].uv = "active"

\* Listener::listen(), then the prune timer of a daemon (its log is a file); run().
listen(p) ==
    /\ At(p, "listen")
    /\ \/ PortTaken(p) /\ FailsInit(p)
       \/ /\ ~PortTaken(p)
          /\ Goes(p, "loop",
                  [proc[p] EXCEPT !.served = TRUE,
                                  !.handles["listener"].uv = "active",
                                  !.handles["prune"] = IF proc[p].daemonize
                                                       THEN Opened("active") ELSE NoHandle])
          /\ UNCHANGED pidFile

\* Faulty variant: the file is removed whoever wrote it.
removePidFileAlways(p) == pidFile' = None

\* Called by a daemon only.
removePidFile(p) == pidFile' = IF proc[p].daemonize THEN None ELSE pidFile

\* init() failed: main() returns, ~ServerApp() joins the parser, if there is one.
initFailed(p) ==
    /\ At(p, "initFailed")
    /\ Goes(p, "exited", Ended(proc[p], "exited"))
    /\ removePidFile(p)
-----------------------------------------------------------------------------
(* The loop. *)

Running(p) == At(p, "loop") /\ ~proc[p].shuttingDown

Update(p, change) == proc' = [proc EXCEPT ![p] = change] /\ UNCHANGED <<pidFile, counts>>

\* SessionManager accepts; the session starts its timer.
Accept(p) ==
    /\ Running(p)
    /\ sessions < MaxSessions
    /\ sessions' = sessions + 1
    /\ UNCHANGED <<pidFile, signals>>
    /\ \A h \in {"socket", "timer"} : proc[p].handles[h].uv = "none"
    /\ proc' = [proc EXCEPT ![p] = [@ EXCEPT !.handles["socket"] = Opened("active"),
                                             !.handles["timer"] = Opened("active")]]

\* TcpSocket::send(), and its completion (onWriteCb).
Send(p) ==
    /\ Running(p)
    /\ proc[p].handles["socket"].uv = "active"
    /\ Update(p, [proc[p] EXCEPT !.handles["write"] =
                     IF @.uv = "none" THEN [uv |-> "active", data |-> TRUE, held |-> FALSE]
                     ELSE NoHandle])

\* Session::cleanup().
Cleanup(p) ==
    /\ Running(p)
    /\ proc[p].handles["socket"].uv = "active"
    /\ Update(p, [proc[p] EXCEPT !.handles =
                     Close([@ EXCEPT !["timer"].uv = "inactive"], "socket")])

\* SessionManager::onReapCb().
onReapCb(p) ==
    /\ Running(p)
    /\ proc[p].handles["reaper"].uv = "active"
    /\ Update(p, [proc[p] EXCEPT !.handles =
                     DestroySession([@ EXCEPT !["reaper"].uv = "inactive"])])

\* libuv's part of a turn of the loop.
RunClosing(p) ==
    /\ At(p, "loop")
    /\ \E h \in Handle : proc[p].handles[h].uv = "closing"
    /\ Update(p, [proc[p] EXCEPT !.handles = Closed(@)])
-----------------------------------------------------------------------------
(* Signals and shutdown(). *)

\* The kernel picks a thread that does not block the signal; the parser thread never
\* does.  Without a handler the process ends.
deliver(p, s) ==
    LET q     == proc[p]
        fatal == s \notin q.handled /\ (s \notin q.blocked \/ q.parser # "none")
    IN  /\ q.pc \notin Gone
        /\ signals < MaxSignals
        /\ signals' = signals + 1
        /\ proc' = [proc EXCEPT ![p] = IF fatal THEN Ended(q, "killed")
                                       ELSE [q EXCEPT !.caught = @ \cup (q.handled \cap {s})]]
        /\ UNCHANGED <<pidFile, sessions>>

\* Faulty variants: the handlers go before the parser thread has; the prune timer is kept.
OrderSignalsFirst == [mask |-> "stopTerm", stopTerm |-> "stopInt", stopInt |-> "sessions",
                      sessions |-> "join", join |-> "resetPrune", resetPrune |-> "loop"]
OrderKeepsPrune == [mask |-> "sessions", sessions |-> "join", join |-> "stopTerm",
                    stopTerm |-> "stopInt", stopInt |-> "loop"]

\* The order of shutdown(): what follows each step.  Back in the loop the closing
\* handles are run down.
Order == [mask |-> "sessions", sessions |-> "join", join |-> "resetPrune",
          resetPrune |-> "stopTerm", stopTerm |-> "stopInt", stopInt |-> "loop"]

Step(p, pc, change) == At(p, pc) /\ Goes(p, Order[pc], change) /\ UNCHANGED <<pidFile, counts>>

onSignal(p) ==
    /\ Running(p)
    /\ \E s \in proc[p].caught :
          Goes(p, "mask", [proc[p] EXCEPT !.shuttingDown = TRUE, !.caught = @ \ {s}])
    /\ UNCHANGED <<pidFile, counts>>

blockSignals(p) == Step(p, "mask", [proc[p] EXCEPT !.blocked = Signal])

\* SessionManager::close() as far as ParserThread::stop()'s flag and notification.
closeSessions(p) ==
    Step(p, "sessions", [proc[p] EXCEPT !.handles = DestroySession(Close(@, "listener")),
                                        !.parser = "stopping"])

\* The parser thread sees the flag and returns.
parserReturns(p) ==
    /\ proc[p].parser = "stopping"
    /\ Update(p, [proc[p] EXCEPT !.parser = "none"])

\* Faulty variant: the reaper is left to the destructor.
joinParserOnly(p) ==
    /\ proc[p].parser = "none"
    /\ Step(p, "join", [proc[p] EXCEPT !.handles = Destroy(@, "async")])

\* The join, ParserThread::closeHandles(), and the reaper.
joinParser(p) ==
    /\ proc[p].parser = "none"
    /\ Step(p, "join", [proc[p] EXCEPT !.handles = Destroy(Destroy(@, "async"), "reaper")])

resetPrune(p) == Step(p, "resetPrune", [proc[p] EXCEPT !.handles = Destroy(@, "prune")])

\* uv_signal_stop(): the default action is back.  The handles are closed at the end.
stopTerm(p) ==
    Step(p, "stopTerm", [proc[p] EXCEPT !.handled = @ \ {"term"}, !.handles["term"].uv = "inactive"])

stopInt(p) ==
    Step(p, "stopInt", [proc[p] EXCEPT
                          !.handled = @ \ {"int"},
                          !.handles = Close(Close([@ EXCEPT !["int"].uv = "inactive"], "term"), "int")])

\* uv_run() returns when nothing keeps the loop alive.
runReturns(p) ==
    /\ At(p, "loop")
    /\ ~Alive(proc[p].handles)
    /\ Goes(p, "stopped", proc[p])
    /\ UNCHANGED <<pidFile, counts>>

exit(p) ==
    /\ At(p, "stopped")
    /\ UNCHANGED counts
    /\ Goes(p, "exited", Ended(proc[p], "exited"))
    /\ removePidFile(p)
-----------------------------------------------------------------------------
Shutdown(p) ==
    \/ blockSignals(p) \/ closeSessions(p) \/ joinParser(p) \/ resetPrune(p)
    \/ stopTerm(p) \/ stopInt(p) \/ runReturns(p) \/ exit(p)

Next ==
    \E p \in Process :
        \/ /\ \/ \E c \in Configurations : Launch(p, c)
              \/ daemonize(p) \/ writePidFile(p)
              \/ registerSignal(p, "term", "int") \/ registerSignal(p, "int", "parser")
              \/ startParser(p) \/ listen(p) \/ initFailed(p)
           /\ UNCHANGED counts
        \/ Accept(p) \/ Send(p) \/ Cleanup(p) \/ onReapCb(p) \/ RunClosing(p)
        \/ \E s \in Signal : deliver(p, s)
        \/ onSignal(p) \/ parserReturns(p) \/ Shutdown(p)

Spec == Init /\ [][Next]_vars

(* Threads that can run do: the loop thread in shutdown() and in the close   *)
(* callbacks, the parser thread once it has been told to stop.               *)
FairSpec ==
    /\ Spec
    /\ \A p \in Process : /\ WF_vars(Shutdown(p))
                          /\ WF_vars(RunClosing(p))
                          /\ WF_vars(parserReturns(p))
-----------------------------------------------------------------------------
(* Once it serves, no SIGTERM or SIGINT ends the process half way: from the  *)
(* first signal on it is shutdown() that ends it, although the handlers are  *)
(* taken away while the parser thread, which blocks nothing, may still live  *)
(* (ServerApp::shutdown(): block, join, only then uv_signal_stop()).         *)
NeverKilledWhileServing == \A p \in Process : At(p, "killed") => ~proc[p].served

(* kill $(cat server.pid) reaches the daemon that serves, whatever else is   *)
(* started and ends beside it, unless that is a daemon of the same directory; *)
(* a process that ends by itself, having served or failed to start, leaves no *)
(* file that names it, but where fclose() failed after the file was written  *)
(* (writePidFile(), removePidFile(), main()).                                *)
PidFileNamesDaemon ==
    \A p \in Process :
        /\ proc[p].daemonize /\ At(p, "loop") => pidFile = p \/ proc[p].shared
        /\ At(p, "exited") => pidFile # p

(* No callback finds an object that is gone, and memory is handed to the     *)
(* loop only with a close callback under way to free it (the destructors of  *)
(* TcpSocket, Listener, Timer, SessionManager).  The async handles are open  *)
(* as long as the parser runs and may signal (ParserThread::stop()).         *)
CallbacksFindTheirObject ==
    \A p \in Process :
        LET hs == proc[p].handles
        IN  /\ \A h \in Handle \ {"write"} : /\ hs[h].data => hs[h].held
                                             /\ hs[h].uv # "none" /\ ~hs[h].held => hs[h].uv = "closing"
            /\ hs["write"].data => hs["socket"].held
            /\ proc[p].parser # "none" => hs["async"].uv = "active"

(* A graceful stop closes every handle, so that uv_loop_close() succeeds.    *)
EveryHandleClosed ==
    \A p \in Process :
        At(p, "stopped") => \A h \in Handle : proc[p].handles[h].uv \in {"none", "closed"}

(* The configuration that is served is the one asked for: the last option    *)
(* over the last line of the file over the default; one wrong option or line  *)
(* and nothing is started (parseCommandLine(), parseConfigText(), buildConfig()). *)
ServesAsAsked == \A p \in Process : proc[p].asAsked

(* Shutdown ends: uv_run() returns because no handle is left (run()).        *)
ShutdownEnds ==
    \A p \in Process : proc[p].shuttingDown ~> At(p, "exited")
=============================================================================
