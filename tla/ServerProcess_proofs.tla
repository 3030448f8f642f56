------------------------ MODULE ServerProcess_proofs ------------------------
(***************************************************************************)
(* What ServerProcess promises, for every set of processes, every           *)
(* configuration main() can make and any number of signals and connections. *)
(* The invariant says of each process where it is (Phase), what its handles *)
(* own (Owned) and of the file whom it names (Filed); one lemma for every    *)
(* action.                                                                   *)
(***************************************************************************)
EXTENDS ServerProcess, TLAPS

(* The fields of a process and of its handles. *)
Uv == {"none", "inactive", "active", "closing", "closed"}
IsHandle(x) ==
    /\ DOMAIN x = {"uv", "data", "held"}
    /\ x.uv \in Uv /\ x.data \in BOOLEAN /\ x.held \in BOOLEAN
IsHandles(hs) ==
    /\ DOMAIN hs = Handle
    /\ \A h \in Handle : IsHandle(hs[h])

IsProcess(q) ==
    /\ DOMAIN q = {"pc", "port", "daemonize", "asAsked", "served", "shuttingDown", "blocked",
                   "handled", "caught", "parser", "handles", "shared"}
    /\ q.daemonize \in BOOLEAN /\ q.served \in BOOLEAN /\ q.shuttingDown \in BOOLEAN
    /\ q.shared \in BOOLEAN
    /\ IsHandles(q.handles)

(* No way leads back to an object that is gone; memory without an owner is   *)
(* about to be freed.                                                        *)
Owned(hs) ==
    /\ \A h \in Handle \ {"write"} : /\ hs[h].data <=> hs[h].held
                                     /\ hs[h].uv # "none" /\ ~hs[h].held => hs[h].uv = "closing"
    /\ hs["write"].data => hs["socket"].held
    /\ hs["socket"].uv = "active" => hs["timer"].held
    /\ hs["write"].uv \in {"none", "active"}

(* None of these handles is open without keeping the loop alive. *)
Settled(hs, H) == \A h \in H : hs[h].uv # "inactive"

Early == {"ready", "daemonize", "pid", "term", "int", "parser", "listen", "initFailed"}
OfSession == {"listener", "socket", "timer", "write"}
OfParser == {"async", "reaper"}

(* Both signals are caught. *)
Catches(q) == Signal \subseteq q.handled /\ \A s \in Signal : q.handles[s].uv = "active"

(* ... and the parser runs. *)
Serves(q) == Catches(q) /\ q.parser = "running"

(* Both signals are blocked and no thread is left that does not block them. *)
Alone(q) == Signal \subseteq q.blocked /\ q.parser = "none"

Phase(q) ==
    /\ q.pc \in Early => ~q.served /\ ~q.shuttingDown
    /\ q.pc \in {"daemonize", "pid"} => q.daemonize
    /\ q.pc = "int" => "term" \in q.handled /\ q.handles["term"].uv = "active"
    /\ q.pc = "parser" => Catches(q)
    /\ q.pc = "listen" => q.handles["listener"].held
    /\ q.pc \in {"listen", "mask"} => Serves(q)
    /\ q.pc = "loop" /\ ~q.shuttingDown => Serves(q)
    /\ q.pc = "sessions" => Serves(q) /\ Signal \subseteq q.blocked
    /\ q.pc = "join" => /\ Catches(q) /\ Signal \subseteq q.blocked
                        /\ Settled(q.handles, OfSession)
    /\ q.pc = "resetPrune" =>
          Catches(q) /\ Alone(q) /\ Settled(q.handles, OfSession \cup OfParser)
    /\ q.pc = "stopTerm" =>
          Catches(q) /\ Alone(q) /\ Settled(q.handles, Handle \ Signal)
    /\ q.pc = "stopInt" =>
          /\ Alone(q) /\ Settled(q.handles, Handle \ Signal)
          /\ q.handles["term"].uv = "inactive" /\ q.handles["int"].uv = "active"
    /\ q.pc = "loop" /\ q.shuttingDown => Alone(q) /\ Settled(q.handles, Handle)
    /\ q.pc = "stopped" => Alone(q) /\ \A h \in Handle : q.handles[h].uv \in {"none", "closed"}
    /\ q.pc \in {"mask", "sessions", "join", "resetPrune", "stopTerm", "stopInt", "stopped"} =>
          q.shuttingDown
    /\ q.pc = "killed" => ~q.served
    /\ q.pc \in Early \cup {"loop", "mask", "sessions", "join", "resetPrune", "stopTerm",
                            "stopInt", "stopped", "exited", "killed", "unclosed"}

Sound(q) ==
    /\ IsProcess(q) /\ Owned(q.handles) /\ Phase(q)
    /\ q.parser # "none" => q.handles["async"].uv = "active"

(* From init() on: a daemon has written server.pid. *)
Booted == {"term", "int", "parser", "listen", "initFailed", "loop", "mask", "sessions", "join",
           "resetPrune", "stopTerm", "stopInt", "stopped"}
Daemon(q) == q.daemonize /\ q.pc \in Booted

(* The file names a daemon, or one that was killed or could not close it;     *)
(* daemons that do not find themselves in it know of each other.              *)
Leftover == {"killed", "unclosed"}
Filed(pr, file) ==
    /\ \A p \in Process : Daemon(pr[p]) => file = p \/ pr[p].shared
    /\ \A p \in Process : file = p => Daemon(pr[p]) \/ pr[p].pc \in Leftover
    /\ \A p, r \in Process : p # r /\ Daemon(pr[p]) /\ Daemon(pr[r]) => pr[p].shared

IInv ==
    /\ DOMAIN proc = Process
    /\ \A p \in Process : Sound(proc[p])
    /\ Filed(proc, pidFile)
-----------------------------------------------------------------------------
(* A handle that is closed or forgotten. *)
LEMMA CloseKeeps ==
    ASSUME NEW hs, NEW h \in Handle \ {"write"}, IsHandles(hs), Owned(hs)
    PROVE  LET o == Close(hs, h)
           IN  /\ IsHandles(o) /\ Owned(o) /\ o[h].uv \notin {"inactive", "active"}
               /\ \A k \in Handle \ {h} : o[k] = hs[k]
<1>1. CASE hs[h].uv \in {"none", "closing", "closed"}
  BY <1>1 DEF Close
<1>2. CASE hs[h].uv \notin {"none", "closing", "closed"}
  <2> DEFINE x == [hs[h] EXCEPT !.uv = "closing"]
             o == [hs EXCEPT ![h] = x]
  <2>1. Close(hs, h) = o
    BY <1>2 DEF Close
  <2>2. IsHandle(x) /\ x.uv = "closing" /\ x.data = hs[h].data /\ x.held = hs[h].held
    BY DEF IsHandles, IsHandle, Uv
  <2> HIDE DEF x
  <2>3. IsHandles(o) /\ o[h] = x /\ \A k \in Handle \ {h} : o[k] = hs[k]
    BY <2>2 DEF IsHandles
  <2> HIDE DEF o
  <2>4. Owned(o)
    BY <2>2, <2>3 DEF Owned, Handle, Signal
  <2> QED BY <2>1, <2>2, <2>3, <2>4
<1> QED BY <1>1, <1>2

(* A handle that is not there. *)
LEMMA NoHandleIs == IsHandle(NoHandle) /\ NoHandle.uv = "none" /\ ~NoHandle.data /\ ~NoHandle.held
BY DEF NoHandle, IsHandle, Uv

(* A handle that has just been opened. *)
LEMMA OpenedIs ==
    ASSUME NEW state \in {"active", "inactive"}
    PROVE  LET o == Opened(state) IN IsHandle(o) /\ o.uv = state /\ o.data /\ o.held
BY DEF Opened, IsHandle, Uv

(* A handle that is replaced. *)
LEMMA Replaced ==
    ASSUME NEW hs, NEW h \in Handle, NEW x, IsHandles(hs), IsHandle(x)
    PROVE  LET o == [hs EXCEPT ![h] = x]
           IN  IsHandles(o) /\ o[h] = x /\ \A k \in Handle \ {h} : o[k] = hs[k]
BY DEF IsHandles

(* ... by one whose object is there, or that is about to be freed. *)
LEMMA ReplacedOwned ==
    ASSUME NEW hs, Owned(hs), NEW h \in Handle \ {"write"}, NEW o, NEW x, o[h] = x,
           \A k \in Handle \ {h} : o[k] = hs[k],
           x.data <=> x.held, x.uv # "none" /\ ~x.held => x.uv = "closing",
           h = "socket" => (hs["write"].data => x.held) /\ (x.uv = "active" => hs["timer"].held),
           h = "timer" => (hs["socket"].uv = "active" => x.held)
    PROVE  Owned(o)
<1>1. ASSUME NEW k \in Handle \ {"write"}
      PROVE  /\ o[k].data <=> o[k].held
             /\ o[k].uv # "none" /\ ~o[k].held => o[k].uv = "closing"
  <2>1. CASE k = h
    BY <2>1
  <2>2. CASE k # h
    BY <2>2, o[k] = hs[k] DEF Owned
  <2> QED BY <2>1, <2>2
<1>2. o["write"] = hs["write"]
  BY DEF Handle
<1>3. o["write"].data => o["socket"].held
  BY <1>2 DEF Owned, Handle
<1>4. o["socket"].uv = "active" => o["timer"].held
  BY DEF Owned, Handle
<1> QED BY <1>1, <1>2, <1>3, <1>4 DEF Owned

(* A destructor leaves a handle that is closing, or none; nothing leads back to it. *)
LEMMA DestroyKeeps ==
    ASSUME NEW hs, NEW h \in Handle \ {"write"}, IsHandles(hs), Owned(hs),
           h = "socket" => ~hs["write"].data, h = "timer" => hs["socket"].uv # "active"
    PROVE  LET o == Destroy(hs, h)
           IN  /\ IsHandles(o) /\ Owned(o) /\ o[h].uv # "inactive" /\ ~o[h].held
               /\ \A k \in Handle \ {h} : o[k] = hs[k]
<1> DEFINE x == IF hs[h].uv \in {"none", "closed"} THEN NoHandle ELSE Forgotten(hs[h])
           o == [hs EXCEPT ![h] = x]
<1>1. Destroy(hs, h) = o
  BY Zenon DEF Destroy
<1>2. Forgotten(hs[h]).uv = "closing" /\ ~Forgotten(hs[h]).data /\ ~Forgotten(hs[h]).held
      /\ IsHandle(Forgotten(hs[h]))
  BY DEF Forgotten, IsHandles, IsHandle, Uv
<1>3. IsHandle(x) /\ x.uv \in {"none", "closing"} /\ ~x.data /\ ~x.held
  BY <1>2, NoHandleIs
<1> HIDE DEF x
<1>4. IsHandles(o) /\ o[h] = x /\ \A k \in Handle \ {h} : o[k] = hs[k]
  BY <1>3, Replaced
<1> HIDE DEF o
<1>5. Owned(o)
  BY <1>3, <1>4 DEF Owned, Handle, Signal
<1> QED BY <1>1, <1>3, <1>4, <1>5

(* The session's socket and timer go together, after the writes are cut off. *)
LEMMA DestroySessionKeeps ==
    ASSUME NEW hs, IsHandles(hs), Owned(hs)
    PROVE  LET o == DestroySession(hs)
           IN  /\ IsHandles(o) /\ Owned(o) /\ Settled(o, {"socket", "timer", "write"})
               /\ \A k \in Handle \ {"socket", "timer", "write"} : o[k] = hs[k]
<1> DEFINE a == [hs EXCEPT !["write"].data = FALSE]
           b == Destroy(a, "socket")
           o == Destroy(b, "timer")
<1>1. /\ IsHandles(a) /\ ~a["write"].data /\ a["write"].uv = hs["write"].uv
      /\ \A k \in Handle \ {"write"} : a[k] = hs[k]
  BY Zenon DEF IsHandles, IsHandle, Handle
<1>2. Owned(a)
  BY <1>1 DEF Owned, Handle
<1> HIDE DEF a
<1>3. /\ IsHandles(b) /\ Owned(b) /\ b["socket"].uv # "inactive" /\ ~b["socket"].held
      /\ \A k \in Handle \ {"socket"} : b[k] = a[k]
  BY <1>1, <1>2, DestroyKeeps DEF Handle
<1>4. b["socket"].uv # "active"
  BY <1>3 DEF Owned, Handle
<1> HIDE DEF b
<1>5. /\ IsHandles(o) /\ Owned(o) /\ o["timer"].uv # "inactive"
      /\ \A k \in Handle \ {"timer"} : o[k] = b[k]
  BY <1>3, <1>4, DestroyKeeps DEF Handle
<1>6. o = DestroySession(hs)
  BY DEF DestroySession, a, b
<1> HIDE DEF o
<1>7. Settled(o, {"socket", "timer", "write"})
  BY <1>3, <1>5 DEF Settled, Owned, Handle
<1> QED BY <1>1, <1>3, <1>5, <1>6, <1>7

(* The close callbacks leave what is active alone. *)
LEMMA ClosedKeeps ==
    ASSUME NEW hs, IsHandles(hs), Owned(hs)
    PROVE  LET o == Closed(hs)
           IN  /\ IsHandles(o) /\ Owned(o)
               /\ \A h \in Handle \ {"write"} : hs[h].uv = "active" => o[h].uv = "active"
               /\ Settled(hs, Handle) => Settled(o, Handle)
<1> DEFINE o == Closed(hs)
<1>1. ASSUME NEW h \in Handle
      PROVE  /\ IsHandle(o[h])
             /\ hs[h].uv # "inactive" => o[h].uv # "inactive"
             /\ h # "write" => /\ o[h].data <=> o[h].held
                               /\ o[h].uv # "none" /\ ~o[h].held => o[h].uv = "closing"
                               /\ hs[h].held => o[h].held
                               /\ hs[h].uv = "active" => o[h].uv = "active"
                               /\ o[h].uv = "active" => hs[h].uv = "active" \/ h = "reaper"
  <2> DEFINE x == [hs[h] EXCEPT !.uv = "closed"]
             y == [hs[h] EXCEPT !.uv = "active"]
  <2>1. IsHandle(hs[h])
    BY DEF IsHandles
  <2>2. /\ IsHandle(x) /\ x.uv = "closed" /\ x.data = hs[h].data /\ x.held = hs[h].held
        /\ IsHandle(y) /\ y.uv = "active" /\ y.data = hs[h].data /\ y.held = hs[h].held
    BY <2>1 DEF IsHandle, Uv
  <2>3. /\ h # "write" => /\ hs[h].data <=> hs[h].held
                          /\ hs[h].uv # "none" /\ ~hs[h].held => hs[h].uv = "closing"
        /\ h = "write" => hs[h].uv \in {"none", "active"}
    BY DEF Owned
  <2>4. o[h] = CASE hs[h].uv = "closing" /\ hs[h].data -> x
                 [] hs[h].uv = "closing" /\ ~hs[h].data -> NoHandle
                 [] h = "write" /\ hs["socket"].uv = "closing" -> NoHandle
                 [] h = "reaper" /\ hs["socket"].uv = "closing" /\ hs["socket"].data
                       /\ hs[h].uv = "inactive" -> y
                 [] OTHER -> hs[h]
    BY DEF Closed
  <2> HIDE DEF x, y, o
  <2>5. hs[h].data \in BOOLEAN /\ hs[h].held \in BOOLEAN
    BY <2>1 DEF IsHandle
  <2>6. \/ hs[h].uv = "closing" /\ hs[h].data /\ o[h] = x
        \/ hs[h].uv = "closing" /\ ~hs[h].data /\ o[h] = NoHandle
        \/ h = "write" /\ o[h] = NoHandle
        \/ h = "reaper" /\ hs[h].uv = "inactive" /\ o[h] = y
        \/ hs[h].uv # "closing" /\ o[h] = hs[h]
    BY <2>4, <2>5
  <2> QED BY <2>1, <2>2, <2>3, <2>5, <2>6, NoHandleIs
<1>2. o["write"].data => o["socket"].held
  <2>1. /\ hs["write"].uv # "closing" /\ hs["socket"].uv = "closing" => o["write"] = NoHandle
        /\ hs["write"].uv # "closing" /\ hs["socket"].uv # "closing" => o["write"] = hs["write"]
    BY DEF Closed, Handle
  <2>2. hs["write"].uv # "closing" /\ (hs["write"].data => hs["socket"].held)
    BY DEF Owned
  <2> QED BY <1>1, <2>1, <2>2, NoHandleIs DEF Handle
<1>3. o["write"].uv \in {"none", "active"}
  <2>1. hs["write"].uv # "closing" => o["write"] \in {NoHandle, hs["write"]}
    BY DEF Closed, Handle
  <2> QED BY <2>1, NoHandleIs DEF Owned
<1>4. DOMAIN o = Handle
  BY DEF Closed
<1> HIDE DEF o
<1>5. o["socket"].uv = "active" => o["timer"].held
  BY <1>1 DEF Owned, Handle
<1>6. IsHandles(o) /\ Owned(o)
  BY <1>1, <1>2, <1>3, <1>4, <1>5 DEF IsHandles, Owned
<1>7. Settled(hs, Handle) => Settled(o, Handle)
  BY <1>1 DEF Settled
<1> QED BY <1>1, <1>6, <1>7 DEF o
-----------------------------------------------------------------------------
(* One process changes; the file with it, or not at all. *)
LEMMA OneChanges ==
    ASSUME IInv, NEW p \in Process, NEW v, proc' = [proc EXCEPT ![p] = v], Sound(v),
           \/ /\ pidFile' = pidFile /\ proc[p].pc \notin Leftover
              /\ Daemon(v) <=> Daemon(proc[p])
              /\ v.shared = proc[p].shared
           \/ pidFile' = pidFile /\ ~Daemon(v) /\ (pidFile = p => v.pc \in Leftover)
           \/ pidFile' = None /\ ~Daemon(v) /\ Daemon(proc[p])
    PROVE  IInv'
<1>1. DOMAIN proc' = Process /\ proc'[p] = v /\ \A r \in Process \ {p} : proc'[r] = proc[r]
  BY DEF IInv
<1>2. \A r \in Process : Sound(proc'[r])
  BY <1>1 DEF IInv
<1>3. Filed(proc', pidFile')
  <2>1. Filed(proc, pidFile)
    BY DEF IInv
  <2>2. CASE /\ pidFile' = pidFile /\ proc[p].pc \notin Leftover
             /\ Daemon(v) <=> Daemon(proc[p])
             /\ v.shared = proc[p].shared
    BY <1>1, <2>1, <2>2 DEF Filed
  <2>3. CASE pidFile' = pidFile /\ ~Daemon(v) /\ (pidFile = p => v.pc \in Leftover)
    BY <1>1, <2>1, <2>3 DEF Filed
  <2>4. CASE pidFile' = None /\ ~Daemon(v) /\ Daemon(proc[p])
    BY <1>1, <2>1, <2>4, ServerProcessAssumption DEF Filed
  <2> QED BY <2>2, <2>3, <2>4
<1> QED BY <1>1, <1>2, <1>3 DEF IInv

(* A process that is gone keeps nothing. *)
LEMMA EndedSound ==
    ASSUME NEW q, IsProcess(q), NEW pc \in {"exited"} \cup Leftover, pc = "killed" => ~q.served
    PROVE  Sound(Ended(q, pc)) /\ ~Daemon(Ended(q, pc)) /\ Ended(q, pc).pc = pc
<1> DEFINE v == Ended(q, pc)
<1>1. /\ DOMAIN v = {"pc", "port", "daemonize", "asAsked", "served", "shuttingDown", "blocked",
                     "handled", "caught", "parser", "handles", "shared"}
      /\ v.pc = pc /\ v.served = q.served /\ v.shuttingDown = q.shuttingDown
      /\ v.daemonize = FALSE /\ v.shared = FALSE /\ v.parser = "none"
      /\ v.handles = [h \in Handle |-> NoHandle]
  BY DEF Ended, Fresh
<1> HIDE DEF v
<1>2. IsHandles(v.handles) /\ Owned(v.handles)
  BY <1>1, NoHandleIs DEF IsHandles, Owned, Handle
<1>3. IsProcess(v)
  BY <1>1, <1>2, Zenon DEF IsProcess
<1>4. Phase(v)
  BY <1>1 DEF Phase, Early, Leftover
<1>5. Sound(v) /\ ~Daemon(v)
  BY <1>1, <1>2, <1>3, <1>4 DEF Sound, Daemon, Booted
<1> QED BY <1>1, <1>5 DEF v

(* What moves the process on without touching its signals, parser or file. *)
Same(q, v) ==
    /\ IsProcess(v)
    /\ v.daemonize = q.daemonize /\ v.served = q.served /\ v.shuttingDown = q.shuttingDown
    /\ v.shared = q.shared /\ v.handled = q.handled /\ v.blocked = q.blocked

(* A callback in the loop. *)
LEMMA LoopHandles ==
    ASSUME IInv, NEW p \in Process, proc[p].pc = "loop",
           NEW v, proc' = [proc EXCEPT ![p] = v], pidFile' = pidFile,
           Same(proc[p], v), v.pc = "loop", v.parser = proc[p].parser, Owned(v.handles),
           \A h \in Signal \cup {"async"} :
              proc[p].handles[h].uv = "active" => v.handles[h].uv = "active",
           proc[p].shuttingDown /\ Settled(proc[p].handles, Handle) => Settled(v.handles, Handle)
    PROVE  IInv'
<1> DEFINE q == proc[p]
<1>1. Sound(q)
  BY DEF IInv
<1> HIDE DEF q
<1>2. q.pc = "loop" /\ Same(q, v) /\ v.parser = q.parser
      /\ \A h \in Signal \cup {"async"} : q.handles[h].uv = "active" => v.handles[h].uv = "active"
  BY DEF q
<1>3. Phase(v)
  <2>1. q.shuttingDown \in BOOLEAN
    BY <1>1 DEF Sound, IsProcess
  <2>2. CASE q.shuttingDown
    <3>1. Alone(q) /\ Settled(q.handles, Handle)
      BY <1>1, <1>2, <2>2 DEF Sound, Phase
    <3>2. Alone(v) /\ Settled(v.handles, Handle)
      BY <1>2, <2>2, <3>1 DEF Alone, Same, q
    <3>3. v.shuttingDown
      BY <1>2, <2>2 DEF Same
    <3> QED BY <3>2, <3>3 DEF Phase, Early
  <2>3. CASE ~q.shuttingDown
    <3>1. Serves(q)
      BY <1>1, <1>2, <2>3 DEF Sound, Phase
    <3>2. Serves(v)
      BY <1>2, <3>1 DEF Serves, Catches, Same
    <3>3. ~v.shuttingDown
      BY <1>2, <2>3 DEF Same
    <3> QED BY <3>2, <3>3 DEF Phase, Early
  <2> QED BY <2>1, <2>2, <2>3
<1>4. v.parser # "none" => v.handles["async"].uv = "active"
  BY <1>1, <1>2 DEF Sound
<1>5. Sound(v)
  BY <1>2, <1>3, <1>4 DEF Sound, Same
<1>6. (Daemon(v) <=> Daemon(q)) /\ v.shared = q.shared /\ q.pc \notin Leftover
  BY <1>2 DEF Daemon, Booted, Same, Leftover
<1> QED BY <1>5, <1>6, OneChanges, Zenon DEF q
-----------------------------------------------------------------------------
(* The handles of one process. *)
LEMMA HandlesOf ==
    ASSUME IInv, NEW p \in Process
    PROVE  /\ Sound(proc[p]) /\ IsProcess(proc[p])
           /\ IsHandles(proc[p].handles) /\ Owned(proc[p].handles)
BY DEF IInv, Sound, IsProcess

(* A process whose handles change. *)
LEMMA WithHandles ==
    ASSUME NEW q, IsProcess(q), NEW hs, IsHandles(hs)
    PROVE  LET v == [q EXCEPT !.handles = hs]
           IN  Same(q, v) /\ v.pc = q.pc /\ v.parser = q.parser /\ v.handles = hs
BY DEF IsProcess, Same

(* SessionManager accepts. *)
LEMMA AcceptKeeps == ASSUME IInv, NEW p \in Process, Accept(p) PROVE IInv'
<1> DEFINE q == proc[p]
           a == [q.handles EXCEPT !["socket"] = Opened("active")]
           b == [a EXCEPT !["timer"] = Opened("active")]
           v == [q EXCEPT !.handles["socket"] = Opened("active"),
                          !.handles["timer"] = Opened("active")]
<1>1. proc' = [proc EXCEPT ![p] = v] /\ pidFile' = pidFile /\ q.pc = "loop" /\ ~q.shuttingDown
  BY DEF Accept, Running, At, IInv
<1>2. IsProcess(q) /\ IsHandles(q.handles) /\ Owned(q.handles)
  BY HandlesOf
<1>3. /\ IsHandles(b) /\ b["socket"] = Opened("active") /\ b["timer"] = Opened("active")
      /\ \A k \in Handle \ {"socket", "timer"} : b[k] = q.handles[k]
  BY <1>2, OpenedIs, Replaced DEF Handle
<1>4. Same(q, v) /\ v.pc = q.pc /\ v.parser = q.parser /\ v.handles = b
  BY <1>2, <1>3 DEF IsProcess, Same
<1> HIDE DEF b
<1>5. Owned(b)
  BY <1>2, <1>3, OpenedIs DEF Owned, Handle, Signal
<1> HIDE DEF v
<1>6. \A h \in Signal \cup {"async"} : q.handles[h].uv = "active" => v.handles[h].uv = "active"
  BY <1>3, <1>4, <1>5 DEF Handle, Signal
<1> QED BY <1>1, <1>3, <1>4, <1>5, <1>6, LoopHandles, Zenon

(* A write is pending only while its socket exists. *)
LEMMA SendKeeps == ASSUME IInv, NEW p \in Process, Send(p) PROVE IInv'
<1> DEFINE q == proc[p]
           x == IF q.handles["write"].uv = "none"
                THEN [uv |-> "active", data |-> TRUE, held |-> FALSE] ELSE NoHandle
           b == [q.handles EXCEPT !["write"] = x]
           v == [q EXCEPT !.handles["write"] =
                     IF @.uv = "none" THEN [uv |-> "active", data |-> TRUE, held |-> FALSE]
                     ELSE NoHandle]
<1>1. /\ proc' = [proc EXCEPT ![p] = v] /\ pidFile' = pidFile /\ q.pc = "loop" /\ ~q.shuttingDown
      /\ q.handles["socket"].uv = "active"
  BY DEF Send, Running, At, Update
<1>2. IsProcess(q) /\ IsHandles(q.handles) /\ Owned(q.handles)
  BY HandlesOf
<1>3. IsHandle(x) /\ x.uv \in {"none", "active"}
  BY NoHandleIs, Zenon DEF IsHandle, Uv
<1> HIDE DEF x
<1>4. IsHandles(b) /\ b["write"] = x /\ \A k \in Handle \ {"write"} : b[k] = q.handles[k]
  BY <1>2, <1>3, Replaced DEF Handle
<1>5. Same(q, v) /\ v.pc = q.pc /\ v.parser = q.parser /\ v.handles = b
  BY <1>2, <1>4 DEF IsProcess, Same, x, IsHandles, Handle
<1> HIDE DEF b
<1>6. Owned(b)
  BY <1>1, <1>2, <1>3, <1>4 DEF Owned, Handle, Signal
<1> HIDE DEF v
<1>7. \A h \in Signal \cup {"async"} : q.handles[h].uv = "active" => v.handles[h].uv = "active"
  BY <1>4, <1>5, <1>6 DEF Handle, Signal
<1> QED BY <1>1, <1>4, <1>5, <1>6, <1>7, LoopHandles, Zenon

(* Session::cleanup() stops a timer that exists. *)
LEMMA CleanupKeeps == ASSUME IInv, NEW p \in Process, Cleanup(p) PROVE IInv'
<1> DEFINE q == proc[p]
           x == [q.handles["timer"] EXCEPT !.uv = "inactive"]
           a == [q.handles EXCEPT !["timer"].uv = "inactive"]
           b == Close(a, "socket")
           v == [q EXCEPT !.handles = b]
<1>1. /\ proc' = [proc EXCEPT ![p] = v] /\ pidFile' = pidFile /\ q.pc = "loop" /\ ~q.shuttingDown
      /\ q.handles["socket"].uv = "active"
  BY DEF Cleanup, Running, At, Update
<1>2. IsProcess(q) /\ IsHandles(q.handles) /\ Owned(q.handles)
  BY HandlesOf
<1>3. /\ IsHandle(x) /\ x.data = q.handles["timer"].data /\ x.held = q.handles["timer"].held
      /\ a = [q.handles EXCEPT !["timer"] = x]
  BY <1>2 DEF IsHandles, IsHandle, Uv, Handle
<1> HIDE DEF x
<1>4. IsHandles(a) /\ a["timer"] = x /\ \A k \in Handle \ {"timer"} : a[k] = q.handles[k]
  BY <1>2, <1>3, Replaced DEF Handle
<1> HIDE DEF a
<1>5. Owned(a)
  <2>1. x.held /\ x.data
    BY <1>1, <1>2, <1>3 DEF Owned, Handle
  <2> QED BY <1>2, <1>4, <2>1, ReplacedOwned DEF Handle
<1>6. IsHandles(b) /\ Owned(b) /\ \A k \in Handle \ {"socket"} : b[k] = a[k]
  BY <1>4, <1>5, CloseKeeps DEF Handle
<1> HIDE DEF b
<1>7. Same(q, v) /\ v.pc = q.pc /\ v.parser = q.parser /\ v.handles = b
  BY <1>2, <1>6, WithHandles
<1> HIDE DEF v
<1>8. \A h \in Signal \cup {"async"} : q.handles[h].uv = "active" => v.handles[h].uv = "active"
  BY <1>4, <1>6, <1>7 DEF Handle, Signal
<1> QED BY <1>1, <1>4, <1>6, <1>7, <1>8, LoopHandles, Zenon

(* SessionManager::onReapCb(). *)
LEMMA ReapKeeps == ASSUME IInv, NEW p \in Process, onReapCb(p) PROVE IInv'
<1> DEFINE q == proc[p]
           x == [q.handles["reaper"] EXCEPT !.uv = "inactive"]
           a == [q.handles EXCEPT !["reaper"].uv = "inactive"]
           b == DestroySession(a)
           v == [q EXCEPT !.handles = b]
<1>1. /\ proc' = [proc EXCEPT ![p] = v] /\ pidFile' = pidFile /\ q.pc = "loop" /\ ~q.shuttingDown
      /\ q.handles["reaper"].uv = "active"
  BY DEF onReapCb, Running, At, Update
<1>2. IsProcess(q) /\ IsHandles(q.handles) /\ Owned(q.handles)
  BY HandlesOf
<1>3. /\ IsHandle(x) /\ x.data = q.handles["reaper"].data /\ x.held = q.handles["reaper"].held
      /\ a = [q.handles EXCEPT !["reaper"] = x]
  BY <1>2 DEF IsHandles, IsHandle, Uv, Handle
<1> HIDE DEF x
<1>4. IsHandles(a) /\ a["reaper"] = x /\ \A k \in Handle \ {"reaper"} : a[k] = q.handles[k]
  BY <1>2, <1>3, Replaced DEF Handle
<1> HIDE DEF a
<1>5. Owned(a)
  <2>1. x.held /\ x.data
    BY <1>1, <1>2, <1>3 DEF Owned, Handle
  <2> QED BY <1>2, <1>4, <2>1, ReplacedOwned DEF Handle
<1>6. /\ IsHandles(b) /\ Owned(b)
      /\ \A k \in Handle \ {"socket", "timer", "write"} : b[k] = a[k]
  BY <1>4, <1>5, DestroySessionKeeps
<1> HIDE DEF b
<1>7. Same(q, v) /\ v.pc = q.pc /\ v.parser = q.parser /\ v.handles = b
  BY <1>2, <1>6, WithHandles
<1> HIDE DEF v
<1>8. \A h \in Signal \cup {"async"} : q.handles[h].uv = "active" => v.handles[h].uv = "active"
  BY <1>4, <1>6, <1>7 DEF Handle, Signal
<1> QED BY <1>1, <1>4, <1>6, <1>7, <1>8, LoopHandles, Zenon

(* libuv's part of a turn. *)
LEMMA RunClosingKeeps == ASSUME IInv, NEW p \in Process, RunClosing(p) PROVE IInv'
<1> DEFINE q == proc[p]
           b == Closed(q.handles)
           v == [q EXCEPT !.handles = b]
<1>1. proc' = [proc EXCEPT ![p] = v] /\ pidFile' = pidFile /\ q.pc = "loop"
  BY DEF RunClosing, At, Update
<1>2. IsProcess(q) /\ IsHandles(q.handles) /\ Owned(q.handles)
  BY HandlesOf
<1>3. /\ IsHandles(b) /\ Owned(b)
      /\ \A h \in Handle \ {"write"} : q.handles[h].uv = "active" => b[h].uv = "active"
      /\ Settled(q.handles, Handle) => Settled(b, Handle)
  BY <1>2, ClosedKeeps
<1> HIDE DEF b
<1>4. Same(q, v) /\ v.pc = q.pc /\ v.parser = q.parser /\ v.handles = b
  BY <1>2, <1>3, WithHandles
<1> HIDE DEF v
<1>5. \A h \in Signal \cup {"async"} : q.handles[h].uv = "active" => v.handles[h].uv = "active"
  BY <1>3, <1>4 DEF Handle, Signal
<1> QED BY <1>1, <1>3, <1>4, <1>5, LoopHandles, Zenon
-----------------------------------------------------------------------------
(* A process that has not written the file is not in it. *)
LEMMA NotNamed ==
    ASSUME IInv, NEW p \in Process, proc[p].pc \in {"ready", "daemonize", "pid"}
    PROVE  pidFile # p /\ ~Daemon(proc[p])
BY DEF IInv, Filed, Daemon, Booted, Leftover

(* main() up to daemonize() or init(). *)
LEMMA LaunchKeeps ==
    ASSUME IInv, NEW p \in Process, NEW c \in Configurations, Launch(p, c) PROVE IInv'
<1> DEFINE q == proc[p]
           v == [[q EXCEPT !.port = c.port, !.daemonize = c.daemonize, !.asAsked = c.asAsked]
                    EXCEPT !.pc = c.pc]
<1>1. proc' = [proc EXCEPT ![p] = v] /\ pidFile' = pidFile /\ q.pc = "ready"
  BY DEF Launch, Goes, At
<1>2. /\ c.pc \in {"exited", "daemonize", "term"} /\ c.daemonize \in BOOLEAN
      /\ c.pc = "daemonize" => c.daemonize
      /\ c.pc = "term" => ~c.daemonize
  BY ServerProcessAssumption
<1>3. Sound(q) /\ IsProcess(q)
  BY HandlesOf
<1> HIDE DEF q
<1>4. /\ IsProcess(v) /\ v.pc = c.pc /\ v.daemonize = c.daemonize /\ v.handles = q.handles
      /\ v.parser = q.parser /\ v.served = q.served /\ v.shuttingDown = q.shuttingDown
  BY <1>2, <1>3 DEF IsProcess
<1> HIDE DEF v
<1>5. ~q.served /\ ~q.shuttingDown
  BY <1>1, <1>3 DEF Sound, Phase, Early
<1>6. Phase(v)
  BY <1>2, <1>4, <1>5 DEF Phase, Early
<1>7. Sound(v)
  BY <1>3, <1>4, <1>6 DEF Sound
<1>8. ~Daemon(v) /\ pidFile # p
  BY <1>1, <1>2, <1>4, NotNamed DEF Daemon, Booted, q
<1> QED BY <1>1, <1>7, <1>8, OneChanges, Zenon

(* daemonize(). *)
LEMMA DaemonizeKeeps == ASSUME IInv, NEW p \in Process, daemonize(p) PROVE IInv'
<1> DEFINE q == proc[p]
           v == [q EXCEPT !.pc = "pid"]
           e == Ended(q, "exited")
           w == [e EXCEPT !.pc = "exited"]
<1>1. /\ proc' = [proc EXCEPT ![p] = v] \/ proc' = [proc EXCEPT ![p] = w]
      /\ pidFile' = pidFile /\ q.pc = "daemonize"
  BY DEF daemonize, Goes, At
<1>2. Sound(q) /\ IsProcess(q)
  BY HandlesOf
<1>3. pidFile # p
  BY <1>1, NotNamed
<1>4. Sound(w) /\ ~Daemon(w)
  <2>1. w = e
    BY Zenon DEF Ended, Fresh
  <2> QED BY <1>2, <2>1, EndedSound
<1>5. Sound(v) /\ ~Daemon(v)
  <2> HIDE DEF q
  <2>1. /\ IsProcess(v) /\ v.pc = "pid" /\ v.daemonize = q.daemonize /\ v.handles = q.handles
        /\ v.parser = q.parser /\ v.served = q.served /\ v.shuttingDown = q.shuttingDown
    BY <1>2 DEF IsProcess
  <2> HIDE DEF v
  <2>2. ~q.served /\ ~q.shuttingDown /\ q.daemonize
    BY <1>1, <1>2 DEF Sound, Phase, Early
  <2>3. Phase(v)
    BY <2>1, <2>2 DEF Phase, Early
  <2> QED BY <1>2, <2>1, <2>3 DEF Sound, Daemon, Booted
<1> HIDE DEF v, w
<1>6. CASE proc' = [proc EXCEPT ![p] = v]
  BY <1>1, <1>3, <1>5, <1>6, OneChanges, Zenon
<1>7. CASE proc' = [proc EXCEPT ![p] = w]
  BY <1>1, <1>3, <1>4, <1>7, OneChanges, Zenon
<1> QED BY <1>1, <1>6, <1>7

(* Phase reads no other fields. *)
LEMMA PhaseOfAlike ==
    ASSUME NEW q, NEW v, Phase(q), v.pc = q.pc, v.daemonize = q.daemonize, v.handles = q.handles,
           v.parser = q.parser, v.served = q.served, v.shuttingDown = q.shuttingDown,
           v.handled = q.handled, v.blocked = q.blocked
    PROVE  Phase(v)
<1>1. (Serves(v) <=> Serves(q)) /\ (Catches(v) <=> Catches(q)) /\ (Alone(v) <=> Alone(q))
  BY DEF Serves, Catches, Alone
<1> QED BY <1>1, SMTT(30) DEF Phase

(* Who is alive when a daemon opens the file knows of it. *)
LEMMA SharedKeeps ==
    ASSUME IInv, NEW p \in Process
    PROVE  LET s == Shared(p)
           IN  /\ DOMAIN s = Process
               /\ \A r \in Process : /\ Sound(s[r])
                                     /\ s[r].pc = proc[r].pc /\ s[r].daemonize = proc[r].daemonize
                                     /\ s[r].served = proc[r].served
                                     /\ Daemon(s[r]) <=> Daemon(proc[r])
               /\ \A r \in Process \ {p} : Daemon(proc[r]) => s[r].shared /\ s[p].shared
<1> DEFINE s == Shared(p)
           others == {r \in Process \ {p} : proc[r].daemonize /\ proc[r].pc \notin Gone}
<1>1. DOMAIN s = Process
  BY DEF Shared
<1>2. ASSUME NEW r \in Process
      PROVE  /\ Sound(s[r])
             /\ s[r].pc = proc[r].pc /\ s[r].daemonize = proc[r].daemonize
             /\ s[r].served = proc[r].served
             /\ s[r].shared = (proc[r].shared \/ r \in others \/ (r = p /\ others # {}))
  <2> DEFINE q == proc[r]
             b == (q.shared \/ r \in others \/ (r = p /\ others # {}))
             v == [q EXCEPT !.shared = b]
  <2>1. s[r] = v
    BY DEF Shared
  <2>2. Sound(q) /\ IsProcess(q)
    BY HandlesOf
  <2>3. b \in BOOLEAN
    OBVIOUS
  <2> HIDE DEF q, b
  <2>4. /\ IsProcess(v) /\ v.pc = q.pc /\ v.daemonize = q.daemonize /\ v.handles = q.handles
        /\ v.parser = q.parser /\ v.served = q.served /\ v.shuttingDown = q.shuttingDown
        /\ v.handled = q.handled /\ v.blocked = q.blocked /\ v.shared = b
    BY <2>2, <2>3 DEF IsProcess
  <2> HIDE DEF v
  <2>5. Phase(v)
    BY <2>2, <2>4, PhaseOfAlike DEF Sound
  <2>6. Sound(v)
    BY <2>2, <2>4, <2>5 DEF Sound
  <2> QED BY <2>1, <2>4, <2>6 DEF q, b
<1> HIDE DEF s
<1>3. \A r \in Process : Daemon(s[r]) <=> Daemon(proc[r])
  BY <1>2 DEF Daemon
<1>4. \A r \in Process \ {p} : Daemon(proc[r]) => r \in others
  BY DEF Daemon, Booted, Gone
<1> HIDE DEF others
<1>5. \A r \in Process \ {p} : Daemon(proc[r]) => s[r].shared /\ s[p].shared
  BY <1>2, <1>4, Zenon
<1> QED BY <1>1, <1>2, <1>3, <1>5 DEF s

(* writePidFile(): the file is not written, is left empty, or names this process, *)
(* which may give up.                                                             *)
LEMMA WritePidFileKeeps == ASSUME IInv, NEW p \in Process, writePidFile(p) PROVE IInv'
<1> DEFINE s == Shared(p)
<1>1. proc[p].pc = "pid" /\ pidFile # p /\ ~Daemon(proc[p])
  BY NotNamed DEF writePidFile, At
<1>2. /\ DOMAIN s = Process
      /\ \A r \in Process : /\ Sound(s[r])
                            /\ s[r].pc = proc[r].pc /\ s[r].daemonize = proc[r].daemonize
                            /\ Daemon(s[r]) <=> Daemon(proc[r])
      /\ \A r \in Process \ {p} : Daemon(proc[r]) => s[r].shared /\ s[p].shared
  BY SharedKeeps
<1>3. CASE Goes(p, "exited", Ended(proc[p], "exited")) /\ UNCHANGED pidFile
  <2> DEFINE w == [Ended(proc[p], "exited") EXCEPT !.pc = "exited"]
  <2>1. w = Ended(proc[p], "exited")
    BY Zenon DEF Ended, Fresh
  <2>2. Sound(w) /\ ~Daemon(w)
    BY <2>1, HandlesOf, EndedSound
  <2>3. proc' = [proc EXCEPT ![p] = w]
    BY <1>3 DEF Goes
  <2> HIDE DEF w
  <2> QED BY <1>1, <1>3, <2>2, <2>3, OneChanges, Zenon
<1>4. CASE proc' = [s EXCEPT ![p] = Ended(@, "exited")] /\ pidFile' = None
  <2> DEFINE w == Ended(s[p], "exited")
  <2>1. Sound(w) /\ ~Daemon(w)
    BY <1>2, EndedSound DEF Sound
  <2>2. DOMAIN proc' = Process /\ proc'[p] = w /\ \A r \in Process \ {p} : proc'[r] = s[r]
    BY <1>2, <1>4
  <2> HIDE DEF w, s
  <2>3. Filed(proc', pidFile')
    BY <1>2, <1>4, <2>1, <2>2, ServerProcessAssumption DEF Filed
  <2> QED BY <1>2, <2>1, <2>2, <2>3 DEF IInv
<1>5. CASE proc' = [s EXCEPT ![p].pc = "term"] /\ pidFile' = p
  <2> DEFINE q == s[p]
             v == [q EXCEPT !.pc = "term"]
  <2>1. DOMAIN proc' = Process /\ proc'[p] = v /\ \A r \in Process \ {p} : proc'[r] = s[r]
    BY <1>2, <1>5
  <2>2. Sound(q) /\ q.pc = "pid"
    BY <1>1, <1>2
  <2> HIDE DEF s
  <2>3. /\ IsProcess(v) /\ v.pc = "term" /\ v.daemonize = q.daemonize /\ v.handles = q.handles
        /\ v.parser = q.parser /\ v.served = q.served /\ v.shuttingDown = q.shuttingDown
        /\ v.shared = q.shared
    BY <2>2 DEF Sound, IsProcess
  <2> HIDE DEF q, v
  <2>4. ~q.served /\ ~q.shuttingDown /\ q.daemonize
    BY <2>2 DEF Sound, Phase, Early
  <2>5. Phase(v)
    BY <2>3, <2>4 DEF Phase, Early
  <2>6. Sound(v) /\ Daemon(v)
    BY <2>2, <2>3, <2>4, <2>5 DEF Sound, Daemon, Booted
  <2>7. Filed(proc', pidFile')
    BY <1>2, <1>5, <2>1, <2>3, <2>6 DEF Filed, q
  <2> QED BY <1>2, <2>1, <2>6, <2>7 DEF IInv
<1>6. CASE proc' = [s EXCEPT ![p] = Ended(@, "unclosed")] /\ pidFile' = p
  <2> DEFINE w == Ended(s[p], "unclosed")
  <2>1. Sound(w) /\ ~Daemon(w) /\ w.pc \in Leftover
    <3>1. IsProcess(s[p])
      BY <1>2 DEF Sound
    <3> QED BY <3>1, EndedSound DEF Leftover
  <2>2. DOMAIN proc' = Process /\ proc'[p] = w /\ \A r \in Process \ {p} : proc'[r] = s[r]
    BY <1>2, <1>6
  <2> HIDE DEF w, s
  <2>3. Filed(proc', pidFile')
    BY <1>2, <1>6, <2>1, <2>2 DEF Filed
  <2> QED BY <1>2, <2>1, <2>2, <2>3 DEF IInv
<1> QED BY <1>3, <1>4, <1>5, <1>6 DEF writePidFile

(* A step from init() on that does not touch the file. *)
LEMMA Moves ==
    ASSUME IInv, NEW p \in Process, NEW v, proc' = [proc EXCEPT ![p] = v], pidFile' = pidFile,
           Sound(v), v.daemonize = proc[p].daemonize, v.shared = proc[p].shared,
           proc[p].pc \in Booted, v.pc \in Booted
    PROVE  IInv'
<1>1. (Daemon(v) <=> Daemon(proc[p])) /\ proc[p].pc \notin Leftover
  BY DEF Daemon, Booted, Leftover
<1> QED BY <1>1, OneChanges, Zenon

(* init() gives up. *)
LEMMA FailsInitKeeps ==
    ASSUME IInv, NEW p \in Process, proc[p].pc \in {"term", "int", "parser", "listen"}, FailsInit(p)
    PROVE  IInv'
<1> DEFINE q == proc[p]
           v == [q EXCEPT !.pc = "initFailed"]
<1>1. proc' = [proc EXCEPT ![p] = v] /\ pidFile' = pidFile
  BY DEF FailsInit, Goes
<1>2. Sound(q) /\ IsProcess(q) /\ q.pc \in {"term", "int", "parser", "listen"}
  BY HandlesOf
<1> HIDE DEF q
<1>3. /\ IsProcess(v) /\ v.pc = "initFailed" /\ v.handles = q.handles /\ v.shared = q.shared
      /\ v.parser = q.parser /\ v.served = q.served /\ v.shuttingDown = q.shuttingDown
      /\ v.daemonize = q.daemonize
  BY <1>2 DEF IsProcess
<1> HIDE DEF v
<1>4. ~q.served /\ ~q.shuttingDown
  BY <1>2, Zenon DEF Sound, Phase, Early
<1>5. Phase(v)
  BY <1>3, <1>4 DEF Phase, Early
<1>6. Sound(v)
  BY <1>2, <1>3, <1>5 DEF Sound
<1>7. q.pc \in Booted /\ v.pc \in Booted
  BY <1>2, <1>3 DEF Booted
<1> QED BY <1>1, <1>3, <1>6, <1>7, Moves, Zenon DEF q

(* A signal is handled from here on. *)
LEMMA RegisterSignalKeeps ==
    ASSUME IInv, NEW p \in Process, NEW s \in Signal, NEW next,
           (s = "term" /\ next = "int") \/ (s = "int" /\ next = "parser"),
           registerSignal(p, s, next)
    PROVE  IInv'
<1> DEFINE q == proc[p]
           b == [q.handles EXCEPT ![s] = Opened("active")]
           v == [[q EXCEPT !.handled = @ \cup {s}, !.handles[s] = Opened("active")]
                    EXCEPT !.pc = next]
<1>1. Sound(q) /\ IsProcess(q) /\ IsHandles(q.handles) /\ Owned(q.handles)
  BY HandlesOf
<1>2. q.pc = s
  BY DEF registerSignal, At
<1>3. CASE FailsInit(p)
  BY <1>2, <1>3, FailsInitKeeps DEF Signal
<1>4. CASE proc' = [proc EXCEPT ![p] = v] /\ pidFile' = pidFile
  <2> HIDE DEF q
  <2>1. IsHandles(b) /\ b[s] = Opened("active") /\ \A k \in Handle \ {s} : b[k] = q.handles[k]
    BY <1>1, OpenedIs, Replaced DEF Handle
  <2>2. /\ IsProcess(v) /\ v.pc = next /\ v.handles = b /\ v.shared = q.shared
        /\ v.parser = q.parser /\ v.served = q.served /\ v.shuttingDown = q.shuttingDown
        /\ v.daemonize = q.daemonize /\ v.handled = q.handled \cup {s}
    BY <1>1, <2>1 DEF IsProcess
  <2> HIDE DEF b, v
  <2>3. Owned(b)
    BY <1>1, <2>1, OpenedIs DEF Owned, Handle, Signal
  <2>4. ~q.served /\ ~q.shuttingDown
    BY <1>1, <1>2 DEF Sound, Phase, Early, Signal
  <2>5. ASSUME s = "term" PROVE Phase(v)
    <3>1. v.pc = "int" /\ "term" \in v.handled /\ v.handles["term"].uv = "active"
      BY <2>1, <2>2, <2>5, OpenedIs
    <3> QED BY <2>2, <2>4, <3>1 DEF Phase, Early
  <2>6. ASSUME s = "int" PROVE Phase(v)
    <3>1. "term" \in q.handled /\ q.handles["term"].uv = "active"
      BY <1>1, <1>2, <2>6 DEF Sound, Phase
    <3>2. v.pc = "parser" /\ Catches(v)
      BY <2>1, <2>2, <2>6, <3>1, OpenedIs DEF Catches, Signal, Handle
    <3> QED BY <2>2, <2>4, <3>2 DEF Phase, Early
  <2>7. Phase(v)
    BY <2>5, <2>6 DEF Signal
  <2>8. v.parser # "none" => v.handles["async"].uv = "active"
    BY <1>1, <2>1, <2>2 DEF Sound, Handle, Signal
  <2>9. Sound(v)
    BY <2>2, <2>3, <2>7, <2>8 DEF Sound
  <2>10. q.pc \in Booted /\ v.pc \in Booted
    BY <1>2, <2>2 DEF Booted, Signal
  <2> QED BY <1>4, <2>2, <2>9, <2>10, Moves, Zenon DEF q
<1> QED BY <1>3, <1>4 DEF registerSignal, Goes

(* The async handles are open before the parser runs. *)
LEMMA StartParserKeeps == ASSUME IInv, NEW p \in Process, startParser(p) PROVE IInv'
<1> DEFINE q == proc[p]
           a == [q.handles EXCEPT !["listener"] = Opened("inactive")]
           b == [a EXCEPT !["reaper"] = Opened("inactive")]
           c == [b EXCEPT !["async"] = Opened("active")]
           v == [[q EXCEPT !.parser = "running",
                           !.handles["listener"] = Opened("inactive"),
                           !.handles["reaper"] = Opened("inactive"),
                           !.handles["async"] = Opened("active")] EXCEPT !.pc = "listen"]
<1>1. Sound(q) /\ IsProcess(q) /\ IsHandles(q.handles) /\ Owned(q.handles)
  BY HandlesOf
<1>2. q.pc = "parser"
  BY DEF startParser, At
<1>3. CASE FailsInit(p)
  BY <1>2, <1>3, FailsInitKeeps
<1>4. CASE proc' = [proc EXCEPT ![p] = v] /\ pidFile' = pidFile
  <2> HIDE DEF q
  <2>1. IsHandles(a) /\ a["listener"] = Opened("inactive")
        /\ \A k \in Handle \ {"listener"} : a[k] = q.handles[k]
    BY <1>1, OpenedIs, Replaced DEF Handle
  <2>2. IsHandles(b) /\ b["reaper"] = Opened("inactive")
        /\ \A k \in Handle \ {"reaper"} : b[k] = a[k]
    BY <2>1, OpenedIs, Replaced DEF Handle
  <2>3. IsHandles(c) /\ c["async"] = Opened("active") /\ \A k \in Handle \ {"async"} : c[k] = b[k]
    BY <2>2, OpenedIs, Replaced DEF Handle
  <2>4. /\ IsProcess(v) /\ v.pc = "listen" /\ v.handles = c /\ v.shared = q.shared
        /\ v.parser = "running" /\ v.served = q.served /\ v.shuttingDown = q.shuttingDown
        /\ v.daemonize = q.daemonize /\ v.handled = q.handled
    BY <1>1, <2>3 DEF IsProcess
  <2> HIDE DEF a, b, c, v
  <2>5. /\ c["listener"] = Opened("inactive") /\ c["reaper"] = Opened("inactive")
        /\ c["async"] = Opened("active")
        /\ \A k \in Handle \ {"listener", "reaper", "async"} : c[k] = q.handles[k]
    BY <2>1, <2>2, <2>3 DEF Handle
  <2>6. Owned(c)
    BY <1>1, <2>5, OpenedIs DEF Owned, Handle, Signal
  <2>7. ~q.served /\ ~q.shuttingDown /\ Catches(q)
    BY <1>1, <1>2, Zenon DEF Sound, Phase, Early
  <2>8. Serves(v) /\ v.handles["listener"].held
    BY <2>4, <2>5, <2>7, OpenedIs DEF Serves, Catches, Signal, Handle
  <2>9. Phase(v)
    BY <2>4, <2>7, <2>8, Zenon DEF Phase, Early
  <2>10. Sound(v)
    BY <2>4, <2>5, <2>6, <2>9, OpenedIs DEF Sound
  <2>11. q.pc \in Booted /\ v.pc \in Booted
    BY <1>2, <2>4 DEF Booted
  <2> QED BY <1>4, <2>4, <2>10, <2>11, Moves, Zenon DEF q
<1> QED BY <1>3, <1>4 DEF startParser, Goes

(* The process serves: everything is in place. *)
LEMMA ListenKeeps == ASSUME IInv, NEW p \in Process, listen(p) PROVE IInv'
<1> DEFINE q == proc[p]
           x == [q.handles["listener"] EXCEPT !.uv = "active"]
           y == IF q.daemonize THEN Opened("active") ELSE NoHandle
           a == [q.handles EXCEPT !["listener"] = x]
           b == [a EXCEPT !["prune"] = y]
           v == [[q EXCEPT !.served = TRUE,
                           !.handles["listener"].uv = "active",
                           !.handles["prune"] = IF proc[p].daemonize
                                                THEN Opened("active") ELSE NoHandle]
                    EXCEPT !.pc = "loop"]
<1>1. Sound(q) /\ IsProcess(q) /\ IsHandles(q.handles) /\ Owned(q.handles)
  BY HandlesOf
<1>2. q.pc = "listen"
  BY DEF listen, At
<1>3. CASE FailsInit(p)
  BY <1>2, <1>3, FailsInitKeeps
<1>4. CASE proc' = [proc EXCEPT ![p] = v] /\ pidFile' = pidFile
  <2>1. /\ IsHandle(x) /\ x.uv = "active" /\ x.data = q.handles["listener"].data
        /\ x.held = q.handles["listener"].held
    BY <1>1 DEF IsHandles, IsHandle, Uv, Handle
  <2>2. IsHandle(y) /\ (y.data <=> y.held) /\ (y.uv # "none" => y.held)
    BY OpenedIs, NoHandleIs
  <2>3. v.handles = b
    BY <1>1 DEF IsProcess, IsHandles, Handle
  <2> HIDE DEF y
  <2>4. /\ DOMAIN v = DOMAIN q
        /\ v.pc = "loop" /\ v.shared = q.shared
        /\ v.parser = q.parser /\ v.served = TRUE /\ v.shuttingDown = q.shuttingDown
        /\ v.daemonize = q.daemonize /\ v.handled = q.handled
    BY <1>1 DEF IsProcess
  <2> HIDE DEF q, x, v
  <2>5. IsHandles(a) /\ a["listener"] = x /\ \A k \in Handle \ {"listener"} : a[k] = q.handles[k]
    BY <1>1, <2>1, Replaced DEF Handle
  <2> HIDE DEF a
  <2>6. IsHandles(b) /\ b["prune"] = y /\ \A k \in Handle \ {"prune"} : b[k] = a[k]
    BY <2>2, <2>5, Replaced DEF Handle
  <2> HIDE DEF b
  <2>7. b["listener"] = x /\ \A k \in Handle \ {"listener", "prune"} : b[k] = q.handles[k]
    BY <2>5, <2>6 DEF Handle
  <2>8. ~q.shuttingDown /\ Serves(q) /\ q.handles["listener"].held
    BY <1>1, <1>2, Zenon DEF Sound, Phase, Early
  <2>9. Owned(b)
    <3>1. x.held /\ x.data
      BY <1>1, <2>1, <2>8 DEF Owned, Handle
    <3>2. Owned(a)
      BY <1>1, <2>5, <3>1, ReplacedOwned DEF Handle
    <3>3. "prune" \in Handle \ {"write"} /\ "prune" # "socket" /\ "prune" # "timer"
      BY DEF Handle
    <3>4. y.uv # "none" /\ ~y.held => y.uv = "closing"
      BY <2>2
    <3> QED BY <2>2, <2>6, <3>2, <3>3, <3>4, ReplacedOwned, SMTT(30)
  <2>10. Serves(v)
    BY <2>3, <2>4, <2>7, <2>8 DEF Serves, Catches, Signal, Handle
  <2>11. Phase(v)
    BY <2>4, <2>8, <2>10 DEF Phase, Early
  <2>12. v.parser # "none" => v.handles["async"].uv = "active"
    BY <1>1, <2>3, <2>4, <2>7 DEF Sound, Handle
  <2>13. Sound(v)
    BY <1>1, <2>3, <2>4, <2>6, <2>9, <2>11, <2>12, Zenon DEF Sound, IsProcess
  <2>14. q.pc \in Booted /\ v.pc \in Booted
    BY <1>2, <2>4 DEF Booted
  <2> QED BY <1>4, <2>4, <2>13, <2>14, Moves, Zenon DEF q
<1> QED BY <1>3, <1>4 DEF listen, Goes
-----------------------------------------------------------------------------
(* main() returns; a daemon takes its file along. *)
LEMMA ExitKeeps ==
    ASSUME IInv, NEW p \in Process, proc[p].pc \in {"initFailed", "stopped"},
           Goes(p, "exited", Ended(proc[p], "exited")), removePidFile(p)
    PROVE  IInv'
<1> DEFINE w == [Ended(proc[p], "exited") EXCEPT !.pc = "exited"]
<1>1. w = Ended(proc[p], "exited")
  BY Zenon DEF Ended, Fresh
<1>2. Sound(w) /\ ~Daemon(w)
  BY <1>1, HandlesOf, EndedSound
<1>3. proc' = [proc EXCEPT ![p] = w]
  BY DEF Goes
<1> HIDE DEF w
<1>4. proc[p].daemonize \in BOOLEAN
  BY HandlesOf DEF IsProcess
<1>5. CASE proc[p].daemonize
  <2>1. pidFile' = None /\ Daemon(proc[p])
    BY <1>5 DEF removePidFile, Daemon, Booted
  <2> QED BY <1>2, <1>3, <2>1, OneChanges, Zenon
<1>6. CASE ~proc[p].daemonize
  <2>1. pidFile' = pidFile /\ pidFile # p
    BY <1>6 DEF removePidFile, Daemon, IInv, Filed, Leftover
  <2> QED BY <1>2, <1>3, <2>1, OneChanges, Zenon
<1> QED BY <1>4, <1>5, <1>6

(* A signal kills only before the process serves. *)
LEMMA DeliverKeeps ==
    ASSUME IInv, NEW p \in Process, NEW s \in Signal, deliver(p, s) PROVE IInv'
<1> DEFINE q == proc[p]
           fatal == s \notin q.handled /\ (s \notin q.blocked \/ q.parser # "none")
           v == [q EXCEPT !.caught = @ \cup (q.handled \cap {s})]
           w == Ended(q, "killed")
<1>1. /\ q.pc \notin Gone /\ pidFile' = pidFile
      /\ proc' = [proc EXCEPT ![p] = IF fatal THEN w ELSE v]
  BY DEF deliver
<1>2. Sound(q) /\ IsProcess(q)
  BY HandlesOf
<1>3. CASE fatal
  <2>1. ~(Signal \subseteq q.handled) /\ ~Alone(q)
    BY <1>3 DEF Alone
  <2> HIDE DEF fatal
  <2>2. ~Serves(q) /\ ~Catches(q)
    BY <2>1 DEF Serves, Catches
  <2> HIDE DEF q
  <2>3. Phase(q) /\ q.shuttingDown \in BOOLEAN
    BY <1>2 DEF Sound, IsProcess
  <2>4. q.pc \in Early
    BY <1>1, <2>1, <2>2, <2>3 DEF Phase, Gone, Early
  <2>5. ~q.served
    BY <2>3, <2>4, Zenon DEF Phase
  <2>6. Sound(w) /\ ~Daemon(w) /\ w.pc \in Leftover
    BY <1>2, <2>5, EndedSound DEF Leftover
  <2>7. proc' = [proc EXCEPT ![p] = w]
    BY <1>1, <1>3
  <2> HIDE DEF w
  <2> QED BY <1>1, <2>6, <2>7, OneChanges, Zenon
<1>4. CASE ~fatal
  <2>1. proc' = [proc EXCEPT ![p] = v]
    BY <1>1, <1>4, Zenon
  <2> HIDE DEF fatal
  <2> HIDE DEF q
  <2>2. /\ IsProcess(v) /\ v.pc = q.pc /\ v.daemonize = q.daemonize /\ v.handles = q.handles
        /\ v.parser = q.parser /\ v.served = q.served /\ v.shuttingDown = q.shuttingDown
        /\ v.handled = q.handled /\ v.blocked = q.blocked /\ v.shared = q.shared
    BY <1>2 DEF IsProcess
  <2> HIDE DEF v
  <2>3. Phase(v)
    BY <1>2, <2>2, PhaseOfAlike DEF Sound
  <2>4. Sound(v)
    BY <1>2, <2>2, <2>3 DEF Sound
  <2>5. (Daemon(v) <=> Daemon(q)) /\ q.pc \notin Leftover
    BY <1>1, <2>2 DEF Daemon, Gone, Leftover
  <2> QED BY <1>1, <2>1, <2>2, <2>4, <2>5, OneChanges, Zenon DEF q
<1> QED BY <1>3, <1>4

(* The parser thread ends. *)
LEMMA ParserReturnsKeeps == ASSUME IInv, NEW p \in Process, parserReturns(p) PROVE IInv'
<1> DEFINE q == proc[p]
           v == [q EXCEPT !.parser = "none"]
<1>1. q.parser = "stopping" /\ pidFile' = pidFile /\ proc' = [proc EXCEPT ![p] = v]
  BY DEF parserReturns, Update
<1>2. Sound(q) /\ IsProcess(q)
  BY HandlesOf
<1> HIDE DEF q
<1>3. /\ IsProcess(v) /\ v.pc = q.pc /\ v.daemonize = q.daemonize /\ v.handles = q.handles
      /\ v.parser = "none" /\ v.served = q.served /\ v.shuttingDown = q.shuttingDown
      /\ v.handled = q.handled /\ v.blocked = q.blocked /\ v.shared = q.shared
  BY <1>2 DEF IsProcess
<1> HIDE DEF v
<1>4. ~Serves(q) /\ ~Alone(q)
  BY <1>1 DEF Serves, Alone
<1>5. Phase(v)
  BY <1>2, <1>3, <1>4, Zenon DEF Sound, Phase, Catches
<1>6. Sound(v)
  BY <1>2, <1>3, <1>5, Zenon DEF Sound
<1>7. Daemon(v) <=> Daemon(q)
  BY <1>3 DEF Daemon
<1>8. CASE q.pc \notin Leftover
  BY <1>1, <1>3, <1>6, <1>7, <1>8, OneChanges, Zenon DEF q
<1>9. CASE q.pc \in Leftover
  <2>1. ~Daemon(v)
    BY <1>3, <1>9 DEF Daemon, Booted, Leftover
  <2> QED BY <1>1, <1>3, <1>6, <1>9, <2>1, OneChanges, Zenon DEF q
<1> QED BY <1>8, <1>9

(* shutdown() begins with everything in place. *)
LEMMA OnSignalKeeps == ASSUME IInv, NEW p \in Process, onSignal(p) PROVE IInv'
<1> DEFINE q == proc[p]
<1>1. PICK s \in q.caught :
         Goes(p, "mask", [q EXCEPT !.shuttingDown = TRUE, !.caught = @ \ {s}])
  BY Zenon DEF onSignal
<1> DEFINE v == [[q EXCEPT !.shuttingDown = TRUE, !.caught = @ \ {s}] EXCEPT !.pc = "mask"]
<1>2. /\ q.pc = "loop" /\ ~q.shuttingDown /\ pidFile' = pidFile
      /\ proc' = [proc EXCEPT ![p] = v]
  BY <1>1, Zenon DEF onSignal, Running, At, Goes
<1>3. Sound(q) /\ IsProcess(q)
  BY HandlesOf, Zenon
<1> HIDE DEF q
<1>4. /\ IsProcess(v) /\ v.pc = "mask" /\ v.daemonize = q.daemonize /\ v.handles = q.handles
      /\ v.parser = q.parser /\ v.served = q.served /\ v.shuttingDown = TRUE
      /\ v.handled = q.handled /\ v.blocked = q.blocked /\ v.shared = q.shared
  BY <1>3 DEF IsProcess
<1> HIDE DEF v
<1>5. Serves(q)
  BY <1>2, <1>3, Zenon DEF Sound, Phase
<1>6. Serves(v)
  BY <1>4, <1>5 DEF Serves, Catches
<1>7. Phase(v)
  BY <1>4, <1>6, Zenon DEF Phase, Early
<1>8. Sound(v)
  BY <1>3, <1>4, <1>7 DEF Sound
<1>9. q.pc \in Booted /\ v.pc \in Booted
  BY <1>2, <1>4 DEF Booted
<1> QED BY <1>2, <1>4, <1>8, <1>9, Moves, Zenon DEF q

(* A step of shutdown() that changes handles, and perhaps the signals or the parser. *)
LEMMA StepKeeps ==
    ASSUME IInv, NEW p \in Process, NEW pc, NEW v, proc[p].pc = pc,
           pc \in {"mask", "sessions", "join", "resetPrune", "stopTerm", "stopInt"},
           proc' = [proc EXCEPT ![p] = v], pidFile' = pidFile, v.pc = Order[pc],
           v.daemonize = proc[p].daemonize, v.shared = proc[p].shared,
           IsProcess(v), Owned(v.handles), Phase(v),
           v.parser # "none" => v.handles["async"].uv = "active"
    PROVE  IInv'
<1>1. Sound(v)
  BY DEF Sound
<1>2. proc[p].pc \in Booted /\ v.pc \in Booted
  BY DEF Booted, Order
<1> QED BY <1>1, <1>2, Moves, Zenon

(* pthread_sigmask(). *)
LEMMA BlockSignalsKeeps == ASSUME IInv, NEW p \in Process, blockSignals(p) PROVE IInv'
<1> DEFINE q == proc[p]
           v == [[q EXCEPT !.blocked = Signal] EXCEPT !.pc = Order["mask"]]
<1>1. q.pc = "mask" /\ pidFile' = pidFile /\ proc' = [proc EXCEPT ![p] = v]
  BY DEF blockSignals, Step, At, Goes
<1>2. Sound(q) /\ IsProcess(q)
  BY HandlesOf
<1> HIDE DEF q
<1>3. /\ IsProcess(v) /\ v.pc = Order["mask"] /\ v.daemonize = q.daemonize
      /\ v.handles = q.handles /\ v.parser = q.parser /\ v.served = q.served
      /\ v.shuttingDown = q.shuttingDown /\ v.handled = q.handled /\ v.blocked = Signal
      /\ v.shared = q.shared
  BY <1>2 DEF IsProcess
<1> HIDE DEF v
<1>4. Serves(q) /\ q.shuttingDown
  BY <1>1, <1>2, Zenon DEF Sound, Phase
<1>5. Serves(v) /\ v.pc = "sessions"
  BY <1>3, <1>4 DEF Serves, Catches, Order
<1>6. Phase(v)
  BY <1>3, <1>4, <1>5, Zenon DEF Phase, Early
<1>7. Owned(v.handles) /\ (v.parser # "none" => v.handles["async"].uv = "active")
  BY <1>2, <1>3 DEF Sound
<1> QED BY <1>1, <1>3, <1>6, <1>7, StepKeeps, Zenon DEF q

(* SessionManager::close(): the async handles stay until the join. *)
LEMMA CloseSessionsKeeps == ASSUME IInv, NEW p \in Process, closeSessions(p) PROVE IInv'
<1> DEFINE q == proc[p]
           a == Close(q.handles, "listener")
           b == DestroySession(a)
           v == [[q EXCEPT !.handles = b, !.parser = "stopping"] EXCEPT !.pc = Order["sessions"]]
<1>1. q.pc = "sessions" /\ pidFile' = pidFile /\ proc' = [proc EXCEPT ![p] = v]
  BY DEF closeSessions, Step, At, Goes
<1>2. Sound(q) /\ IsProcess(q) /\ IsHandles(q.handles) /\ Owned(q.handles)
  BY HandlesOf
<1> HIDE DEF q
<1>3. /\ IsHandles(a) /\ Owned(a) /\ a["listener"].uv \notin {"inactive", "active"}
      /\ \A k \in Handle \ {"listener"} : a[k] = q.handles[k]
  BY <1>2, CloseKeeps DEF Handle
<1> HIDE DEF a
<1>4. /\ IsHandles(b) /\ Owned(b) /\ Settled(b, {"socket", "timer", "write"})
      /\ \A k \in Handle \ {"socket", "timer", "write"} : b[k] = a[k]
  BY <1>3, DestroySessionKeeps
<1> HIDE DEF b
<1>5. /\ IsProcess(v) /\ v.pc = Order["sessions"] /\ v.daemonize = q.daemonize
      /\ v.handles = b /\ v.parser = "stopping" /\ v.served = q.served
      /\ v.shuttingDown = q.shuttingDown /\ v.handled = q.handled /\ v.blocked = q.blocked
      /\ v.shared = q.shared
  BY <1>2, <1>4 DEF IsProcess
<1> HIDE DEF v
<1>6. Serves(q) /\ Signal \subseteq q.blocked /\ q.shuttingDown
  BY <1>1, <1>2, Zenon DEF Sound, Phase
<1>7. v.handles["async"].uv = "active"
  <2>1. q.handles["async"].uv = "active"
    BY <1>2, <1>6 DEF Sound, Serves
  <2> QED BY <1>3, <1>4, <1>5, <2>1 DEF Handle
<1>8. Catches(v) /\ Signal \subseteq v.blocked /\ v.pc = "join"
  BY <1>3, <1>4, <1>5, <1>6 DEF Serves, Catches, Order, Handle, Signal
<1>9. Settled(v.handles, OfSession)
  BY <1>3, <1>4, <1>5 DEF Settled, OfSession, Handle
<1>10. Phase(v)
  BY <1>5, <1>6, <1>8, <1>9, Zenon DEF Phase, Early
<1> QED BY <1>1, <1>4, <1>5, <1>7, <1>10, StepKeeps, Zenon DEF q

(* From the join on no thread is left that does not block the signals. *)
LEMMA JoinParserKeeps == ASSUME IInv, NEW p \in Process, joinParser(p) PROVE IInv'
<1> DEFINE q == proc[p]
           a == Destroy(q.handles, "async")
           b == Destroy(a, "reaper")
           v == [[q EXCEPT !.handles = b] EXCEPT !.pc = Order["join"]]
<1>1. q.pc = "join" /\ q.parser = "none" /\ pidFile' = pidFile /\ proc' = [proc EXCEPT ![p] = v]
  BY DEF joinParser, Step, At, Goes
<1>2. Sound(q) /\ IsProcess(q) /\ IsHandles(q.handles) /\ Owned(q.handles)
  BY HandlesOf
<1> HIDE DEF q
<1>3. /\ IsHandles(a) /\ Owned(a) /\ a["async"].uv # "inactive"
      /\ \A k \in Handle \ {"async"} : a[k] = q.handles[k]
  BY <1>2, DestroyKeeps DEF Handle
<1> HIDE DEF a
<1>4. /\ IsHandles(b) /\ Owned(b) /\ b["reaper"].uv # "inactive"
      /\ \A k \in Handle \ {"reaper"} : b[k] = a[k]
  BY <1>3, DestroyKeeps DEF Handle
<1> HIDE DEF b
<1>5. /\ IsProcess(v) /\ v.pc = Order["join"] /\ v.daemonize = q.daemonize
      /\ v.handles = b /\ v.parser = "none" /\ v.served = q.served
      /\ v.shuttingDown = q.shuttingDown /\ v.handled = q.handled /\ v.blocked = q.blocked
      /\ v.shared = q.shared
  BY <1>1, <1>2, <1>4 DEF IsProcess
<1> HIDE DEF v
<1>6. /\ Catches(q) /\ Signal \subseteq q.blocked /\ q.shuttingDown
      /\ Settled(q.handles, OfSession)
  BY <1>1, <1>2, Zenon DEF Sound, Phase
<1>7. Catches(v) /\ Alone(v) /\ v.pc = "resetPrune"
  BY <1>3, <1>4, <1>5, <1>6 DEF Alone, Catches, Order, Handle, Signal
<1>8. Settled(v.handles, OfSession \cup OfParser)
  BY <1>3, <1>4, <1>5, <1>6 DEF Settled, OfSession, OfParser, Handle
<1>9. Phase(v)
  BY <1>5, <1>6, <1>7, <1>8, Zenon DEF Phase, Early
<1> QED BY <1>1, <1>4, <1>5, <1>9, StepKeeps, Zenon DEF q

(* The prune timer. *)
LEMMA ResetPruneKeeps == ASSUME IInv, NEW p \in Process, resetPrune(p) PROVE IInv'
<1> DEFINE q == proc[p]
           b == Destroy(q.handles, "prune")
           v == [[q EXCEPT !.handles = b] EXCEPT !.pc = Order["resetPrune"]]
<1>1. q.pc = "resetPrune" /\ pidFile' = pidFile /\ proc' = [proc EXCEPT ![p] = v]
  BY DEF resetPrune, Step, At, Goes
<1>2. Sound(q) /\ IsProcess(q) /\ IsHandles(q.handles) /\ Owned(q.handles)
  BY HandlesOf
<1> HIDE DEF q
<1>3. /\ IsHandles(b) /\ Owned(b) /\ b["prune"].uv # "inactive"
      /\ \A k \in Handle \ {"prune"} : b[k] = q.handles[k]
  BY <1>2, DestroyKeeps DEF Handle
<1> HIDE DEF b
<1>4. /\ IsProcess(v) /\ v.pc = Order["resetPrune"] /\ v.daemonize = q.daemonize
      /\ v.handles = b /\ v.parser = q.parser /\ v.served = q.served
      /\ v.shuttingDown = q.shuttingDown /\ v.handled = q.handled /\ v.blocked = q.blocked
      /\ v.shared = q.shared
  BY <1>2, <1>3 DEF IsProcess
<1> HIDE DEF v
<1>5. /\ Catches(q) /\ Alone(q) /\ q.shuttingDown
      /\ Settled(q.handles, OfSession \cup OfParser)
  BY <1>1, <1>2, Zenon DEF Sound, Phase
<1>6. Catches(v) /\ Alone(v) /\ v.pc = "stopTerm"
  BY <1>3, <1>4, <1>5 DEF Alone, Catches, Order, Handle, Signal
<1>7. Settled(v.handles, Handle \ Signal)
  BY <1>3, <1>4, <1>5 DEF Settled, OfSession, OfParser, Handle, Signal
<1>8. Phase(v)
  BY <1>4, <1>5, <1>6, <1>7, Zenon DEF Phase, Early
<1>9. v.parser = "none"
  BY <1>6 DEF Alone
<1> QED BY <1>1, <1>3, <1>4, <1>8, <1>9, StepKeeps, Zenon DEF q

(* uv_signal_stop(): the handle of an object that exists becomes inactive. *)
LEMMA StopKeeps ==
    ASSUME NEW hs, IsHandles(hs), Owned(hs), NEW s \in Signal, hs[s].uv = "active"
    PROVE  LET o == [hs EXCEPT ![s].uv = "inactive"]
           IN  /\ IsHandles(o) /\ Owned(o) /\ o[s].uv = "inactive"
               /\ \A k \in Handle \ {s} : o[k] = hs[k]
<1> DEFINE x == [hs[s] EXCEPT !.uv = "inactive"]
           o == [hs EXCEPT ![s].uv = "inactive"]
<1>1. /\ IsHandle(x) /\ x.uv = "inactive" /\ x.data = hs[s].data /\ x.held = hs[s].held
      /\ o = [hs EXCEPT ![s] = x]
  BY DEF IsHandles, IsHandle, Uv, Handle
<1> HIDE DEF x
<1>2. IsHandles(o) /\ o[s] = x /\ \A k \in Handle \ {s} : o[k] = hs[k]
  BY <1>1, Replaced DEF Handle
<1> HIDE DEF o
<1>3. Owned(o)
  BY <1>1, <1>2 DEF Owned, Handle, Signal
<1> QED BY <1>1, <1>2, <1>3 DEF o

(* The handlers go while both signals are blocked. *)
LEMMA StopTermKeeps == ASSUME IInv, NEW p \in Process, stopTerm(p) PROVE IInv'
<1> DEFINE q == proc[p]
           b == [q.handles EXCEPT !["term"].uv = "inactive"]
           v == [[q EXCEPT !.handled = @ \ {"term"}, !.handles["term"].uv = "inactive"]
                    EXCEPT !.pc = Order["stopTerm"]]
<1>1. q.pc = "stopTerm" /\ pidFile' = pidFile /\ proc' = [proc EXCEPT ![p] = v]
  BY DEF stopTerm, Step, At, Goes
<1>2. Sound(q) /\ IsProcess(q) /\ IsHandles(q.handles) /\ Owned(q.handles)
  BY HandlesOf
<1> HIDE DEF q
<1>3. /\ Catches(q) /\ Alone(q) /\ q.shuttingDown
      /\ Settled(q.handles, Handle \ Signal)
  BY <1>1, <1>2 DEF Sound, Phase
<1>4. /\ IsHandles(b) /\ Owned(b) /\ b["term"].uv = "inactive"
      /\ \A k \in Handle \ {"term"} : b[k] = q.handles[k]
  BY <1>2, <1>3, StopKeeps, Zenon DEF Catches, Signal
<1>5. /\ IsProcess(v) /\ v.pc = Order["stopTerm"] /\ v.daemonize = q.daemonize
      /\ v.handles = b /\ v.parser = q.parser /\ v.served = q.served
      /\ v.shuttingDown = q.shuttingDown /\ v.blocked = q.blocked /\ v.shared = q.shared
  BY <1>2, <1>4 DEF IsProcess
<1> HIDE DEF b, v
<1>6. Alone(v) /\ v.pc = "stopInt" /\ v.handles["int"].uv = "active"
  BY <1>3, <1>4, <1>5, Zenon DEF Alone, Catches, Order, Handle, Signal
<1>7. Settled(v.handles, Handle \ Signal)
  BY <1>3, <1>4, <1>5 DEF Settled, Handle, Signal
<1>8. Phase(v)
  BY <1>3, <1>4, <1>5, <1>6, <1>7, Zenon DEF Phase, Early
<1>9. v.parser = "none"
  BY <1>6 DEF Alone
<1> QED BY <1>1, <1>4, <1>5, <1>8, <1>9, StepKeeps, Zenon DEF q

(* ... and with the last one the signal handles are closed. *)
LEMMA StopIntKeeps == ASSUME IInv, NEW p \in Process, stopInt(p) PROVE IInv'
<1> DEFINE q == proc[p]
           a == [q.handles EXCEPT !["int"].uv = "inactive"]
           b == Close(a, "term")
           c == Close(b, "int")
           v == [[q EXCEPT !.handled = @ \ {"int"}, !.handles = c] EXCEPT !.pc = Order["stopInt"]]
<1>1. q.pc = "stopInt" /\ pidFile' = pidFile /\ proc' = [proc EXCEPT ![p] = v]
  BY DEF stopInt, Step, At, Goes
<1>2. Sound(q) /\ IsProcess(q) /\ IsHandles(q.handles) /\ Owned(q.handles)
  BY HandlesOf
<1> HIDE DEF q
<1>3. /\ Alone(q) /\ q.shuttingDown /\ q.handles["int"].uv = "active"
      /\ Settled(q.handles, Handle \ Signal)
  BY <1>1, <1>2 DEF Sound, Phase
<1>4. IsHandles(a) /\ Owned(a) /\ \A k \in Handle \ {"int"} : a[k] = q.handles[k]
  BY <1>2, <1>3, StopKeeps, Zenon DEF Signal
<1> HIDE DEF a
<1>5. /\ IsHandles(b) /\ Owned(b) /\ b["term"].uv # "inactive"
      /\ \A k \in Handle \ {"term"} : b[k] = a[k]
  BY <1>4, CloseKeeps DEF Handle, Signal
<1> HIDE DEF b
<1>6. /\ IsHandles(c) /\ Owned(c) /\ c["int"].uv # "inactive"
      /\ \A k \in Handle \ {"int"} : c[k] = b[k]
  BY <1>5, CloseKeeps DEF Handle, Signal
<1> HIDE DEF c
<1>7. /\ IsProcess(v) /\ v.pc = Order["stopInt"] /\ v.daemonize = q.daemonize
      /\ v.handles = c /\ v.parser = q.parser /\ v.served = q.served
      /\ v.shuttingDown = q.shuttingDown /\ v.blocked = q.blocked /\ v.shared = q.shared
  BY <1>2, <1>6 DEF IsProcess
<1> HIDE DEF v
<1>8. Alone(v) /\ v.pc = "loop"
  BY <1>3, <1>7 DEF Alone, Order
<1>9. Settled(v.handles, Handle)
  BY <1>3, <1>4, <1>5, <1>6, <1>7 DEF Settled, Handle, Signal
<1>10. Phase(v)
  BY <1>3, <1>7, <1>8, <1>9, Zenon DEF Phase, Early
<1>11. v.parser = "none"
  BY <1>8 DEF Alone
<1> QED BY <1>1, <1>6, <1>7, <1>10, <1>11, StepKeeps, Zenon DEF q

(* The loop ends only after shutdown(): the signal handles kept it alive. *)
LEMMA RunReturnsKeeps == ASSUME IInv, NEW p \in Process, runReturns(p) PROVE IInv'
<1> DEFINE q == proc[p]
           v == [q EXCEPT !.pc = "stopped"]
<1>1. /\ q.pc = "loop" /\ ~Alive(q.handles) /\ pidFile' = pidFile
      /\ proc' = [proc EXCEPT ![p] = v]
  BY DEF runReturns, At, Goes
<1>2. Sound(q) /\ IsProcess(q) /\ IsHandles(q.handles)
  BY HandlesOf
<1> HIDE DEF q
<1>3. ~Catches(q) /\ ~Serves(q)
  BY <1>1 DEF Alive, Catches, Serves, Handle, Signal
<1>4. q.shuttingDown /\ Alone(q) /\ Settled(q.handles, Handle)
  BY <1>1, <1>2, <1>3 DEF Sound, Phase, IsProcess
<1>5. \A h \in Handle : q.handles[h].uv \in {"none", "closed"}
  BY <1>1, <1>2, <1>4 DEF Alive, Settled, IsHandles, IsHandle, Uv
<1>6. /\ IsProcess(v) /\ v.pc = "stopped" /\ v.daemonize = q.daemonize
      /\ v.handles = q.handles /\ v.parser = q.parser /\ v.served = q.served
      /\ v.shuttingDown = q.shuttingDown /\ v.blocked = q.blocked /\ v.shared = q.shared
  BY <1>2 DEF IsProcess
<1> HIDE DEF v
<1>7. Alone(v)
  BY <1>4, <1>6 DEF Alone
<1>8. Phase(v)
  BY <1>4, <1>5, <1>6, <1>7, Zenon DEF Phase, Early
<1>9. Sound(v)
  BY <1>2, <1>6, <1>8, Zenon DEF Sound
<1>10. q.pc \in Booted /\ v.pc \in Booted
  BY <1>1, <1>6 DEF Booted
<1> QED BY <1>1, <1>6, <1>9, <1>10, Moves, Zenon DEF q
-----------------------------------------------------------------------------
(* No process has begun. *)
LEMMA InitSound == Init => IInv
<1> SUFFICES ASSUME Init PROVE IInv
  OBVIOUS
<1>1. /\ DOMAIN Fresh = {"pc", "port", "daemonize", "asAsked", "served", "shuttingDown",
                         "blocked", "handled", "caught", "parser", "handles", "shared"}
      /\ Fresh.pc = "ready" /\ Fresh.daemonize = FALSE /\ Fresh.served = FALSE
      /\ Fresh.shuttingDown = FALSE /\ Fresh.shared = FALSE /\ Fresh.parser = "none"
      /\ Fresh.handles = [h \in Handle |-> NoHandle]
  BY Zenon DEF Fresh
<1>2. IsHandles(Fresh.handles) /\ Owned(Fresh.handles)
  BY <1>1, NoHandleIs DEF IsHandles, Owned, Handle
<1>3. Phase(Fresh)
  BY <1>1, Zenon DEF Phase, Early
<1>4. Sound(Fresh) /\ ~Daemon(Fresh)
  BY <1>1, <1>2, <1>3, Zenon DEF Sound, IsProcess, Daemon
<1>5. Filed(proc, pidFile)
  BY <1>4, ServerProcessAssumption DEF Init, Filed
<1> QED BY <1>4, <1>5 DEF Init, IInv

(* One step per action. *)
LEMMA StepSound == IInv /\ [Next]_vars => IInv'
<1> SUFFICES ASSUME IInv, [Next]_vars PROVE IInv'
  OBVIOUS
<1>1. CASE UNCHANGED vars
  BY <1>1 DEF IInv, vars, counts
<1>2. CASE Next
  <2>1. PICK p \in Process :
           \/ \E c \in Configurations : Launch(p, c)
           \/ daemonize(p) \/ writePidFile(p)
           \/ registerSignal(p, "term", "int") \/ registerSignal(p, "int", "parser")
           \/ startParser(p) \/ listen(p) \/ initFailed(p)
           \/ Accept(p) \/ Send(p) \/ Cleanup(p) \/ onReapCb(p) \/ RunClosing(p)
           \/ \E s \in Signal : deliver(p, s)
           \/ onSignal(p) \/ parserReturns(p) \/ Shutdown(p)
    BY <1>2 DEF Next
  <2>2. ASSUME NEW c \in Configurations, Launch(p, c) PROVE IInv'
    BY <2>2, LaunchKeeps
  <2>3. CASE daemonize(p)
    BY <2>3, DaemonizeKeeps
  <2>4. CASE writePidFile(p)
    BY <2>4, WritePidFileKeeps
  <2>5. CASE registerSignal(p, "term", "int")
    BY <2>5, RegisterSignalKeeps DEF Signal
  <2>6. CASE registerSignal(p, "int", "parser")
    BY <2>6, RegisterSignalKeeps DEF Signal
  <2>7. CASE startParser(p)
    BY <2>7, StartParserKeeps
  <2>8. CASE listen(p)
    BY <2>8, ListenKeeps
  <2>9. CASE initFailed(p)
    BY <2>9, ExitKeeps, Zenon DEF initFailed, At
  <2>10. CASE Accept(p)
    BY <2>10, AcceptKeeps
  <2>11. CASE Send(p)
    BY <2>11, SendKeeps
  <2>12. CASE Cleanup(p)
    BY <2>12, CleanupKeeps
  <2>13. CASE onReapCb(p)
    BY <2>13, ReapKeeps
  <2>14. CASE RunClosing(p)
    BY <2>14, RunClosingKeeps
  <2>15. ASSUME NEW s \in Signal, deliver(p, s) PROVE IInv'
    BY <2>15, DeliverKeeps
  <2>16. CASE onSignal(p)
    BY <2>16, OnSignalKeeps
  <2>17. CASE parserReturns(p)
    BY <2>17, ParserReturnsKeeps
  <2>18. CASE Shutdown(p)
    <3>1. CASE blockSignals(p)
      BY <3>1, BlockSignalsKeeps
    <3>2. CASE closeSessions(p)
      BY <3>2, CloseSessionsKeeps
    <3>3. CASE joinParser(p)
      BY <3>3, JoinParserKeeps
    <3>4. CASE resetPrune(p)
      BY <3>4, ResetPruneKeeps
    <3>5. CASE stopTerm(p)
      BY <3>5, StopTermKeeps
    <3>6. CASE stopInt(p)
      BY <3>6, StopIntKeeps
    <3>7. CASE runReturns(p)
      BY <3>7, RunReturnsKeeps
    <3>8. CASE exit(p)
      BY <3>8, ExitKeeps DEF exit, At
    <3> QED BY <2>18, <3>1, <3>2, <3>3, <3>4, <3>5, <3>6, <3>7, <3>8 DEF Shutdown
  <2> QED BY <2>1, <2>2, <2>3, <2>4, <2>5, <2>6, <2>7, <2>8, <2>9, <2>10, <2>11, <2>12, <2>13,
             <2>14, <2>15, <2>16, <2>17, <2>18
<1> QED BY <1>1, <1>2

(* Every reachable state of every process is sound: main.cpp, Daemon.cpp and  *)
(* ServerApp.cpp keep the inductive invariant.                                *)
THEOREM Invariance == Spec => []IInv
BY InitSound, StepSound, PTL DEF Spec

(* No SIGTERM or SIGINT ends a process that has begun to serve: while the      *)
(* parser thread lives both are handled, and when the handlers go both are     *)
(* blocked in the only thread that is left (ServerApp::shutdown()).            *)
THEOREM SignalsNeverKill == Spec => []NeverKilledWhileServing
<1>1. IInv => NeverKilledWhileServing
  BY Zenon DEF IInv, NeverKilledWhileServing, Sound, Phase, At
<1> QED BY <1>1, Invariance, PTL

(* server.pid names the daemon that serves, barring daemons that share the     *)
(* directory, and never a process that ended by itself (writePidFile(),        *)
(* removePidFile(), main()).                                                   *)
THEOREM PidFileIsRight == Spec => []PidFileNamesDaemon
<1>1. IInv => PidFileNamesDaemon
  BY DEF IInv, PidFileNamesDaemon, Filed, Daemon, Booted, Leftover, At
<1> QED BY <1>1, Invariance, PTL

(* No callback finds an object that is gone, no memory is left without a close *)
(* callback, and the parser's async handles outlive the parser (the            *)
(* destructors of TcpSocket, Listener and Timer; SessionManager::close()).     *)
THEOREM ObjectsOutliveCallbacks == Spec => []CallbacksFindTheirObject
<1>1. IInv => CallbacksFindTheirObject
  BY Zenon DEF IInv, CallbacksFindTheirObject, Sound, Owned
<1> QED BY <1>1, Invariance, PTL

(* When uv_run() returns every handle is closed, for any number of processes,  *)
(* sessions and signals (ServerApp::shutdown(), run()).                        *)
THEOREM LoopEndsEmpty == Spec => []EveryHandleClosed
<1>1. IInv => EveryHandleClosed
  BY Zenon DEF IInv, EveryHandleClosed, Sound, Phase, At
<1> QED BY <1>1, Invariance, PTL
=============================================================================
