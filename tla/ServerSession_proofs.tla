------------------------ MODULE ServerSession_proofs ------------------------
(***************************************************************************)
(* For every set of uploads and sizes, every ring and every number of       *)
(* connections: the parser holds exactly the payload received so far, and   *)
(* the CSV that is kept and sent is the analysis of the file it names, as   *)
(* long as no session is torn down in ANALYZING.                            *)
(*                                                                         *)
(* First the inductive invariant and what the methods of a session do to    *)
(* it: every method maps a sound world to a sound world.  Then the          *)
(* callbacks and the parser's steps.                                        *)
(***************************************************************************)
EXTENDS ServerSession, TLAPS

Slot == Seq(File \X Nat)

(* The fields of the objects. *)
IsSession(s) ==
    /\ DOMAIN s = {"state", "reading", "timer", "file", "received", "csv", "sends",
                   "closeAfterSend", "cleanup", "finished"}
    /\ s.cleanup \in BOOLEAN

IsManager(m) ==
    /\ DOMAIN m = {"active", "sessionFinished", "closing", "joined", "retained", "connects",
                   "held"}
    /\ m.active \in BOOLEAN /\ m.sessionFinished \in BOOLEAN /\ m.closing \in BOOLEAN

IsShared(h) ==
    /\ DOMAIN h = {"ring", "abort", "uploadComplete", "readStopped", "stop", "result", "async"}
    /\ h.abort \in BOOLEAN /\ h.uploadComplete \in BOOLEAN /\ h.stop \in BOOLEAN
    /\ h.ring \in Seq(Slot)

IsWorld(w) ==
    /\ DOMAIN w = {"ses", "mgr", "shared", "abortedAnalyzing"}
    /\ IsSession(w.ses) /\ IsManager(w.mgr) /\ IsShared(w.shared)
    /\ w.abortedAnalyzing \in BOOLEAN
-----------------------------------------------------------------------------
(* What a session knows of its upload in each state. *)
Named(s) ==
    /\ s.state \in {"WaitHeader", "Receiving", "Verifying", "Analyzing", "SendingResult",
                    "WaitDone", "Cleanup"}
    /\ s.cleanup <=> s.state = "Cleanup"
    /\ s.state = "WaitHeader" => s.received = 0
    /\ s.state \notin {"WaitHeader", "Cleanup"} =>
          s.file \in File /\ s.received \in 0 .. FileSize[s.file]
    /\ s.state = "Analyzing" => s.received = FileSize[s.file]

(* Only a session that was cleaned up is reaped. *)
Reapable(s, m) == m.sessionFinished => m.active /\ s.state = "Cleanup"

(* The parser is told to stop by close() alone. *)
Stopped(m, h) == h.stop => m.closing

(* The parser is waiting, or takes slots out of the ring. *)
Consuming == {"abortSignal", "wait", "gate", "consume", "space", "check"}

Empty(h, p) == h.ring = <<>> /\ p.acc = <<>>
Pending(h) == "completion" \in h.async

(* Nothing is left of the sessions before, nothing of this one is in the ring yet. *)
Quiet(s, m, h, p) ==
    /\ m.active => s.state \in {"WaitHeader", "SendingResult", "WaitDone", "Cleanup"}
    /\ ~h.abort /\ ~h.uploadComplete /\ ~Pending(h)
    /\ Empty(h, p) /\ p.pc \in {"abortSignal", "wait"}

(* The payload received so far is with the parser or waits in the ring. *)
Uploading(s, m, h, p) ==
    /\ m.active /\ s.state \in {"Receiving", "Verifying"}
    /\ ~h.abort /\ ~h.uploadComplete /\ ~Pending(h)
    /\ p.pc \in Consuming
    /\ InOrder(p.acc, h.ring, s.file, s.received)

(* The upload is complete and the parser works on it. *)
Draining(s, m, h, p) ==
    /\ m.active /\ s.state = "Analyzing"
    /\ ~h.abort /\ h.uploadComplete /\ ~Pending(h)
    /\ \/ p.pc \in Consuming /\ InOrder(p.acc, h.ring, s.file, s.received)
       \/ p.pc = "finish" /\ p.acc = Content(s.file)
       \/ p.pc = "finishReset" /\ h.result = Content(s.file)
       \/ p.pc = "finishSignal" /\ h.result = Content(s.file) /\ Empty(h, p)

(* The result is there and its signal is on the way. *)
Completed(s, m, h, p) ==
    /\ m.active /\ s.state = "Analyzing"
    /\ ~h.abort /\ Pending(h)
    /\ IF h.uploadComplete THEN p.pc = "finishClear" ELSE p.pc = "wait"
    /\ h.result = Content(s.file) /\ Empty(h, p)

(* The loop has the result before the parser has cleared the flag. *)
Delivered(s, m, h, p) ==
    /\ m.active /\ s.state \in {"SendingResult", "WaitDone"}
    /\ ~h.abort /\ h.uploadComplete /\ ~Pending(h)
    /\ p.pc = "finishClear" /\ Empty(h, p)

(* The session is over and the parser has not finished the discard. *)
Aborting(s, m, h, p) ==
    /\ m.active => s.state = "Cleanup"
    /\ h.abort /\ ~Pending(h)
    /\ p.pc \in Consuming \cup {"discard", "abortClear", "finishClear"}
    /\ h.uploadComplete => p.pc = "finishClear"
    /\ p.pc = "abortClear" => Empty(h, p)

Phase(s, m, h, p) ==
    \/ Quiet(s, m, h, p) \/ Uploading(s, m, h, p) \/ Draining(s, m, h, p)
    \/ Completed(s, m, h, p) \/ Delivered(s, m, h, p) \/ Aborting(s, m, h, p)

(* What is kept and what is sent is the analysis of the file named. *)
Kept(m) ==
    \/ m.retained.file = NoFile
    \/ m.retained.file \in File /\ m.retained.csv = Content(m.retained.file)
Sent(s) ==
    /\ s.state \in {"WaitHeader", "Receiving", "Verifying", "Analyzing"} => s.csv = NoCsv
    /\ s.state \in {"SendingResult", "WaitDone"} => s.csv = Content(s.file)

SoundAt(s, m, h, ab, p) ==
    /\ Named(s) /\ Reapable(s, m) /\ Stopped(m, h)
    /\ ab \/ (Kept(m) /\ Sent(s) /\ (m.closing \/ Phase(s, m, h, p)))

Sound(w, p) == IsWorld(w) /\ SoundAt(w.ses, w.mgr, w.shared, w.abortedAnalyzing, p)

IsParser(p) == DOMAIN p = {"pc", "acc"}

IInv == IsParser(parser) /\ Sound(World, parser)
-----------------------------------------------------------------------------
(* Cutting a file at b loses and invents nothing. *)
LEMMA UnitsJoin ==
    ASSUME NEW f, NEW a \in Nat, NEW b \in Nat, NEW c \in Nat, a <= b, b <= c
    PROVE  Units(f, a, b) \o Units(f, b, c) = Units(f, a, c)
<1> DEFINE S == {f} \X Nat
           x == Units(f, a, b)
           y == Units(f, b, c)
           z == x \o y
<1>1. x \in Seq(S) /\ Len(x) = b - a /\ y \in Seq(S) /\ Len(y) = c - b
  BY DEF Units
<1>2. \A k \in 1 .. c - a : (x \o y)[k] = <<f, a + k>>
  BY <1>1 DEF Units
<1> HIDE DEF S, x, y
<1>3. z \in Seq(S) /\ Len(z) = Len(x) + Len(y)
  BY <1>1
<1>4. \A k \in 1 .. c - a : z[k] = <<f, a + k>>
  BY <1>2
<1> HIDE DEF z
<1>5. DOMAIN z = 1 .. c - a /\ z = [k \in DOMAIN z |-> z[k]]
  BY <1>1, <1>3
<1>6. z = [k \in 1 .. c - a |-> <<f, a + k>>]
  BY <1>4, <1>5
<1> QED BY <1>6 DEF x, y, z, Units

(* Units of a file make a slot. *)
LEMMA UnitsSlot ==
    ASSUME NEW f \in File, NEW a \in Nat, NEW b \in Nat
    PROVE  Units(f, a, b) \in Slot
BY DEF Units, Slot

(* With an empty ring the parser has everything. *)
LEMMA OrderEmpty ==
    ASSUME NEW acc, NEW f, NEW n \in Nat
    PROVE  InOrder(acc, <<>>, f, n) <=> acc = Units(f, 0, n)
<1>1. ASSUME InOrder(acc, <<>>, f, n) PROVE acc = Units(f, 0, n)
  BY <1>1 DEF InOrder
<1>2. ASSUME acc = Units(f, 0, n) PROVE InOrder(acc, <<>>, f, n)
  <2> DEFINE cut == [k \in 0 .. 0 |-> n]
  <2>1. cut \in [0 .. Len(<<>>) -> 0 .. n] /\ cut[0] = n /\ Len(<<>>) = 0
    OBVIOUS
  <2> HIDE DEF cut
  <2> QED BY <1>2, <2>1 DEF InOrder
<1> QED BY <1>1, <1>2

(* Before the first byte nothing is held. *)
LEMMA OrderStart ==
    ASSUME NEW f
    PROVE  InOrder(<<>>, <<>>, f, 0)
<1>1. Units(f, 0, 0) = <<>>
  BY DEF Units
<1> QED BY <1>1, OrderEmpty

(* A slot goes from the front of the ring to the parser. *)
LEMMA OrderConsume ==
    ASSUME NEW acc, NEW ring \in Seq(Slot), NEW f, NEW n \in Nat, ring # <<>>,
           InOrder(acc, ring, f, n)
    PROVE  InOrder(acc \o Head(ring), Tail(ring), f, n)
<1> DEFINE L == Len(ring)
<1>1. PICK cut \in [0 .. L -> 0 .. n] :
         /\ acc = Units(f, 0, cut[0])
         /\ \A k \in 1 .. L : cut[k - 1] <= cut[k] /\ ring[k] = Units(f, cut[k - 1], cut[k])
         /\ cut[L] = n
  BY DEF InOrder
<1>2. L \in Nat \ {0} /\ Head(ring) = ring[1] /\ Tail(ring) \in Seq(Slot)
      /\ Len(Tail(ring)) = L - 1 /\ \A k \in 1 .. L - 1 : Tail(ring)[k] = ring[k + 1]
  OBVIOUS
<1> HIDE DEF L
<1> DEFINE next == [k \in 0 .. L - 1 |-> cut[k + 1]]
<1>3. next \in [0 .. L - 1 -> 0 .. n] /\ next[0] = cut[1] /\ next[L - 1] = n
  BY <1>1, <1>2
<1>4. acc \o Head(ring) = Units(f, 0, next[0])
  <2>1. cut[0] \in Nat /\ cut[1] \in Nat /\ cut[0] <= cut[1]
    BY <1>1, <1>2
  <2>2. Head(ring) = Units(f, cut[0], cut[1])
    BY <1>1, <1>2
  <2>3. 0 <= cut[0] /\ 0 \in Nat
    BY <2>1
  <2>4. Units(f, 0, cut[0]) \o Units(f, cut[0], cut[1]) = Units(f, 0, cut[1])
    BY <2>1, <2>3, UnitsJoin
  <2> QED BY <1>1, <1>3, <2>2, <2>4
<1>5. ASSUME NEW k \in 1 .. L - 1
      PROVE  next[k - 1] <= next[k] /\ Tail(ring)[k] = Units(f, next[k - 1], next[k])
  <2>1. next[k - 1] = cut[k] /\ next[k] = cut[k + 1] /\ k + 1 \in 1 .. L
    BY <1>2
  <2>2. cut[(k + 1) - 1] <= cut[k + 1] /\ ring[k + 1] = Units(f, cut[(k + 1) - 1], cut[k + 1])
    BY <1>1, <2>1
  <2>3. (k + 1) - 1 = k
    BY <1>2
  <2> QED BY <1>2, <2>1, <2>2, <2>3
<1> HIDE DEF next
<1> QED BY <1>2, <1>3, <1>4, <1>5 DEF InOrder

(* The payload of a read goes behind what is in the ring. *)
LEMMA OrderCommit ==
    ASSUME NEW acc, NEW ring \in Seq(Slot), NEW f \in File, NEW n \in Nat, NEW m \in Nat,
           InOrder(acc, ring, f, n)
    PROVE  InOrder(acc, Append(ring, Units(f, n, n + m)), f, n + m)
<1> DEFINE L == Len(ring)
           slot == Units(f, n, n + m)
<1>1. PICK cut \in [0 .. L -> 0 .. n] :
         /\ acc = Units(f, 0, cut[0])
         /\ \A k \in 1 .. L : cut[k - 1] <= cut[k] /\ ring[k] = Units(f, cut[k - 1], cut[k])
         /\ cut[L] = n
  BY DEF InOrder
<1>2. slot \in Slot
  BY UnitsSlot
<1>3. /\ L \in Nat /\ Len(Append(ring, slot)) = L + 1
      /\ \A k \in 1 .. L : Append(ring, slot)[k] = ring[k]
      /\ Append(ring, slot)[L + 1] = slot
  BY <1>2
<1> DEFINE more == Append(ring, slot)
<1> HIDE DEF L, more
<1> DEFINE next == [k \in 0 .. L + 1 |-> IF k = L + 1 THEN n + m ELSE cut[k]]
<1>4. next \in [0 .. L + 1 -> 0 .. n + m] /\ next[0] = cut[0] /\ next[L + 1] = n + m
  BY <1>1, <1>3
<1>5. ASSUME NEW k \in 1 .. L + 1
      PROVE  next[k - 1] <= next[k] /\ more[k] = Units(f, next[k - 1], next[k])
  <2>1. CASE k = L + 1
    <3>1. next[k - 1] = n /\ next[k] = n + m
      BY <1>1, <1>3, <2>1
    <3> QED BY <1>3, <2>1, <3>1 DEF more
  <2>2. CASE k # L + 1
    <3>1. k \in 1 .. L /\ next[k - 1] = cut[k - 1] /\ next[k] = cut[k]
      BY <1>3, <2>2
    <3> QED BY <1>1, <1>3, <3>1 DEF more
  <2> QED BY <2>1, <2>2
<1> HIDE DEF next
<1>6. Len(more) = L + 1
  BY <1>3 DEF more
<1>7. InOrder(acc, more, f, n + m)
  BY <1>1, <1>4, <1>5, <1>6 DEF InOrder
<1> QED BY <1>7 DEF more

-----------------------------------------------------------------------------
(* o differs from w in what no phase looks at, and is in state next. *)
Moved(o, w, next) ==
    /\ IsWorld(o)
    /\ o.mgr = w.mgr /\ o.abortedAnalyzing = w.abortedAnalyzing
    /\ o.shared.ring = w.shared.ring /\ o.shared.result = w.shared.result
    /\ o.shared.async = w.shared.async
    /\ o.shared.abort = w.shared.abort /\ o.shared.stop = w.shared.stop
    /\ o.shared.uploadComplete = w.shared.uploadComplete
    /\ o.ses.file = w.ses.file /\ o.ses.received = w.ses.received /\ o.ses.csv = w.ses.csv
    /\ o.ses.cleanup = w.ses.cleanup
    /\ o.ses.state = next

(* o is w after Cleanup: the session's part is over, the parser is told to discard. *)
Cleaned(o, w) ==
    /\ IsWorld(o)
    /\ o.mgr = w.mgr
    /\ o.abortedAnalyzing = (w.abortedAnalyzing \/ w.ses.state = "Analyzing")
    /\ o.shared.ring = w.shared.ring /\ o.shared.result = w.shared.result
    /\ o.shared.async = w.shared.async
    /\ o.shared.abort /\ o.shared.stop = w.shared.stop
    /\ o.shared.uploadComplete = w.shared.uploadComplete
    /\ o.ses.cleanup /\ o.ses.state = "Cleanup"

(* Nothing done. *)
LEMMA NotMoved == ASSUME NEW w, IsWorld(w) PROVE Moved(w, w, w.ses.state)
BY DEF Moved

(* resumeReading() touches nothing but the read flags. *)
LEMMA ResumeMoves ==
    ASSUME NEW w, IsWorld(w)
    PROVE  Moved(ResumeReading(w), w, w.ses.state)
<1> DEFINE o == [w EXCEPT !.shared.readStopped = FALSE, !.ses.reading = TRUE]
<1>1. ResumeReading(w) \in {w, o}
  BY DEF ResumeReading
<1>2. Moved(o, w, w.ses.state)
  BY DEF Moved, IsWorld, IsSession, IsManager, IsShared
<1> HIDE DEF o
<1> QED BY <1>1, <1>2, NotMoved

(* applyBackpressure() touches nothing but the read flags. *)
LEMMA BackpressureMoves ==
    ASSUME NEW w, IsWorld(w)
    PROVE  Moved(ApplyBackpressure(w), w, w.ses.state)
<1> DEFINE o == [w EXCEPT !.ses.reading = FALSE, !.shared.readStopped = TRUE]
<1>1. ApplyBackpressure(w) \in {w, o}
  BY DEF ApplyBackpressure
<1>2. Moved(o, w, w.ses.state)
  BY DEF Moved, IsWorld, IsSession, IsManager, IsShared
<1> HIDE DEF o
<1> QED BY <1>1, <1>2, NotMoved

(* A message is queued; nothing else changes. *)
LEMMA SendMoves ==
    ASSUME NEW w, IsWorld(w), NEW message
    PROVE  Moved(Send(w, message), w, w.ses.state)
BY DEF Send, Moved, IsWorld, IsSession, IsManager, IsShared

(* transition() changes the state and, as it resumes reading, the read flags. *)
LEMMA TransitionMoves ==
    ASSUME NEW w, IsWorld(w), NEW next
    PROVE  Moved(Transition(w, next), w, next)
<1> DEFINE o == [w EXCEPT !.ses.state = next, !.ses.timer = TimeoutForState(next)]
<1>1. \/ Transition(w, next) = w /\ w.ses.state = next
      \/ Transition(w, next) \in {o, ResumeReading(o)}
  BY DEF Transition
<1>2. Moved(o, w, next) /\ IsWorld(o) /\ o.ses.state = next
  BY DEF Moved, IsWorld, IsSession, IsManager, IsShared
<1> HIDE DEF o
<1>3. Moved(ResumeReading(o), o, next)
  BY <1>2, ResumeMoves
<1>4. Moved(ResumeReading(o), w, next)
  BY <1>2, <1>3 DEF Moved
<1> QED BY <1>1, <1>2, <1>4, NotMoved

(* cleanup() ends the session and asks for the discard. *)
LEMMA CleanupCleans ==
    ASSUME NEW w, IsWorld(w), ~w.ses.cleanup
    PROVE  Cleaned(Cleanup(w), w)
BY ZenonT(60) DEF Cleanup, Cleaned, IsWorld, IsSession, IsManager, IsShared

(* What no phase looks at does not disturb one. *)
LEMMA MoveInPlace ==
    ASSUME NEW w, NEW o, NEW p, Sound(w, p), Moved(o, w, w.ses.state)
    PROVE  Sound(o, p)
BY ZenonT(60) DEF Sound, SoundAt, Moved, Named, Reapable, Stopped, Kept, Sent, Phase, Quiet,
       Uploading, Draining,
       Completed, Delivered, Aborting, Empty, Pending

(* A session can be cleaned up in every state. *)
LEMMA CleanedSound ==
    ASSUME NEW w, NEW o, NEW p, Sound(w, p), w.mgr.active, ~w.mgr.closing, ~w.ses.cleanup,
           Cleaned(o, w)
    PROVE  Sound(o, p)
BY DEF Sound, SoundAt, Cleaned, IsWorld, Named, Reapable, Stopped, Kept, Sent, Phase, Quiet,
       Uploading, Draining,
       Completed, Delivered, Aborting, Empty, Pending, Consuming

-----------------------------------------------------------------------------
(* A callback of the session runs: the session exists and the manager is not closing. *)
Live(w, p) == Sound(w, p) /\ w.mgr.active /\ ~w.mgr.closing

(* A method either leaves the phase alone or ends the session. *)
Ends(o, w, p) == Live(o, p) /\ (Moved(o, w, w.ses.state) \/ o.ses.state = "Cleanup")

(* A live session that is moved in place stays live. *)
LEMMA LiveMoved ==
    ASSUME NEW w, NEW o, NEW p, Live(w, p), Moved(o, w, w.ses.state)
    PROVE  Live(o, p)
<1>1. Sound(o, p)
  BY MoveInPlace DEF Live
<1> QED BY <1>1 DEF Live, Moved

(* A live session is ended by cleanup(). *)
LEMMA CleanupEnds ==
    ASSUME NEW w, NEW p, Live(w, p)
    PROVE  Ends(Cleanup(w), w, p) /\ Cleanup(w).ses.state = "Cleanup"
<1>1. CASE w.ses.cleanup
  BY <1>1 DEF Cleanup, Ends, Live, Sound, SoundAt, Named
<1>2. CASE ~w.ses.cleanup
  <2>1. Cleaned(Cleanup(w), w)
    BY <1>2, CleanupCleans DEF Live, Sound
  <2>2. Sound(Cleanup(w), p)
    BY <1>2, <2>1, CleanedSound DEF Live
  <2> QED BY <2>1, <2>2 DEF Ends, Live, Cleaned
<1> QED BY <1>1, <1>2

(* failWithAck() ends the session or leaves its upload alone. *)
LEMMA FailEnds ==
    ASSUME NEW w, NEW p, NEW io, Live(w, p)
    PROVE  Ends(FailWithAck(w, io), w, p)
<1> DEFINE a == Send(w, "FailAck")
           o == [a EXCEPT !.ses.reading = FALSE, !.ses.closeAfterSend = TRUE]
<1>1. CASE io = "firstSendFails"
  BY <1>1, CleanupEnds DEF FailWithAck
<1>2. CASE io # "firstSendFails"
  <2>1. FailWithAck(w, io) = o
    BY <1>2 DEF FailWithAck
  <2>2. IsWorld(w)
    BY DEF Live, Sound
  <2>3. Moved(a, w, w.ses.state)
    BY <2>2, SendMoves
  <2> HIDE DEF a
  <2>4. Moved(o, w, w.ses.state)
    BY <2>3 DEF Moved, IsWorld, IsSession, IsManager, IsShared
  <2> HIDE DEF o
  <2> QED BY <2>1, <2>4, LiveMoved DEF Ends
<1> QED BY <1>1, <1>2

(* sendResult() ends the session or leaves its result alone. *)
LEMMA SendResultEnds ==
    ASSUME NEW w, NEW p, NEW io, NEW withBody \in BOOLEAN, Live(w, p)
    PROVE  Ends(SendResult(w, withBody, io), w, p)
<1> DEFINE a == Send(w, "ResultHeader")
           b == Send(a, "Csv")
<1>1. IsWorld(w)
  BY DEF Live, Sound
<1>2. Moved(a, w, w.ses.state) /\ Live(a, p) /\ IsWorld(a)
  BY <1>1, SendMoves, LiveMoved DEF Moved
<1>3. Moved(b, a, a.ses.state) /\ Live(b, p)
  <2> HIDE DEF a
  <2> QED BY <1>2, SendMoves, LiveMoved
<1>4. Ends(a, w, p) /\ Ends(b, w, p)
  <2> HIDE DEF a, b
  <2> QED BY <1>2, <1>3 DEF Ends, Moved
<1>5. Ends(Cleanup(w), w, p)
  BY CleanupEnds
<1>6. Ends(Cleanup(a), w, p)
  <2> HIDE DEF a
  <2>1. Ends(Cleanup(a), a, p)
    BY <1>2, CleanupEnds
  <2> QED BY <1>2, <2>1 DEF Ends, Moved
<1>7. SendResult(w, withBody, io) \in {Cleanup(w), a, Cleanup(a), b}
  BY DEF SendResult
<1> HIDE DEF a, b
<1> QED BY <1>4, <1>5, <1>6, <1>7
-----------------------------------------------------------------------------
(* consumeHeader(): an upload is accepted, its payload is due from the start. *)
LEMMA UploadAccepted ==
    ASSUME NEW w, NEW p, NEW f \in File, Live(w, p), w.ses.state = "WaitHeader"
    PROVE  LET o == Transition([w EXCEPT !.ses.file = f], "Receiving")
           IN  /\ Live(o, p)
               /\ o.ses.state = "Receiving" /\ o.ses.file = f /\ o.ses.received = 0
<1> DEFINE v == [w EXCEPT !.ses.file = f]
           o == Transition(v, "Receiving")
<1>1. /\ IsWorld(v) /\ v.mgr = w.mgr /\ v.shared = w.shared
      /\ v.abortedAnalyzing = w.abortedAnalyzing
      /\ v.ses.received = w.ses.received /\ v.ses.csv = w.ses.csv
      /\ v.ses.cleanup = w.ses.cleanup /\ v.ses.file = f
  BY DEF Live, Sound, IsWorld, IsSession
<1> HIDE DEF v
<1>2. Moved(o, v, "Receiving")
  BY <1>1, TransitionMoves
<1> HIDE DEF o
<1>3. /\ o.ses.state = "Receiving" /\ o.ses.file = f /\ o.ses.received = 0
      /\ o.ses.csv = w.ses.csv /\ ~o.ses.cleanup /\ o.mgr = w.mgr
      /\ o.abortedAnalyzing = w.abortedAnalyzing /\ IsWorld(o)
      /\ o.shared.ring = w.shared.ring /\ o.shared.async = w.shared.async
      /\ o.shared.abort = w.shared.abort /\ o.shared.stop = w.shared.stop
      /\ o.shared.uploadComplete = w.shared.uploadComplete
  BY <1>1, <1>2 DEF Moved, Live, Sound, SoundAt, Named
<1>4. Named(o.ses) /\ Reapable(o.ses, o.mgr) /\ Stopped(o.mgr, o.shared)
  <2>1. FileSize[f] \in Nat
    BY ServerAssumption
  <2> QED BY <1>3, <2>1 DEF Live, Sound, SoundAt, Named, Reapable, Stopped
<1>5. ASSUME ~w.abortedAnalyzing
      PROVE  Kept(o.mgr) /\ Sent(o.ses) /\ Phase(o.ses, o.mgr, o.shared, p)
  <2>1. Kept(w.mgr) /\ Sent(w.ses) /\ Phase(w.ses, w.mgr, w.shared, p)
    BY <1>5 DEF Live, Sound, SoundAt
  <2>2. Quiet(w.ses, w.mgr, w.shared, p)
    BY <2>1 DEF Live, Phase, Uploading, Draining, Completed, Delivered, Aborting
  <2>3. InOrder(p.acc, o.shared.ring, f, 0)
    BY <1>3, <2>2, OrderStart DEF Quiet, Empty
  <2>4. Uploading(o.ses, o.mgr, o.shared, p)
    BY <1>3, <2>2, <2>3 DEF Live, Uploading, Quiet, Pending, Consuming
  <2> QED BY <1>3, <2>1, <2>4 DEF Phase, Kept, Sent
<1>6. Live(o, p)
  BY <1>3, <1>4, <1>5 DEF Live, Sound, SoundAt
<1> QED BY <1>3, <1>6 DEF o, v

(* handleResultRequest(): what is kept is sent under the name it was kept for. *)
LEMMA RequestAccepted ==
    ASSUME NEW w, NEW p, NEW f \in File, Live(w, p), w.ses.state = "WaitHeader",
           w.mgr.retained.file = f
    PROVE  Live(Transition([w EXCEPT !.ses.file = f, !.ses.csv = w.mgr.retained.csv],
                           "SendingResult"), p)
<1> DEFINE v == [w EXCEPT !.ses.file = f, !.ses.csv = w.mgr.retained.csv]
           o == Transition(v, "SendingResult")
<1>1. /\ IsWorld(v) /\ v.mgr = w.mgr /\ v.shared = w.shared
      /\ v.abortedAnalyzing = w.abortedAnalyzing
      /\ v.ses.received = w.ses.received /\ v.ses.csv = w.mgr.retained.csv
      /\ v.ses.cleanup = w.ses.cleanup /\ v.ses.file = f
  BY DEF Live, Sound, IsWorld, IsSession
<1> HIDE DEF v
<1>2. Moved(o, v, "SendingResult")
  BY <1>1, TransitionMoves
<1> HIDE DEF o
<1>3. /\ o.ses.state = "SendingResult" /\ o.ses.file = f /\ o.ses.received = 0
      /\ o.ses.csv = w.mgr.retained.csv /\ ~o.ses.cleanup /\ o.mgr = w.mgr
      /\ o.abortedAnalyzing = w.abortedAnalyzing /\ IsWorld(o)
      /\ o.shared.ring = w.shared.ring /\ o.shared.async = w.shared.async
      /\ o.shared.abort = w.shared.abort /\ o.shared.stop = w.shared.stop
      /\ o.shared.uploadComplete = w.shared.uploadComplete
  BY <1>1, <1>2 DEF Moved, Live, Sound, SoundAt, Named
<1>4. Named(o.ses) /\ Reapable(o.ses, o.mgr) /\ Stopped(o.mgr, o.shared)
  <2>1. FileSize[f] \in Nat
    BY ServerAssumption
  <2> QED BY <1>3, <2>1 DEF Live, Sound, SoundAt, Named, Reapable, Stopped
<1>5. ASSUME ~w.abortedAnalyzing
      PROVE  Kept(o.mgr) /\ Sent(o.ses) /\ Phase(o.ses, o.mgr, o.shared, p)
  <2>1. Kept(w.mgr) /\ Sent(w.ses) /\ Phase(w.ses, w.mgr, w.shared, p)
    BY <1>5 DEF Live, Sound, SoundAt
  <2>2. Quiet(w.ses, w.mgr, w.shared, p)
    BY <2>1 DEF Live, Phase, Uploading, Draining, Completed, Delivered, Aborting
  <2>3. Quiet(o.ses, o.mgr, o.shared, p)
    BY <1>3, <2>2 DEF Live, Quiet, Pending, Empty
  <2>4. f # NoFile
    BY ServerAssumption
  <2> QED BY <1>3, <2>1, <2>3, <2>4 DEF Phase, Kept, Sent
<1>6. Live(o, p)
  BY <1>3, <1>4, <1>5 DEF Live, Sound, SoundAt
<1> QED BY <1>6 DEF o, v

(* handleResultRequest() refuses, or sends the result that is kept. *)
LEMMA RequestEnds ==
    ASSUME NEW w, NEW p, NEW io, NEW request, request.file \in File, Live(w, p),
           w.ses.state = "WaitHeader"
    PROVE  /\ Live(HandleResultRequest(w, request, io), p)
           /\ HandleResultRequest(w, request, io).ses.state # "Receiving"
<1> DEFINE f == request.file
           v == Transition([w EXCEPT !.ses.file = f, !.ses.csv = w.mgr.retained.csv],
                           "SendingResult")
           withBody == request.offset # "end"
<1>1. CASE w.mgr.retained.file # request.file \/ request.offset = "beyond"
  <2>1. HandleResultRequest(w, request, io) = FailWithAck(w, io)
    BY <1>1 DEF HandleResultRequest
  <2>2. Ends(FailWithAck(w, io), w, p)
    BY FailEnds
  <2> QED BY <2>1, <2>2 DEF Ends, Moved
<1>2. CASE ~(w.mgr.retained.file # request.file \/ request.offset = "beyond")
  <2>1. HandleResultRequest(w, request, io) = SendResult(v, withBody, io)
    BY <1>2 DEF HandleResultRequest
  <2>2. Live(v, p)
    BY <1>2, RequestAccepted
  <2>3. v.ses.state = "SendingResult"
    <3>1. IsWorld([w EXCEPT !.ses.file = f, !.ses.csv = w.mgr.retained.csv])
      BY DEF Live, Sound, IsWorld, IsSession
    <3> QED BY <3>1, TransitionMoves DEF Moved
  <2> HIDE DEF v
  <2>4. withBody \in BOOLEAN
    OBVIOUS
  <2> HIDE DEF withBody
  <2>5. Ends(SendResult(v, withBody, io), v, p)
    BY <2>2, <2>4, SendResultEnds
  <2> QED BY <2>1, <2>3, <2>5 DEF Ends, Moved
<1> QED BY <1>1, <1>2
-----------------------------------------------------------------------------
(* A slot is filled: nothing is lost on the way into the ring. *)
LEMMA Committed ==
    ASSUME NEW w, NEW p, NEW n \in Nat, Live(w, p), w.ses.state = "Receiving",
           n <= FileSize[w.ses.file] - w.ses.received
    PROVE  LET o == CommitSlot(w, n)
           IN  /\ Live(o, p)
               /\ o.ses.state = "Receiving" /\ o.ses.file = w.ses.file
               /\ o.ses.received = w.ses.received + n
<1> DEFINE o == CommitSlot(w, n)
           f == w.ses.file
           r == w.ses.received
<1>1. f \in File /\ r \in Nat /\ FileSize[f] \in Nat /\ r + n \in 0 .. FileSize[f]
  BY ServerAssumption DEF Live, Sound, SoundAt, Named
<1>2. Units(f, r, r + n) \in Slot
  BY <1>1, UnitsSlot
<1>3. /\ o.mgr = w.mgr /\ o.abortedAnalyzing = w.abortedAnalyzing
      /\ o.shared.ring = Append(w.shared.ring, Units(f, r, r + n))
      /\ o.shared.async = w.shared.async
      /\ o.shared.abort = w.shared.abort /\ o.shared.stop = w.shared.stop
      /\ o.shared.uploadComplete = w.shared.uploadComplete
      /\ o.ses.state = "Receiving" /\ o.ses.file = f /\ o.ses.received = r + n
      /\ o.ses.csv = w.ses.csv /\ o.ses.cleanup = w.ses.cleanup
  BY DEF CommitSlot, Live, Sound, IsWorld, IsSession, IsShared
<1>4. IsWorld(o)
  <2>1. Append(w.shared.ring, Units(f, r, r + n)) \in Seq(Slot)
    BY <1>2 DEF Live, Sound, IsWorld, IsShared
  <2>2. /\ DOMAIN o = DOMAIN w /\ DOMAIN o.ses = DOMAIN w.ses
        /\ DOMAIN o.shared = DOMAIN w.shared
    BY DEF CommitSlot, Live, Sound, IsWorld, IsSession, IsShared
  <2> HIDE DEF o
  <2> QED BY <1>3, <2>1, <2>2 DEF Live, Sound, IsWorld, IsSession, IsShared
<1> HIDE DEF o
<1>5. Named(o.ses) /\ Reapable(o.ses, o.mgr) /\ Stopped(o.mgr, o.shared)
  BY <1>1, <1>3 DEF Live, Sound, SoundAt, Named, Reapable, Stopped
<1>6. ASSUME ~w.abortedAnalyzing
      PROVE  Kept(o.mgr) /\ Sent(o.ses) /\ Phase(o.ses, o.mgr, o.shared, p)
  <2>1. Kept(w.mgr) /\ Sent(w.ses) /\ Phase(w.ses, w.mgr, w.shared, p)
    BY <1>6 DEF Live, Sound, SoundAt
  <2>2. Uploading(w.ses, w.mgr, w.shared, p)
    BY <2>1 DEF Live, Phase, Quiet, Draining, Completed, Delivered, Aborting
  <2>3. w.shared.ring \in Seq(Slot)
    BY DEF Live, Sound, IsWorld, IsShared
  <2>4. InOrder(p.acc, o.shared.ring, f, r + n)
    <3>1. InOrder(p.acc, w.shared.ring, f, r)
      BY <2>2 DEF Uploading
    <3> HIDE DEF f, r
    <3> QED BY <1>1, <1>3, <2>3, <3>1, OrderCommit
  <2>5. Uploading(o.ses, o.mgr, o.shared, p)
    BY <1>3, <2>2, <2>4 DEF Uploading, Pending
  <2> QED BY <1>3, <2>1, <2>5 DEF Phase, Kept, Sent
<1>7. Live(o, p)
  BY <1>3, <1>4, <1>5, <1>6 DEF Live, Sound, SoundAt
<1> QED BY <1>3, <1>7 DEF o

(* What a read of n units leaves: the session is over or has n units more. *)
Took(o, w, n, p) ==
    /\ Live(o, p)
    /\ \/ o.ses.state = "Cleanup"
       \/ /\ o.ses.state = "Receiving" /\ o.ses.file = w.ses.file
          /\ o.ses.received = w.ses.received + n

(* Payload read into a slot is behind what was received before. *)
LEMMA SlotTaken ==
    ASSUME NEW w, NEW p, NEW n \in Nat, Live(w, p), w.ses.state = "Receiving",
           n <= FileSize[w.ses.file] - w.ses.received
    PROVE  /\ Took(ApplyBackpressure(CommitSlot(w, n)), w, n, p)
           /\ ApplyBackpressure(CommitSlot(w, n)).ses.state = "Receiving"
<1> DEFINE v == CommitSlot(w, n)
<1>1. /\ Live(v, p)
      /\ v.ses.state = "Receiving" /\ v.ses.file = w.ses.file
      /\ v.ses.received = w.ses.received + n
  BY Committed
<1> HIDE DEF v
<1>2. IsWorld(v)
  BY <1>1 DEF Live, Sound
<1>3. Moved(ApplyBackpressure(v), v, v.ses.state)
  BY <1>2, BackpressureMoves
<1>4. Live(ApplyBackpressure(v), p)
  BY <1>1, <1>3, LiveMoved
<1>5. Took(ApplyBackpressure(v), w, n, p) /\ ApplyBackpressure(v).ses.state = "Receiving"
  BY <1>1, <1>3, <1>4 DEF Moved, Took
<1> QED BY <1>5 DEF v

(* Payload behind a header is copied into a slot, or the session ends. *)
LEMMA PayloadTaken ==
    ASSUME NEW w, NEW p, NEW n \in Nat, Live(w, p), w.ses.state = "Receiving",
           n <= FileSize[w.ses.file] - w.ses.received
    PROVE  Took(ConsumePayload(w, n), w, n, p)
<1>1. CASE RingFull(w)
  BY <1>1, CleanupEnds DEF ConsumePayload, Ends, Moved, Took
<1>2. CASE ~RingFull(w)
  BY <1>2, SlotTaken DEF ConsumePayload
<1> QED BY <1>1, <1>2

-----------------------------------------------------------------------------
(* verifyAndAck(): nothing more of the payload is due. *)
LEMMA VerifyStarts ==
    ASSUME NEW w, NEW p, Live(w, p), w.ses.state = "Receiving", ~PayloadDue(w)
    PROVE  LET o == Transition(w, "Verifying")
           IN  /\ Live(o, p)
               /\ o.ses.state = "Verifying" /\ o.ses.received = FileSize[o.ses.file]
<1> DEFINE o == Transition(w, "Verifying")
<1>1. Moved(o, w, "Verifying")
  BY TransitionMoves DEF Live, Sound
<1> HIDE DEF o
<1>2. /\ w.ses.file \in File /\ w.ses.received \in Nat /\ FileSize[w.ses.file] \in Nat
      /\ w.ses.received = FileSize[w.ses.file] /\ ~w.ses.cleanup
  BY ServerAssumption DEF Live, Sound, SoundAt, Named, PayloadDue
<1>3. Named(o.ses) /\ Reapable(o.ses, o.mgr) /\ Stopped(o.mgr, o.shared)
  <2>1. Named(w.ses) /\ Reapable(w.ses, w.mgr) /\ Stopped(w.mgr, w.shared)
    BY DEF Live, Sound, SoundAt
  <2>2. Named(o.ses)
    BY <1>1, <1>2, <2>1 DEF Live, Named, Moved
  <2>3. Reapable(o.ses, o.mgr) /\ Stopped(o.mgr, o.shared)
    BY <1>1, <1>2, <2>1 DEF Live, Reapable, Stopped, Moved
  <2> QED BY <2>2, <2>3
<1>4. ASSUME ~w.abortedAnalyzing
      PROVE  Kept(o.mgr) /\ Sent(o.ses) /\ Phase(o.ses, o.mgr, o.shared, p)
  <2>1. Kept(w.mgr) /\ Sent(w.ses) /\ Phase(w.ses, w.mgr, w.shared, p)
    BY <1>4 DEF Live, Sound, SoundAt
  <2>2. Uploading(w.ses, w.mgr, w.shared, p)
    BY <2>1 DEF Live, Phase, Quiet, Draining, Completed, Delivered, Aborting
  <2>3. Uploading(o.ses, o.mgr, o.shared, p)
    BY <1>1, <2>2 DEF Uploading, Pending, Moved
  <2> QED BY <1>1, <2>1, <2>3 DEF Phase, Kept, Sent, Moved
<1>5. Live(o, p)
  BY <1>1, <1>3, <1>4 DEF Live, Sound, SoundAt, Moved
<1> QED BY <1>1, <1>2, <1>5 DEF o, Moved

(* analyzeAndSendResult(): the whole payload is with the parser or in the ring. *)
LEMMA AnalysisStarts ==
    ASSUME NEW w, NEW p, Live(w, p), w.ses.state = "Verifying",
           w.ses.received = FileSize[w.ses.file]
    PROVE  LET o == AnalyzeAndSendResult(w) IN Live(o, p) /\ o.ses.state = "Analyzing"
<1> DEFINE v == Transition(w, "Analyzing")
           o == [v EXCEPT !.shared.uploadComplete = TRUE]
<1>1. Moved(v, w, "Analyzing")
  BY TransitionMoves DEF Live, Sound
<1> HIDE DEF v
<1>2. /\ IsWorld(o) /\ o.ses = v.ses /\ o.mgr = v.mgr /\ o.abortedAnalyzing = v.abortedAnalyzing
      /\ o.shared.ring = v.shared.ring /\ o.shared.async = v.shared.async
      /\ o.shared.abort = v.shared.abort /\ o.shared.stop = v.shared.stop /\ o.shared.uploadComplete
  BY <1>1 DEF Moved, IsWorld, IsShared
<1> HIDE DEF o
<1>3. Named(o.ses) /\ Reapable(o.ses, o.mgr) /\ Stopped(o.mgr, o.shared)
  <2>1. Named(w.ses) /\ Reapable(w.ses, w.mgr) /\ Stopped(w.mgr, w.shared)
    BY DEF Live, Sound, SoundAt
  <2>2. Named(o.ses)
    BY <1>1, <1>2, <2>1 DEF Live, Named, Moved
  <2>3. Reapable(o.ses, o.mgr) /\ Stopped(o.mgr, o.shared)
    BY <1>1, <1>2, <2>1 DEF Live, Reapable, Stopped, Moved
  <2> QED BY <2>2, <2>3
<1>4. ASSUME ~w.abortedAnalyzing
      PROVE  Kept(o.mgr) /\ Sent(o.ses) /\ Phase(o.ses, o.mgr, o.shared, p)
  <2>1. Kept(w.mgr) /\ Sent(w.ses) /\ Phase(w.ses, w.mgr, w.shared, p)
    BY <1>4 DEF Live, Sound, SoundAt
  <2>2. Uploading(w.ses, w.mgr, w.shared, p)
    BY <2>1 DEF Live, Phase, Quiet, Draining, Completed, Delivered, Aborting
  <2>3. Draining(o.ses, o.mgr, o.shared, p)
    BY <1>1, <1>2, <2>2 DEF Uploading, Draining, Pending, Moved
  <2> QED BY <1>1, <1>2, <2>1, <2>3, ZenonT(60) DEF Phase, Kept, Sent, Moved
<1>5. Live(o, p)
  BY <1>1, <1>2, <1>3, <1>4 DEF Live, Sound, SoundAt, Moved
<1> QED BY <1>1, <1>2, <1>5 DEF o, v, AnalyzeAndSendResult, Moved

(* verifyAndAck() starts the analysis, or refuses. *)
LEMMA VerifyEnds ==
    ASSUME NEW w, NEW p, NEW io, NEW crc \in BOOLEAN, Live(w, p), w.ses.state = "Receiving",
           ~PayloadDue(w)
    PROVE  LET o == VerifyAndAck(w, crc, io) IN Live(o, p) /\ o.ses.state # "Receiving"
<1> DEFINE v == Transition(w, "Verifying")
           a == Send(v, "Ack")
<1>1. Live(v, p) /\ v.ses.state = "Verifying" /\ v.ses.received = FileSize[v.ses.file]
  BY VerifyStarts
<1>2. VerifyAndAck(w, crc, io) \in {FailWithAck(v, io), Cleanup(v), AnalyzeAndSendResult(a)}
  BY DEF VerifyAndAck
<1> HIDE DEF v
<1>3. Ends(FailWithAck(v, io), v, p) /\ Ends(Cleanup(v), v, p)
  BY <1>1, FailEnds, CleanupEnds
<1>4. Moved(a, v, v.ses.state)
  BY <1>1, SendMoves DEF Live, Sound
<1> HIDE DEF a
<1>5. Live(a, p) /\ a.ses.state = "Verifying" /\ a.ses.received = FileSize[a.ses.file]
  BY <1>1, <1>4, LiveMoved DEF Moved
<1>6. Live(AnalyzeAndSendResult(a), p) /\ AnalyzeAndSendResult(a).ses.state = "Analyzing"
  BY <1>5, AnalysisStarts
<1> QED BY <1>1, <1>2, <1>3, <1>6 DEF Ends, Moved

(* The part of a read that comes next is one the state can take. *)
NotDue(w) == ~(w.ses.state = "Receiving" /\ PayloadDue(w))

Fits(w, part) ==
    /\ w.ses.state = "WaitHeader" => part \in Headers
    /\ w.ses.state = "Receiving" /\ PayloadDue(w) =>
          part.n \in Nat /\ part.n <= FileSize[w.ses.file] - w.ses.received
    /\ w.ses.state = "Receiving" /\ ~PayloadDue(w) => part \in Trailers
    /\ w.ses.state = "WaitDone" => part \in {[kind |-> "done"], Partial, BadPreamble}

(* The trailer comes when no payload is due. *)
LEMMA TrailerConsumed ==
    ASSUME NEW w, NEW p, NEW io, NEW part \in Trailers, Live(w, p), w.ses.state = "Receiving",
           ~PayloadDue(w)
    PROVE  LET o == ConsumeTrailer(w, part, io) IN Live(o, p) /\ NotDue(o)
<1>1. CASE part = Partial
  BY <1>1 DEF Partial, ConsumeTrailer, NotDue
<1>2. CASE part = BadPreamble
  <2>1. ConsumeTrailer(w, part, io) = Cleanup(w)
    BY <1>2 DEF BadPreamble, ConsumeTrailer, CloseSilently
  <2> QED BY <2>1, CleanupEnds DEF Ends, NotDue
<1>3. ASSUME NEW b \in BOOLEAN, part = [kind |-> "trailer", crcMatches |-> b]
      PROVE  LET o == ConsumeTrailer(w, part, io) IN Live(o, p) /\ NotDue(o)
  <2>1. ConsumeTrailer(w, part, io) = VerifyAndAck(w, b, io)
    BY <1>3 DEF ConsumeTrailer
  <2> QED BY <2>1, VerifyEnds DEF NotDue
<1> QED BY <1>1, <1>2, <1>3 DEF Trailers

(* A header starts an upload, answers a request, or ends the session. *)
LEMMA HeaderConsumed ==
    ASSUME NEW w, NEW p, NEW io, NEW part \in Headers, Live(w, p), w.ses.state = "WaitHeader"
    PROVE  LET o == ConsumeHeader(w, part, io)
           IN  /\ Live(o, p)
               /\ part.kind # "upload" => NotDue(o)
               /\ part.kind = "upload" =>
                     o.ses.state = "Receiving" /\ o.ses.file = part.file /\ o.ses.received = 0
<1> DEFINE o == ConsumeHeader(w, part, io)
           Goal == /\ Live(o, p)
                   /\ part.kind # "upload" => NotDue(o)
                   /\ part.kind = "upload" =>
                         o.ses.state = "Receiving" /\ o.ses.file = part.file /\ o.ses.received = 0
<1>1. ASSUME part = Partial PROVE Goal
  BY <1>1 DEF Partial, ConsumeHeader, NotDue
<1>2. ASSUME part = BadPreamble PROVE Goal
  <2>1. o = Cleanup(w) /\ part.kind # "upload"
    BY <1>2 DEF BadPreamble, ConsumeHeader, CloseSilently
  <2> QED BY <2>1, CleanupEnds DEF Ends, NotDue
<1>3. ASSUME part = [kind |-> "badValue"] PROVE Goal
  <2>1. o = FailWithAck(w, io) /\ part.kind # "upload"
    BY <1>3 DEF ConsumeHeader
  <2> QED BY <2>1, FailEnds DEF Ends, Moved, NotDue
<1>4. ASSUME NEW f \in File, part = [kind |-> "upload", file |-> f] PROVE Goal
  <2>1. /\ o = Transition([w EXCEPT !.ses.file = f], "Receiving")
        /\ part.kind = "upload" /\ part.file = f
    BY <1>4 DEF ConsumeHeader
  <2> HIDE DEF o
  <2> QED BY <2>1, UploadAccepted
<1>5. ASSUME NEW f \in File, NEW x \in {"within", "end", "beyond"},
             part = [kind |-> "request", file |-> f, offset |-> x]
      PROVE  Goal
  <2>1. o = HandleResultRequest(w, part, io) /\ part.file \in File /\ part.kind # "upload"
    BY <1>5 DEF ConsumeHeader
  <2> HIDE DEF o
  <2> QED BY <2>1, RequestEnds DEF NotDue
<1>6. \/ part = Partial \/ part = BadPreamble \/ part = [kind |-> "badValue"]
      \/ \E f \in File : part = [kind |-> "upload", file |-> f]
      \/ \E f \in File, x \in {"within", "end", "beyond"} :
            part = [kind |-> "request", file |-> f, offset |-> x]
  BY DEF Headers, Partial, BadPreamble
<1>7. Goal
  <2> HIDE DEF Goal
  <2> QED BY <1>1, <1>2, <1>3, <1>4, <1>5, <1>6, Zenon
<1> QED BY <1>7

-----------------------------------------------------------------------------
(* onRead()'s loop ends once the session is over or about to close. *)
Skips(w) == w.ses.cleanup \/ w.ses.closeAfterSend
Over(w) == Skips(w) \/ NotDue(w)

(* A turn of a session that is over changes nothing. *)
LEMMA SkipTurn ==
    ASSUME NEW w, Skips(w)
    PROVE  /\ \A part, io : Consume(w, part, io) = w
           /\ \A data, k, io : Turn(w, data, k, io) = w
<1>1. w.ses.cleanup \/ w.ses.closeAfterSend
  BY DEF Skips
<1>2. \A part, io : Consume(w, part, io) = w
  BY <1>1, Zenon DEF Consume
<1> QED BY <1>2, Zenon DEF Turn

(* A turn of one that is not over, in its first state, takes a header. *)
LEMMA HeaderTurn ==
    ASSUME NEW w, NEW data, NEW io, ~Skips(w), w.ses.state = "WaitHeader", Len(data) \in Nat,
           Len(data) >= 1
    PROVE  Turn(w, data, 1, io) = ConsumeHeader(w, data[1], io)
<1>1. ~(1 > Len(data))
  OBVIOUS
<1>2. ~(w.ses.cleanup \/ w.ses.closeAfterSend)
  BY DEF Skips
<1>3. Consume(w, data[1], io) = ConsumeHeader(w, data[1], io)
  BY <1>2 DEF Consume
<1> QED BY <1>1, <1>3, Zenon DEF Turn

(* A turn of onRead()'s loop keeps the session sound. *)
LEMMA ConsumeSound ==
    ASSUME NEW w, NEW p, NEW io, NEW part, Live(w, p), Fits(w, part)
    PROVE  LET o == Consume(w, part, io)
           IN  /\ Live(o, p)
               /\ NotDue(w) /\ part.kind # "upload" => Over(o)
<1> DEFINE o == Consume(w, part, io)
<1>1. CASE Skips(w)
  BY <1>1 DEF Skips, Over, Consume
<1>2. CASE ~Skips(w) /\ w.ses.state = "WaitHeader"
  <2>1. o = ConsumeHeader(w, part, io) /\ part \in Headers
    BY <1>2 DEF Skips, Consume, Fits
  <2>2. Live(o, p) /\ (part.kind # "upload" => NotDue(o))
    <3> HIDE DEF o
    <3> QED BY <1>2, <2>1, HeaderConsumed
  <2> QED BY <1>2, <2>1, <2>2 DEF Over
<1>3. CASE ~Skips(w) /\ w.ses.state = "Receiving" /\ PayloadDue(w)
  <2>1. /\ o = ConsumePayload(w, part.n) /\ part.n \in Nat
        /\ part.n <= FileSize[w.ses.file] - w.ses.received
    BY <1>3 DEF Skips, Consume, Fits
  <2>2. Took(o, w, part.n, p)
    BY <1>3, <2>1, PayloadTaken
  <2> QED BY <1>3, <2>2 DEF Took, NotDue
<1>4. CASE ~Skips(w) /\ w.ses.state = "Receiving" /\ ~PayloadDue(w)
  <2>1. o = ConsumeTrailer(w, part, io) /\ part \in Trailers
    BY <1>4 DEF Skips, Consume, Fits
  <2> QED BY <1>4, <2>1, TrailerConsumed DEF Over
<1>5. CASE ~Skips(w) /\ w.ses.state = "WaitDone"
  <2>1. o = ConsumeDone(w, part) /\ part \in {[kind |-> "done"], Partial, BadPreamble}
    BY <1>5 DEF Skips, Consume, Fits
  <2>2. o = Cleanup(w) \/ o = w
    BY <2>1 DEF ConsumeDone, CloseSilently, Partial, BadPreamble
  <2> QED BY <1>5, <2>2, CleanupEnds DEF Ends, Over, NotDue
<1>6. CASE ~Skips(w) /\ w.ses.state \notin {"WaitHeader", "Receiving", "WaitDone"}
  <2>1. o = Cleanup(w)
    BY <1>6 DEF Skips, Consume, CloseSilently
  <2> QED BY <2>1, CleanupEnds DEF Ends, Over, NotDue
<1> QED BY <1>1, <1>2, <1>3, <1>4, <1>5, <1>6

(* One turn of the loop on a part that fits; none when the parts are used up. *)
LEMMA TurnSound ==
    ASSUME NEW w, NEW p, NEW io, NEW data, NEW k, Live(w, p), k > Len(data) \/ Fits(w, data[k])
    PROVE  Live(Turn(w, data, k, io), p)
BY ConsumeSound DEF Turn

(* A part that is not complete changes nothing, or is a protocol error. *)
LEMMA TurnPartial ==
    ASSUME NEW w, NEW p, NEW io, NEW data, NEW k, Live(w, p), Over(w),
           k > Len(data) \/ data[k] = Partial
    PROVE  Live(Turn(w, data, k, io), p) /\ Over(Turn(w, data, k, io))
<1>1. CASE k > Len(data)
  BY <1>1 DEF Turn
<1>2. CASE ~(k > Len(data)) /\ Skips(w)
  BY <1>2 DEF Turn, Consume, Skips
<1>3. CASE ~(k > Len(data)) /\ ~Skips(w)
  <2>1. NotDue(w) /\ data[k] = Partial /\ Partial.kind # "upload"
    BY <1>3 DEF Over, Partial
  <2>2. Fits(w, Partial)
    BY <2>1 DEF Fits, NotDue, Headers, Trailers, Partial
  <2> QED BY <1>3, <2>1, <2>2, ConsumeSound DEF Turn
<1> QED BY <1>1, <1>2, <1>3

(* A turn that takes the trailer. *)
LEMMA TurnTrailer ==
    ASSUME NEW w, NEW p, NEW io, NEW data, NEW k, Live(w, p),
           Skips(w) \/ (w.ses.state = "Receiving" /\ ~PayloadDue(w)),
           k > Len(data) \/ data[k] \in Trailers
    PROVE  Live(Turn(w, data, k, io), p) /\ Over(Turn(w, data, k, io))
<1>1. CASE k > Len(data)
  BY <1>1 DEF Turn, Over, NotDue
<1>2. CASE ~(k > Len(data)) /\ Skips(w)
  BY <1>2 DEF Turn, Consume, Skips, Over
<1>3. CASE ~(k > Len(data)) /\ ~Skips(w)
  <2>1. data[k].kind # "upload"
    BY <1>3 DEF Trailers, Partial, BadPreamble
  <2>2. Fits(w, data[k]) /\ NotDue(w)
    BY <1>3 DEF Fits, NotDue
  <2> QED BY <1>3, <2>1, <2>2, ConsumeSound DEF Turn
<1> QED BY <1>1, <1>2, <1>3

(* A turn that takes payload. *)
LEMMA TurnPayload ==
    ASSUME NEW w, NEW p, NEW io, NEW data, NEW k, Live(w, p),
           Skips(w) \/ (w.ses.state = "Receiving" /\ PayloadDue(w)),
           ~(k > Len(data)), data[k].n \in Nat,
           Skips(w) \/ data[k].n <= FileSize[w.ses.file] - w.ses.received
    PROVE  LET o == Turn(w, data, k, io)
           IN  /\ Live(o, p)
               /\ \/ Skips(o)
                  \/ /\ o.ses.state = "Receiving" /\ o.ses.file = w.ses.file
                     /\ o.ses.received = w.ses.received + data[k].n
<1>1. CASE Skips(w)
  BY <1>1 DEF Turn, Consume, Skips
<1>2. CASE ~Skips(w)
  <2>1. Turn(w, data, k, io) = ConsumePayload(w, data[k].n)
    BY <1>2 DEF Turn, Consume, Skips
  <2>2. Took(ConsumePayload(w, data[k].n), w, data[k].n, p)
    BY <1>2, PayloadTaken
  <2> QED BY <2>1, <2>2 DEF Took, Skips, Live, Sound, SoundAt, Named
<1> QED BY <1>1, <1>2
-----------------------------------------------------------------------------
(* d is h and then t. *)
Behind(d, h, t) ==
    /\ Len(d) = Len(t) + 1 /\ d[1] = h
    /\ \A k \in 1 .. Len(t) : d[k + 1] = t[k]
    /\ d = [k \in 1 .. Len(d) |-> d[k]]

(* The parts of a read, one by one. *)
LEMMA Cons ==
    ASSUME NEW h, NEW t, Len(t) \in Nat, t = [k \in 1 .. Len(t) |-> t[k]]
    PROVE  Behind(<<h>> \o t, h, t)
<1> DEFINE S == {t[k] : k \in 1 .. Len(t)} \cup {h}
           d == <<h>> \o t
<1>1. t \in Seq(S)
  <2> DEFINE n == Len(t)
  <2>1. \A k \in 1 .. n : t[k] \in S
    OBVIOUS
  <2> HIDE DEF S
  <2>2. t \in [1 .. n -> S]
    BY <2>1
  <2> HIDE DEF n
  <2>3. n \in Nat
    BY DEF n
  <2> QED BY <2>2, <2>3
<1>2. h \in S
  OBVIOUS
<1> HIDE DEF S
<1>3. <<h>> \in Seq(S)
  BY <1>2
<1>4. d \in Seq(S) /\ Len(d) = Len(t) + 1
  BY <1>1, <1>3
<1>5. d[1] = h
  BY <1>1, <1>3
<1>6. \A k \in 1 .. Len(t) : d[k + 1] = t[k]
  BY <1>1, <1>3
<1> HIDE DEF d
<1>7. d = [k \in 1 .. Len(d) |-> d[k]]
  BY <1>4
<1>8. Behind(d, h, t)
  BY <1>4, <1>5, <1>6, <1>7 DEF Behind
<1> QED BY <1>8 DEF d

(* From part j on the read is one of PayloadReads(left). *)
PayloadFrom(data, j, left) ==
    /\ j <= Len(data)
    /\ left = 0 => /\ data[j] \in Trailers /\ Len(data) <= j + 1
                   /\ Len(data) >= j + 1 => data[j + 1] = Partial
    /\ left > 0 => /\ data[j].n \in 1 .. left /\ Len(data) <= j + 2
                   /\ Len(data) >= j + 1 => data[j].n = left /\ data[j + 1] \in Trailers
                   /\ Len(data) >= j + 2 => data[j + 2] = Partial

(* What a read can hold when the trailer is due. *)
LEMMA TrailerReadsFrom ==
    ASSUME NEW data \in TrailerReads
    PROVE  /\ Len(data) \in 1 .. 2 /\ data = [k \in 1 .. Len(data) |-> data[k]]
           /\ data[1] \in Trailers /\ (Len(data) >= 2 => data[2] = Partial)
<1>1. ASSUME NEW t \in Trailers, data = <<t>>
      PROVE  /\ Len(data) = 1 /\ data = [k \in 1 .. Len(data) |-> data[k]]
             /\ data[1] \in Trailers
  BY <1>1
<1>2. ASSUME data = <<[kind |-> "trailer", crcMatches |-> TRUE], Partial>>
      PROVE  /\ Len(data) = 2 /\ data = [k \in 1 .. Len(data) |-> data[k]]
             /\ data[1] \in Trailers /\ data[2] = Partial
  <2> DEFINE t == [kind |-> "trailer", crcMatches |-> TRUE]
  <2>1. t \in Trailers
    BY Zenon DEF Trailers
  <2>2. data = <<t, Partial>>
    BY <1>2
  <2> HIDE DEF t
  <2> QED BY <2>1, <2>2
<1> QED BY <1>1, <1>2 DEF TrailerReads

(* What a read can hold when payload is due. *)
LEMMA PayloadReadsFrom ==
    ASSUME NEW left \in Nat, NEW data \in PayloadReads(left)
    PROVE  /\ PayloadFrom(data, 1, left)
           /\ Len(data) \in 1 .. 3 /\ data = [k \in 1 .. Len(data) |-> data[k]]
<1>1. CASE left = 0
  <2>1. data \in TrailerReads
    BY <1>1 DEF PayloadReads
  <2>2. /\ Len(data) \in 1 .. 2 /\ data = [k \in 1 .. Len(data) |-> data[k]]
        /\ data[1] \in Trailers /\ (Len(data) >= 2 => data[2] = Partial)
    BY <2>1, TrailerReadsFrom
  <2> DEFINE n == Len(data)
  <2>3. n \in 1 .. 2 /\ (n >= 1 + 1 => data[1 + 1] = Partial)
    BY <2>2
  <2> HIDE DEF n
  <2>4. PayloadFrom(data, 1, left)
    BY <1>1, <2>2, <2>3 DEF PayloadFrom, n
  <2> QED BY <2>2, <2>4
<1>2. CASE left > 0
  <2>1. ASSUME NEW n \in 1 .. IF left < SlotUnits THEN left ELSE SlotUnits, data = <<Payload(n)>>
        PROVE  /\ PayloadFrom(data, 1, left)
               /\ Len(data) \in 1 .. 3 /\ data = [k \in 1 .. Len(data) |-> data[k]]
    <3>1. Len(data) = 1 /\ data = [k \in 1 .. 1 |-> data[k]] /\ data[1].n = n /\ n \in 1 .. left
      BY <2>1, ServerAssumption DEF Payload
    <3> QED BY <1>2, <3>1 DEF PayloadFrom
  <2>2. ASSUME NEW t \in TrailerReads, data = <<Payload(left)>> \o t
        PROVE  /\ PayloadFrom(data, 1, left)
               /\ Len(data) \in 1 .. 3 /\ data = [k \in 1 .. Len(data) |-> data[k]]
    <3>1. /\ Len(t) \in 1 .. 2 /\ t = [k \in 1 .. Len(t) |-> t[k]]
          /\ t[1] \in Trailers /\ (Len(t) >= 2 => t[2] = Partial)
      BY TrailerReadsFrom
    <3> DEFINE n == Len(data)
               m == Len(t)
    <3>0. Behind(data, Payload(left), t)
      BY <2>2, <3>1, Cons
    <3>2. /\ n = m + 1 /\ m \in 1 .. 2 /\ data[1] = Payload(left)
          /\ data[1 + 1] = t[1] /\ (m >= 2 => data[2 + 1] = t[2])
      BY <3>0, <3>1 DEF Behind
    <3>3. data[1].n = left
      BY <3>2 DEF Payload
    <3>5. m >= 2 => t[2] = Partial
      BY <3>1
    <3> HIDE DEF n, m
    <3>6. /\ n \in 2 .. 3 /\ data[1 + 1] \in Trailers
          /\ n >= 1 + 2 => data[1 + 2] = Partial
      BY <3>1, <3>2, <3>5
    <3>7. PayloadFrom(data, 1, left)
      <4>1. left \in 1 .. left /\ left # 0
        BY <1>2
      <4>2. Len(data) \in 2 .. 3 /\ (Len(data) >= 1 + 2 => data[1 + 2] = Partial)
        BY <3>6 DEF n
      <4>3. 1 <= n /\ n <= 1 + 2
        BY <3>6
      <4> QED BY <3>3, <3>6, <4>1, <4>2, <4>3, Zenon DEF PayloadFrom, n
    <3>8. data = [k \in 1 .. Len(data) |-> data[k]]
      BY <3>0 DEF Behind
    <3> QED BY <3>6, <3>7, <3>8 DEF n
  <2> QED BY <1>2, <2>1, <2>2 DEF PayloadReads
<1> QED BY <1>1, <1>2

(* The payload of a read, the trailer behind it and bytes behind that. *)
LEMMA PayloadTurns ==
    ASSUME NEW w, NEW p, NEW io, NEW data, NEW j \in 1 .. 2, NEW left \in Nat, Live(w, p),
           Len(data) \in Nat, PayloadFrom(data, j, left),
           \/ Skips(w)
           \/ w.ses.state = "Receiving" /\ left = FileSize[w.ses.file] - w.ses.received
    PROVE  Live(Turn(Turn(Turn(w, data, j, io), data, j + 1, io), data, j + 2, io), p)
<1> DEFINE a == Turn(w, data, j, io)
           b == Turn(a, data, j + 1, io)
           c == Turn(b, data, j + 2, io)
<1> SUFFICES Live(c, p)
  OBVIOUS
<1>0. Skips(w) \/ (/\ w.ses.file \in File /\ w.ses.received \in Nat
                   /\ FileSize[w.ses.file] \in Nat)
  BY ServerAssumption DEF Live, Sound, SoundAt, Named
<1>1. CASE left = 0
  <2>1. Skips(w) \/ (w.ses.state = "Receiving" /\ ~PayloadDue(w))
    BY <1>0, <1>1 DEF PayloadDue
  <2>2. data[j] \in Trailers
    BY <1>1 DEF PayloadFrom
  <2>3. Live(a, p) /\ Over(a)
    BY <2>1, <2>2, TurnTrailer
  <2>4. j + 1 > Len(data) \/ data[j + 1] = Partial
    BY <1>1 DEF PayloadFrom
  <2> HIDE DEF a
  <2>5. Live(b, p) /\ Over(b)
    BY <2>3, <2>4, TurnPartial
  <2>6. j + 2 > Len(data)
    BY <1>1 DEF PayloadFrom
  <2> HIDE DEF b
  <2>7. c = b
    BY <2>6 DEF Turn
  <2> QED BY <2>5, <2>7
<1>2. CASE left > 0
  <2>1. Skips(w) \/ (w.ses.state = "Receiving" /\ PayloadDue(w))
    BY <1>0, <1>2 DEF PayloadDue
  <2>2. data[j].n \in Nat /\ data[j].n <= left /\ ~(j > Len(data))
    BY <1>2 DEF PayloadFrom
  <2>3. /\ Live(a, p)
        /\ \/ Skips(a)
           \/ /\ a.ses.state = "Receiving" /\ a.ses.file = w.ses.file
              /\ a.ses.received = w.ses.received + data[j].n
    BY <2>1, <2>2, TurnPayload
  <2> HIDE DEF a
  <2>4. CASE j + 1 > Len(data)
    <3>1. b = a
      BY <2>4 DEF Turn
    <3>2. j + 2 > Len(data)
      BY <2>4
    <3> HIDE DEF b
    <3>3. c = b
      BY <3>2 DEF Turn
    <3> QED BY <2>3, <3>1, <3>3
  <2>5. CASE ~(j + 1 > Len(data))
    <3>1. data[j].n = left /\ data[j + 1] \in Trailers
      BY <1>2, <2>5 DEF PayloadFrom
    <3>2. Skips(a) \/ (a.ses.state = "Receiving" /\ ~PayloadDue(a))
      <4>1. CASE Skips(a)
        BY <4>1
      <4>2. CASE ~Skips(a) /\ ~Skips(w)
        BY <1>0, <2>3, <3>1, <4>2 DEF PayloadDue
      <4>3. CASE Skips(w)
        BY <4>3, SkipTurn DEF a
      <4> QED BY <4>1, <4>2, <4>3
    <3>3. Live(b, p) /\ Over(b)
      BY <2>3, <3>1, <3>2, TurnTrailer
    <3>4. j + 2 > Len(data) \/ data[j + 2] = Partial
      BY <1>2 DEF PayloadFrom
    <3> HIDE DEF b
    <3>5. Live(c, p)
      BY <3>3, <3>4, TurnPartial
    <3> QED BY <3>5
  <2> QED BY <2>4, <2>5
<1> QED BY <1>1, <1>2
-----------------------------------------------------------------------------
(* A read that begins with a header. *)
LEMMA HeaderRead ==
    ASSUME NEW w, NEW p, NEW io, NEW data \in HeaderReads, Live(w, p), w.ses.state = "WaitHeader"
    PROVE  Live(Turns(w, data, io), p)
<1> DEFINE a == Turn(w, data, 1, io)
           b == Turn(a, data, 2, io)
           c == Turn(b, data, 3, io)
           d == Turn(c, data, 4, io)
<1>0. Turns(w, data, io) = d
  BY DEF Turns
<1>1. ASSUME NEW h \in Headers, data = <<h>>
      PROVE  Live(d, p)
  <2>1. Len(data) = 1 /\ data[1] = h
    BY <1>1
  <2>2. Fits(w, data[1])
    BY <2>1 DEF Fits
  <2>3. Live(a, p)
    BY <2>2, TurnSound
  <2> HIDE DEF a
  <2>4. d = a
    BY <2>1 DEF Turn
  <2> HIDE DEF d
  <2> QED BY <2>3, <2>4
<1>2. ASSUME NEW f \in File, NEW rest \in PayloadReads(FileSize[f]),
             data = <<[kind |-> "upload", file |-> f]>> \o rest
      PROVE  Live(d, p)
  <2> DEFINE head == [kind |-> "upload", file |-> f]
             left == FileSize[f]
  <2>1. left \in Nat
    BY ServerAssumption
  <2>2. PayloadFrom(rest, 1, left) /\ Len(rest) \in 1 .. 3
    BY <2>1, PayloadReadsFrom
  <2>3. rest = [k \in 1 .. Len(rest) |-> rest[k]]
    BY <2>1, PayloadReadsFrom
  <2>4. /\ Len(data) = Len(rest) + 1 /\ data[1] = head
        /\ \A k \in 1 .. Len(rest) : data[k + 1] = rest[k]
    <3>1. Len(rest) \in Nat
      BY <2>2
    <3>2. Behind(data, head, rest)
      BY <1>2, <2>3, <3>1, Cons
    <3> QED BY <3>2 DEF Behind
  <2>5. PayloadFrom(data, 2, left)
    BY <2>1, <2>2, <2>4 DEF PayloadFrom
  <2>6. head \in Headers /\ head.kind = "upload" /\ head.file = f
    BY DEF Headers
  <2>7. Live(a, p) /\ (Skips(a) \/ (a.ses.state = "Receiving" /\ a.ses.file = f
                                    /\ a.ses.received = 0))
    <3>1. CASE Skips(w)
      BY <3>1, SkipTurn
    <3>2. CASE ~Skips(w)
      <4>1. a = ConsumeHeader(w, head, io)
        <5>1. Len(data) \in Nat /\ Len(data) >= 1
          BY <2>2, <2>4
        <5> HIDE DEF head, left
        <5> QED BY <2>4, <3>2, <5>1, HeaderTurn
      <4> HIDE DEF a, head
      <4> QED BY <2>6, <4>1, HeaderConsumed
    <3> QED BY <3>1, <3>2
  <2> HIDE DEF a
  <2>8. Skips(a) \/ (a.ses.state = "Receiving" /\ left = FileSize[a.ses.file] - a.ses.received)
    BY <2>1, <2>7
  <2>9. Len(data) \in Nat
    BY <2>2, <2>4
  <2> HIDE DEF left
  <2>10. Live(Turn(Turn(Turn(a, data, 2, io), data, 2 + 1, io), data, 2 + 2, io), p)
    BY <2>1, <2>5, <2>7, <2>8, <2>9, PayloadTurns
  <2> QED BY <2>10
<1>3. ASSUME NEW f \in File,
             data = <<[kind |-> "request", file |-> f, offset |-> "within"], Partial>>
      PROVE  Live(d, p)
  <2> DEFINE head == [kind |-> "request", file |-> f, offset |-> "within"]
  <2>1. Len(data) = 2 /\ data[1] = head /\ data[2] = Partial
    BY <1>3
  <2>2. head \in Headers /\ head.kind # "upload"
    BY DEF Headers
  <2> HIDE DEF head
  <2>3. Fits(w, data[1]) /\ NotDue(w)
    BY <2>1, <2>2 DEF Fits, NotDue
  <2>4. Live(a, p) /\ Over(a)
    BY <2>1, <2>2, <2>3, ConsumeSound DEF Turn
  <2> HIDE DEF a
  <2>5. Live(b, p)
    BY <2>1, <2>4, TurnPartial
  <2> HIDE DEF b
  <2>6. d = b
    BY <2>1 DEF Turn
  <2> QED BY <2>5, <2>6
<1> HIDE DEF d
<1>4. \/ \E h \in Headers : data = <<h>>
      \/ \E f \in File : \E rest \in PayloadReads(FileSize[f]) :
            data = <<[kind |-> "upload", file |-> f]>> \o rest
      \/ \E f \in File :
            data = <<[kind |-> "request", file |-> f, offset |-> "within"], Partial>>
  <2>1. \A f \in File : data \in UploadReads(f) =>
            \E rest \in PayloadReads(FileSize[f]) :
               data = <<[kind |-> "upload", file |-> f]>> \o rest
    BY Zenon DEF UploadReads
  <2>2. \/ data \in {<<h>> : h \in Headers}
        \/ data \in UNION {UploadReads(f) : f \in File}
        \/ data \in {RequestRead(f) : f \in File}
    BY Zenon DEF HeaderReads
  <2> QED BY <2>1, <2>2, Zenon DEF RequestRead
<1> QED BY <1>0, <1>1, <1>2, <1>3, <1>4, Zenon

-----------------------------------------------------------------------------
(* A read into a slot: the payload, and the trailer when all of it is there. *)
LEMMA SlotRead ==
    ASSUME NEW w, NEW p, NEW io, Live(w, p), SlotAcquired(w),
           NEW data \in PayloadReads(FileSize[w.ses.file] - w.ses.received)
    PROVE  Live(ReadIntoSlot(w, data, io), p)
<1> DEFINE left == FileSize[w.ses.file] - w.ses.received
           n == data[1].n
           v == ApplyBackpressure(CommitSlot(w, n))
<1>1. /\ w.ses.file \in File /\ w.ses.received \in Nat /\ FileSize[w.ses.file] \in Nat
      /\ left \in Nat /\ left > 0 /\ w.ses.state = "Receiving"
  BY ServerAssumption DEF SlotAcquired, PayloadDue, Live, Sound, SoundAt, Named
<1>2. PayloadFrom(data, 1, left) /\ Len(data) \in 1 .. 3
  <2> HIDE DEF left
  <2>1. data \in PayloadReads(left)
    BY DEF left
  <2> QED BY <1>1, <2>1, PayloadReadsFrom
<1>3. /\ n \in Nat /\ n <= left
      /\ Len(data) # 1 => n = left /\ data[2] \in Trailers
  <2> DEFINE l == Len(data)
  <2>1. l \in 1 .. 3 /\ (l >= 1 + 1 => n = left /\ data[1 + 1] \in Trailers) /\ n \in 1 .. left
    BY <1>1, <1>2 DEF PayloadFrom
  <2> HIDE DEF l, left, n
  <2>2. /\ n \in Nat /\ n <= left
        /\ l # 1 => n = left /\ data[2] \in Trailers
    BY <1>1, <2>1
  <2> QED BY <2>2 DEF l
<1>4. Took(v, w, n, p) /\ v.ses.state = "Receiving"
  BY <1>1, <1>3, SlotTaken
<1>5. ReadIntoSlot(w, data, io) = IF Len(data) = 1 THEN v ELSE ConsumeTrailer(v, data[2], io)
  BY DEF ReadIntoSlot
<1> HIDE DEF v
<1>6. Live(v, p)
  BY <1>4 DEF Took
<1>7. ASSUME Len(data) # 1 PROVE ~PayloadDue(v)
  BY <1>1, <1>3, <1>4, <1>7 DEF Took, PayloadDue
<1>8. ASSUME Len(data) # 1 PROVE Live(ConsumeTrailer(v, data[2], io), p)
  BY <1>3, <1>4, <1>6, <1>7, <1>8, TrailerConsumed
<1> QED BY <1>5, <1>6, <1>8

(* A read that one part makes up. *)
LEMMA OnePart ==
    ASSUME NEW w, NEW p, NEW io, NEW part, Live(w, p), Fits(w, part)
    PROVE  Live(Turns(w, <<part>>, io), p)
<1> DEFINE data == <<part>>
           a == Turn(w, data, 1, io)
<1>1. Len(data) = 1 /\ data[1] = part
  OBVIOUS
<1> HIDE DEF data
<1>2. Live(a, p)
  BY <1>1, TurnSound
<1> HIDE DEF a
<1>3. Turn(Turn(Turn(a, data, 2, io), data, 3, io), data, 4, io) = a
  BY <1>1 DEF Turn
<1> QED BY <1>2, <1>3 DEF Turns, a, data

(* What a read can hold, whichever state the session is in. *)
ReadsIn(s) ==
    CASE s.state = "WaitHeader" -> HeaderReads
      [] s.state = "Receiving" -> PayloadReads(FileSize[s.file] - s.received)
      [] s.state = "WaitDone" -> {<<[kind |-> "done"]>>, <<Partial>>, <<BadPreamble>>}
      [] OTHER -> {<<Partial>>}

(* onRead(), into a slot or into the session's buffer. *)
LEMMA ReadSound ==
    ASSUME NEW w, NEW p, NEW io, Live(w, p), NEW data \in ReadsIn(w.ses)
    PROVE  Live(HandleRead(w, data, io), p)
<1>1. CASE SlotAcquired(w)
  <2>1. data \in PayloadReads(FileSize[w.ses.file] - w.ses.received)
    BY <1>1 DEF SlotAcquired, ReadsIn
  <2> QED BY <1>1, <2>1, SlotRead DEF HandleRead
<1>2. CASE ~SlotAcquired(w)
  <2> SUFFICES Live(Turns(w, data, io), p)
    BY <1>2 DEF HandleRead
  <2>1. CASE w.ses.state = "WaitHeader"
    BY <2>1, HeaderRead DEF ReadsIn
  <2>2. CASE w.ses.state = "Receiving"
    <3> DEFINE left == FileSize[w.ses.file] - w.ses.received
               c == Turn(Turn(Turn(w, data, 1, io), data, 1 + 1, io), data, 1 + 2, io)
    <3>1. left \in Nat
      BY <2>2, ServerAssumption DEF Live, Sound, SoundAt, Named
    <3>2. data \in PayloadReads(left)
      BY <2>2 DEF ReadsIn
    <3> HIDE DEF left
    <3>3. PayloadFrom(data, 1, left) /\ Len(data) \in 1 .. 3
      BY <3>1, <3>2, PayloadReadsFrom
    <3>4. Live(c, p)
      <4>1. 1 \in 1 .. 2 /\ Len(data) \in Nat
        BY <3>3
      <4>2. w.ses.state = "Receiving" /\ left = FileSize[w.ses.file] - w.ses.received
        BY <2>2 DEF left
      <4> QED BY <3>1, <3>3, <4>1, <4>2, PayloadTurns
    <3>5. Turns(w, data, io) = Turn(c, data, 4, io)
      BY DEF Turns
    <3> HIDE DEF c
    <3>6. Turn(c, data, 4, io) = c
      BY <3>3 DEF Turn
    <3> QED BY <3>4, <3>5, <3>6
  <2>3. CASE w.ses.state = "WaitDone"
    <3>1. data \in {<<[kind |-> "done"]>>, <<Partial>>, <<BadPreamble>>}
      BY <2>3 DEF ReadsIn
    <3>2. \A part \in {[kind |-> "done"], Partial, BadPreamble} : Fits(w, part)
      BY <2>3 DEF Fits
    <3> QED BY <3>1, <3>2, OnePart
  <2>4. CASE w.ses.state \notin {"WaitHeader", "Receiving", "WaitDone"}
    <3>1. data = <<Partial>>
      BY <2>4 DEF ReadsIn
    <3>2. Fits(w, Partial)
      BY <2>4 DEF Fits
    <3> QED BY <3>1, <3>2, OnePart
  <2> QED BY <2>1, <2>2, <2>3, <2>4
<1> QED BY <1>1, <1>2

-----------------------------------------------------------------------------
(* onAnalysisComplete(): the result is the session's own, kept before it is sent. *)
LEMMA CompletionSound ==
    ASSUME NEW w, NEW p, NEW io, Sound(w, p), ~w.mgr.closing, Pending(w.shared)
    PROVE  LET m == [[w EXCEPT !.shared.async = @ \ {"completion"}]
                        EXCEPT !.shared.result = NoCsv]
           IN  Sound(IF w.mgr.active THEN OnAnalysisComplete(m, w.shared.result, io) ELSE m, p)
<1> DEFINE m == [[w EXCEPT !.shared.async = @ \ {"completion"}] EXCEPT !.shared.result = NoCsv]
           csv == w.shared.result
           k == [m EXCEPT !.ses.csv = csv, !.mgr.retained = [file |-> m.ses.file, csv |-> csv]]
           o == Transition(k, "SendingResult")
<1>1. /\ IsWorld(m) /\ m.ses = w.ses /\ m.mgr = w.mgr
      /\ m.abortedAnalyzing = w.abortedAnalyzing
      /\ m.shared.ring = w.shared.ring /\ m.shared.abort = w.shared.abort
      /\ m.shared.stop = w.shared.stop
      /\ m.shared.uploadComplete = w.shared.uploadComplete /\ ~Pending(m.shared)
  BY DEF Sound, IsWorld, IsShared, Pending
<1>2. ASSUME ~w.abortedAnalyzing PROVE Completed(w.ses, w.mgr, w.shared, p)
  BY <1>2 DEF Sound, SoundAt, Phase, Quiet, Uploading, Draining, Delivered, Aborting
<1>3. CASE ~w.mgr.active
  BY <1>1, <1>2, <1>3 DEF Sound, SoundAt, Completed, Stopped
<1>4. CASE w.mgr.active /\ (w.ses.cleanup \/ w.ses.state # "Analyzing")
  <2>1. OnAnalysisComplete(m, csv, io) = m
    BY <1>1, <1>4 DEF OnAnalysisComplete
  <2>2. w.abortedAnalyzing
    BY <1>2, <1>4 DEF Completed, Sound, SoundAt, Named
  <2> QED BY <1>1, <1>4, <2>1, <2>2 DEF Sound, SoundAt, Stopped
<1>5. CASE w.mgr.active /\ ~w.ses.cleanup /\ w.ses.state = "Analyzing"
  <2>1. OnAnalysisComplete(m, csv, io) = SendResult(o, TRUE, io)
    BY <1>1, <1>5 DEF OnAnalysisComplete
  <2> HIDE DEF m
  <2>2. /\ IsWorld(k) /\ k.shared = m.shared /\ k.abortedAnalyzing = w.abortedAnalyzing
        /\ k.mgr.active = w.mgr.active /\ k.mgr.closing = w.mgr.closing
        /\ k.mgr.sessionFinished = w.mgr.sessionFinished
        /\ k.mgr.retained = [file |-> w.ses.file, csv |-> csv]
        /\ k.ses.csv = csv /\ k.ses.file = w.ses.file /\ k.ses.received = w.ses.received
        /\ k.ses.cleanup = w.ses.cleanup
    BY <1>1 DEF IsWorld, IsSession, IsManager
  <2> HIDE DEF k
  <2>3. Moved(o, k, "SendingResult")
    BY <2>2, TransitionMoves
  <2> HIDE DEF o
  <2>4. Named(o.ses) /\ Reapable(o.ses, o.mgr) /\ Stopped(o.mgr, o.shared)
    BY <1>1, <1>5, <2>2, <2>3 DEF Moved, Sound, SoundAt, Named, Reapable, Stopped
  <2>5. ASSUME ~w.abortedAnalyzing
        PROVE  Kept(o.mgr) /\ Sent(o.ses) /\ Phase(o.ses, o.mgr, o.shared, p)
    <3>1. Completed(w.ses, w.mgr, w.shared, p) /\ w.ses.file \in File
      BY <1>2, <1>5, <2>5 DEF Sound, SoundAt, Named
    <3>2. csv = Content(w.ses.file)
      BY <3>1 DEF Completed
    <3> HIDE DEF csv
    <3>3. Kept(o.mgr) /\ Sent(o.ses)
      BY <2>2, <2>3, <3>1, <3>2 DEF Moved, Kept, Sent
    <3>4. Quiet(o.ses, o.mgr, o.shared, p) \/ Delivered(o.ses, o.mgr, o.shared, p)
      BY <1>1, <2>2, <2>3, <3>1, ZenonT(60) DEF Moved, Completed, Quiet, Delivered, Empty, Pending
    <3> QED BY <3>3, <3>4 DEF Phase
  <2>6. Live(o, p)
    BY <1>5, <2>2, <2>3, <2>4, <2>5 DEF Live, Sound, SoundAt, Moved
  <2>7. Ends(SendResult(o, TRUE, io), o, p)
    BY <2>6, SendResultEnds
  <2> QED BY <1>5, <2>1, <2>7 DEF Ends, Live, m
<1> QED BY <1>3, <1>4, <1>5
-----------------------------------------------------------------------------
(* A new session, its fields one by one. *)
LEMMA FreshSession ==
    /\ IsSession(NewSession) /\ Named(NewSession) /\ Sent(NewSession)
    /\ NewSession.state = "WaitHeader" /\ ~NewSession.cleanup
BY DEF NewSession, IsSession, Named, Sent

(* acceptWhenParserIdle(): a session begins only when nothing is left of the one before. *)
LEMMA AcceptSound ==
    ASSUME NEW w, NEW p, NEW canRead \in BOOLEAN, Sound(w, p)
    PROVE  Sound(AcceptWhenParserIdle(w, canRead), p)
<1>1. CASE w.shared.abort \/ w.mgr.closing \/ w.mgr.active \/ ~w.mgr.held
  BY <1>1 DEF AcceptWhenParserIdle, AcceptIfIdle
<1>2. CASE ~(w.shared.abort \/ w.mgr.closing \/ w.mgr.active \/ ~w.mgr.held)
  <2> DEFINE made == [w EXCEPT !.mgr.active = TRUE, !.mgr.held = FALSE, !.ses = NewSession]
             ready == [made EXCEPT !.ses.reading = TRUE,
                                   !.ses.timer = TimeoutForState("WaitHeader")]
             good == BeginSession(ready)
             bad == [Cleanup(made) EXCEPT !.mgr.active = FALSE, !.ses = NewSession]
  <2>1. AcceptWhenParserIdle(w, canRead) = IF canRead THEN good ELSE bad
    BY <1>2 DEF AcceptWhenParserIdle, AcceptIfIdle, StartSession
  <2>2. /\ IsWorld(made) /\ made.ses = NewSession /\ made.shared = w.shared
        /\ made.abortedAnalyzing = w.abortedAnalyzing
        /\ made.mgr.active /\ made.mgr.closing = w.mgr.closing
        /\ made.mgr.sessionFinished = w.mgr.sessionFinished
        /\ made.mgr.retained = w.mgr.retained
    BY FreshSession DEF Sound, IsWorld, IsManager
  <2>3. ASSUME ~w.abortedAnalyzing PROVE Kept(w.mgr) /\ Quiet(w.ses, w.mgr, w.shared, p)
    BY <1>2, <2>3 DEF Sound, SoundAt, Phase, Uploading, Draining, Completed, Delivered, Aborting
  <2>4. ~w.mgr.sessionFinished /\ w.mgr.sessionFinished \in BOOLEAN /\ ~w.shared.stop
        /\ w.shared.stop \in BOOLEAN
    BY <1>2 DEF Sound, SoundAt, Reapable, Stopped, IsWorld, IsManager, IsShared
  <2> HIDE DEF made
  <2>5. Sound(good, p)
    <3>1. /\ IsWorld(ready) /\ ready.shared = made.shared /\ ready.mgr = made.mgr
          /\ ready.abortedAnalyzing = made.abortedAnalyzing
          /\ ready.ses.state = made.ses.state /\ ready.ses.cleanup = made.ses.cleanup
          /\ ready.ses.csv = made.ses.csv /\ ready.ses.file = made.ses.file
          /\ ready.ses.received = made.ses.received
      BY <2>2 DEF IsWorld, IsSession
    <3> HIDE DEF ready
    <3>2. /\ IsWorld(good) /\ good.ses = ready.ses /\ good.mgr = ready.mgr
          /\ good.abortedAnalyzing = ready.abortedAnalyzing
          /\ good.shared.ring = ready.shared.ring /\ good.shared.abort = ready.shared.abort
          /\ good.shared.stop = ready.shared.stop
          /\ good.shared.async = ready.shared.async /\ ~good.shared.uploadComplete
      BY <3>1 DEF BeginSession, IsWorld, IsShared
    <3> HIDE DEF good
    <3>3. Named(good.ses) /\ Reapable(good.ses, good.mgr) /\ Stopped(good.mgr, good.shared)
          /\ Sent(good.ses)
      <4>1. Named(good.ses) /\ Sent(good.ses)
        BY <2>2, <3>1, <3>2, FreshSession DEF Named, Sent
      <4>2. Reapable(good.ses, good.mgr) /\ Stopped(good.mgr, good.shared)
        BY <2>2, <2>4, <3>1, <3>2 DEF Reapable, Stopped
      <4> QED BY <4>1, <4>2
    <3>4. ASSUME ~w.abortedAnalyzing
          PROVE  Kept(good.mgr) /\ Quiet(good.ses, good.mgr, good.shared, p)
      BY <2>2, <2>3, <3>1, <3>2, <3>4, FreshSession DEF Kept, Quiet, Empty, Pending
    <3> QED BY <2>2, <3>1, <3>2, <3>3, <3>4 DEF Sound, SoundAt, Phase
  <2>6. Sound(bad, p)
    <3>1. Cleaned(Cleanup(made), made)
      BY <2>2, FreshSession, CleanupCleans
    <3> DEFINE c == Cleanup(made)
    <3> HIDE DEF c
    <3>2. /\ IsWorld(bad) /\ bad.ses = NewSession /\ bad.shared = c.shared
          /\ bad.abortedAnalyzing = c.abortedAnalyzing
          /\ ~bad.mgr.active /\ bad.mgr.closing = c.mgr.closing
          /\ bad.mgr.sessionFinished = c.mgr.sessionFinished
          /\ bad.mgr.retained = c.mgr.retained
      BY <3>1, FreshSession DEF c, Cleaned, IsWorld, IsManager
    <3> HIDE DEF bad
    <3>3. /\ c.mgr = made.mgr /\ c.abortedAnalyzing = w.abortedAnalyzing
          /\ c.shared.ring = w.shared.ring /\ c.shared.async = w.shared.async
          /\ c.shared.abort /\ c.shared.stop = w.shared.stop
          /\ c.shared.uploadComplete = w.shared.uploadComplete
      BY <2>2, <3>1, FreshSession DEF c, Cleaned, Sound, IsWorld
    <3>4. Named(bad.ses) /\ Reapable(bad.ses, bad.mgr) /\ Stopped(bad.mgr, bad.shared)
          /\ Sent(bad.ses)
      BY <2>2, <2>4, <3>2, <3>3, FreshSession DEF Reapable, Stopped
    <3>5. ASSUME ~w.abortedAnalyzing
          PROVE  Kept(bad.mgr) /\ Aborting(bad.ses, bad.mgr, bad.shared, p)
      BY <2>2, <2>3, <3>2, <3>3, <3>5 DEF Kept, Quiet, Aborting, Empty, Pending, Consuming
    <3> QED BY <3>2, <3>3, <3>4, <3>5 DEF Sound, SoundAt, Phase
  <2> HIDE DEF good, bad
  <2> QED BY <2>1, <2>5, <2>6
<1> QED BY <1>1, <1>2

-----------------------------------------------------------------------------
(* A signal other than the completion is taken. *)
LEMMA FiredSound ==
    ASSUME NEW w, NEW p, NEW x \in {"resume", "abortDone"}, Sound(w, p)
    PROVE  LET o == [w EXCEPT !.shared.async = @ \ {x}]
           IN  Sound(o, p) /\ o.mgr = w.mgr
<1> DEFINE o == [w EXCEPT !.shared.async = @ \ {x}]
<1>1. /\ IsWorld(o) /\ o.ses = w.ses /\ o.mgr = w.mgr
      /\ o.abortedAnalyzing = w.abortedAnalyzing
      /\ o.shared.ring = w.shared.ring /\ o.shared.abort = w.shared.abort
      /\ o.shared.stop = w.shared.stop
      /\ o.shared.result = w.shared.result
      /\ o.shared.uploadComplete = w.shared.uploadComplete
      /\ o.shared.async = w.shared.async \ {x}
  BY DEF Sound, IsWorld, IsShared
<1> HIDE DEF o
<1>3. Pending(o.shared) <=> Pending(w.shared)
  BY <1>1 DEF Pending
<1>4. Sound(o, p)
  BY <1>1, <1>3 DEF Sound, SoundAt, Stopped, Phase, Quiet, Uploading, Draining, Completed,
         Delivered,
                    Aborting, Empty
<1> QED BY <1>1, <1>4 DEF o

(* reap: the session that was cleaned up is gone. *)
LEMMA ReapSound ==
    ASSUME NEW w, NEW p, Sound(w, p), ~w.mgr.closing, w.mgr.sessionFinished
    PROVE  Sound([w EXCEPT !.mgr.sessionFinished = FALSE, !.mgr.active = FALSE,
                           !.ses = NewSession], p)
<1> DEFINE o == [w EXCEPT !.mgr.sessionFinished = FALSE, !.mgr.active = FALSE,
                          !.ses = NewSession]
<1>1. /\ IsWorld(o) /\ o.ses = NewSession /\ o.shared = w.shared
      /\ o.abortedAnalyzing = w.abortedAnalyzing /\ ~o.mgr.active /\ ~o.mgr.sessionFinished
      /\ o.mgr.closing = w.mgr.closing /\ o.mgr.retained = w.mgr.retained
  BY FreshSession DEF Sound, IsWorld, IsManager
<1> HIDE DEF o
<1>2. w.mgr.active /\ w.ses.state = "Cleanup" /\ ~w.shared.stop /\ w.shared.stop \in BOOLEAN
  BY DEF Sound, SoundAt, Reapable, Stopped, IsWorld, IsShared
<1>3. ASSUME ~w.abortedAnalyzing
      PROVE  Kept(o.mgr) /\ Phase(o.ses, o.mgr, o.shared, p)
  BY <1>1, <1>2, <1>3 DEF Sound, SoundAt, Kept, Phase, Quiet, Uploading, Draining, Completed,
                          Delivered, Aborting
<1>4. Named(o.ses) /\ Reapable(o.ses, o.mgr) /\ Stopped(o.mgr, o.shared) /\ Sent(o.ses)
  BY <1>1, <1>2, FreshSession DEF Reapable, Stopped
<1>5. Sound(o, p)
  BY <1>1, <1>3, <1>4 DEF Sound, SoundAt
<1> QED BY <1>5 DEF o

(* A connection waits to be accepted. *)
LEMMA OfferedSound ==
    ASSUME NEW w, NEW p, Sound(w, p)
    PROVE  Sound([w EXCEPT !.mgr.connects = @ + 1, !.mgr.held = TRUE], p)
<1> DEFINE o == [w EXCEPT !.mgr.connects = @ + 1, !.mgr.held = TRUE]
<1>1. /\ IsWorld(o) /\ o.ses = w.ses /\ o.shared = w.shared
      /\ o.abortedAnalyzing = w.abortedAnalyzing /\ o.mgr.active = w.mgr.active
      /\ o.mgr.sessionFinished = w.mgr.sessionFinished
      /\ o.mgr.closing = w.mgr.closing /\ o.mgr.retained = w.mgr.retained
  BY DEF Sound, IsWorld, IsManager
<1> HIDE DEF o
<1>2. Sound(o, p)
  BY <1>1 DEF Sound, SoundAt, Reapable, Stopped, Kept, Phase, Quiet, Uploading, Draining, Completed,
              Delivered, Aborting
<1> QED BY <1>2 DEF o

(* A send completes. *)
LEMMA SendCompletedSound ==
    ASSUME NEW w, NEW p, Live(w, p), ~w.ses.cleanup
    PROVE  Live(SendCompleted(w), p)
<1> DEFINE v == [w EXCEPT !.ses.sends = Tail(@)]
<1>1. Moved(v, w, w.ses.state)
  BY DEF Live, Sound, Moved, IsWorld, IsSession
<1>2. SendCompleted(w) = IF w.ses.closeAfterSend THEN Cleanup(v)
                         ELSE IF w.ses.state = "SendingResult" THEN Transition(v, "WaitDone")
                         ELSE v
  BY DEF SendCompleted
<1> HIDE DEF v
<1>3. Live(v, p) /\ IsWorld(v)
  BY <1>1, LiveMoved DEF Moved
<1>4. Live(Cleanup(v), p)
  BY <1>3, CleanupEnds DEF Ends
<1>5. ASSUME w.ses.state = "SendingResult" PROVE Live(Transition(v, "WaitDone"), p)
  <2> DEFINE o == Transition(v, "WaitDone")
  <2>1. Moved(o, v, "WaitDone") /\ v.ses.state = "SendingResult"
    <3>1. v.ses.state = "SendingResult"
      BY <1>1, <1>5 DEF Moved
    <3>2. Moved(o, v, "WaitDone")
      BY <1>3, TransitionMoves
    <3> QED BY <3>1, <3>2
  <2> HIDE DEF o
  <2>2. Named(o.ses) /\ Reapable(o.ses, o.mgr) /\ Stopped(o.mgr, o.shared)
    BY <1>3, <2>1 DEF Moved, Live, Sound, SoundAt, Named, Reapable, Stopped
  <2>3. ASSUME ~v.abortedAnalyzing
        PROVE  Kept(o.mgr) /\ Sent(o.ses) /\ Phase(o.ses, o.mgr, o.shared, p)
    <3>1. /\ Kept(v.mgr) /\ Sent(v.ses)
          /\ Quiet(v.ses, v.mgr, v.shared, p) \/ Delivered(v.ses, v.mgr, v.shared, p)
      BY <1>3, <2>1, <2>3 DEF Live, Sound, SoundAt, Phase, Uploading, Draining, Completed, Aborting
    <3> QED BY <2>1, <3>1 DEF Moved, Kept, Sent, Phase, Quiet, Delivered, Empty, Pending
  <2>4. Live(o, p)
    BY <1>3, <2>1, <2>2, <2>3 DEF Live, Sound, SoundAt, Moved
  <2> QED BY <2>4 DEF o
<1> QED BY <1>2, <1>3, <1>4, <1>5

-----------------------------------------------------------------------------
(* The variables, as the fields of the world. *)
LEMMA WorldFields ==
    /\ World.ses = ses /\ World.mgr = mgr /\ World.shared = shared
    /\ World.abortedAnalyzing = abortedAnalyzing
    /\ DOMAIN World = {"ses", "mgr", "shared", "abortedAnalyzing"}
BY DEF World

(* The world a callback leaves is the next state. *)
LEMMA Installed ==
    ASSUME NEW v, IInv, Sound(v, parser), Install(v), UNCHANGED parser
    PROVE  IInv'
<1>1. /\ ses' = v.ses /\ mgr' = v.mgr /\ shared' = v.shared
      /\ abortedAnalyzing' = v.abortedAnalyzing
  BY DEF Install
<1>2. IsParser(parser')
  BY DEF IInv
<1>3. IsWorld(World') /\ SoundAt(ses', mgr', shared', abortedAnalyzing', parser')
  BY <1>1 DEF Sound, World, IsWorld
<1> QED BY <1>2, <1>3 DEF IInv, Sound, World

(* The callbacks of a session find it live. *)
LEMMA AliveIsLive ==
    ASSUME IInv, SessionAlive
    PROVE  Live(World, parser) /\ ~World.ses.cleanup
BY WorldFields DEF IInv, SessionAlive, LoopRuns, Live

(* A read keeps the invariant. *)
LEMMA ReadStep ==
    ASSUME IInv, OnRead
    PROVE  IInv'
<1>1. Live(World, parser)
  BY AliveIsLive DEF OnRead
<1>2. PICK data \in Reads, io \in IO : Install(HandleRead(World, data, io))
  BY DEF OnRead
<1>3. data \in ReadsIn(World.ses)
  BY WorldFields DEF Reads, ReadsIn
<1>4. Live(HandleRead(World, data, io), parser)
  BY <1>1, <1>3, ReadSound
<1> QED BY <1>2, <1>4, Installed DEF OnRead, Live

(* EOF, a timeout or a write error keep the invariant. *)
LEMMA CleanupStep ==
    ASSUME IInv, OnPeerGone \/ OnTimeout \/ OnWriteError
    PROVE  IInv'
<1>1. SessionAlive /\ Install(Cleanup(World)) /\ UNCHANGED parser
  BY DEF OnPeerGone, OnTimeout, OnWriteError
<1>2. Sound(Cleanup(World), parser)
  BY <1>1, AliveIsLive, CleanupEnds DEF Ends, Live
<1> QED BY <1>1, <1>2, Installed

(* The end of a send keeps the invariant. *)
LEMMA SendStep ==
    ASSUME IInv, OnSendComplete
    PROVE  IInv'
<1>1. SessionAlive /\ Install(SendCompleted(World)) /\ UNCHANGED parser
  BY DEF OnSendComplete
<1>2. Sound(SendCompleted(World), parser)
  BY <1>1, AliveIsLive, SendCompletedSound DEF Live
<1> QED BY <1>1, <1>2, Installed

(* The close callback keeps the invariant. *)
LEMMA ClosedStep ==
    ASSUME IInv, OnClosed
    PROVE  IInv'
<1>1. /\ IsSession(ses) /\ IsManager(mgr) /\ IsShared(shared) /\ abortedAnalyzing \in BOOLEAN
      /\ SoundAt(ses, mgr, shared, abortedAnalyzing, parser) /\ IsParser(parser)
  BY WorldFields DEF IInv, Sound, IsWorld
<1>2. /\ ses' = [ses EXCEPT !.finished = TRUE] /\ mgr' = [mgr EXCEPT !.sessionFinished = TRUE]
      /\ shared' = shared /\ parser' = parser /\ abortedAnalyzing' = abortedAnalyzing
      /\ mgr.active /\ ses.cleanup
  BY DEF OnClosed
<1>3. /\ IsSession(ses') /\ ses'.state = ses.state /\ ses'.file = ses.file
      /\ ses'.received = ses.received /\ ses'.csv = ses.csv /\ ses'.cleanup = ses.cleanup
      /\ IsManager(mgr') /\ mgr'.active = mgr.active /\ mgr'.closing = mgr.closing
      /\ mgr'.retained = mgr.retained
  BY <1>1, <1>2 DEF IsSession, IsManager
<1>4. Named(ses') /\ Reapable(ses', mgr') /\ Stopped(mgr', shared')
  BY <1>1, <1>2, <1>3 DEF SoundAt, Named, Reapable, Stopped
<1>5. abortedAnalyzing \/ (/\ Kept(mgr') /\ Sent(ses')
                           /\ mgr'.closing \/ Phase(ses', mgr', shared, parser))
  BY <1>1, <1>3, ZenonT(60) DEF SoundAt, Kept, Sent, Phase, Quiet, Uploading, Draining, Completed,
                    Delivered, Aborting
<1>6. IsWorld(World') /\ SoundAt(ses', mgr', shared', abortedAnalyzing', parser')
  BY <1>1, <1>2, <1>3, <1>4, <1>5 DEF World, IsWorld, SoundAt
<1> QED BY <1>1, <1>2, <1>6 DEF IInv, Sound, World

(* The reap, and the accept behind it, keep the invariant. *)
LEMMA ReapStep ==
    ASSUME IInv, OnReap
    PROVE  IInv'
<1> DEFINE v == [World EXCEPT !.mgr.sessionFinished = FALSE, !.mgr.active = FALSE,
                              !.ses = NewSession]
<1>1. PICK canRead \in BOOLEAN : Install(AcceptWhenParserIdle(v, canRead))
  BY DEF OnReap
<1>2. Sound(v, parser)
  <2>1. Sound(World, parser) /\ ~World.mgr.closing /\ World.mgr.sessionFinished
    BY WorldFields DEF OnReap, LoopRuns, IInv
  <2> QED BY <2>1, ReapSound
<1> HIDE DEF v
<1>3. Sound(AcceptWhenParserIdle(v, canRead), parser)
  BY <1>2, AcceptSound
<1> QED BY <1>1, <1>3, Installed DEF OnReap

(* The result handed to the loop keeps the invariant. *)
LEMMA CompletionStep ==
    ASSUME IInv, OnCompletionAsync
    PROVE  IInv'
<1> DEFINE v == [Fired("completion") EXCEPT !.shared.result = NoCsv]
           r(io) == IF mgr.active THEN OnAnalysisComplete(v, shared.result, io) ELSE v
<1>1. PICK io \in IO : Install(r(io))
  BY DEF OnCompletionAsync
<1>2. Sound(World, parser) /\ ~World.mgr.closing /\ Pending(World.shared)
  BY WorldFields DEF OnCompletionAsync, LoopRuns, IInv, Pending
<1>3. v = [[World EXCEPT !.shared.async = @ \ {"completion"}] EXCEPT !.shared.result = NoCsv]
  BY DEF Fired
<1>4. Sound(r(io), parser)
  <2>1. Sound(IF World.mgr.active THEN OnAnalysisComplete(v, World.shared.result, io) ELSE v,
              parser)
    <3> HIDE DEF v
    <3> QED BY <1>2, <1>3, CompletionSound
  <2> QED BY <2>1, WorldFields
<1> HIDE DEF r
<1> QED BY <1>1, <1>4, Installed DEF OnCompletionAsync

(* A read that is resumed keeps the invariant. *)
LEMMA ResumeStep ==
    ASSUME IInv, OnResumeAsync
    PROVE  IInv'
<1> DEFINE v == Fired("resume")
<1>1. Install(IF mgr.active THEN ResumeReading(v) ELSE v) /\ UNCHANGED parser
  BY DEF OnResumeAsync
<1>2. Sound(v, parser)
  BY FiredSound DEF Fired, IInv
<1> HIDE DEF v
<1>3. Sound(ResumeReading(v), parser)
  <2>1. Moved(ResumeReading(v), v, v.ses.state)
    BY <1>2, ResumeMoves DEF Sound
  <2> QED BY <1>2, <2>1, MoveInPlace
<1> QED BY <1>1, <1>2, <1>3, Installed

(* The end of the discard, and the accept behind it, keep the invariant. *)
LEMMA AbortDoneStep ==
    ASSUME IInv, OnAbortDoneAsync
    PROVE  IInv'
<1> DEFINE v == Fired("abortDone")
<1>1. PICK canRead \in BOOLEAN : Install(AcceptWhenParserIdle(v, canRead))
  BY DEF OnAbortDoneAsync
<1>2. Sound(v, parser)
  BY FiredSound DEF Fired, IInv
<1> HIDE DEF v
<1>3. Sound(AcceptWhenParserIdle(v, canRead), parser)
  BY <1>2, AcceptSound
<1> QED BY <1>1, <1>3, Installed DEF OnAbortDoneAsync

(* A new connection keeps the invariant. *)
LEMMA ConnectionStep ==
    ASSUME IInv, OnConnection
    PROVE  IInv'
<1> DEFINE v == [World EXCEPT !.mgr.connects = @ + 1, !.mgr.held = TRUE]
<1>1. \/ Install(v)
      \/ \E canRead \in BOOLEAN : Install(AcceptWhenParserIdle(v, canRead))
  BY DEF OnConnection
<1>2. Sound(v, parser)
  BY OfferedSound DEF IInv
<1>3. UNCHANGED parser
  BY DEF OnConnection
<1> HIDE DEF v
<1>4. \A canRead \in BOOLEAN : Sound(AcceptWhenParserIdle(v, canRead), parser)
  BY <1>2, AcceptSound
<1> QED BY <1>1, <1>2, <1>3, <1>4, Installed, Zenon

-----------------------------------------------------------------------------
(* A step of the parser keeps the invariant when it keeps the phase. *)
LEMMA ParserKeeps ==
    ASSUME IInv, UNCHANGED <<ses, mgr, abortedAnalyzing>>, IsParser(parser'), IsShared(shared'),
           shared'.stop = shared.stop,
           (~mgr.closing /\ Phase(ses, mgr, shared, parser)) => Phase(ses, mgr, shared', parser')
    PROVE  IInv'
<1>1. /\ IsSession(ses) /\ IsManager(mgr) /\ abortedAnalyzing \in BOOLEAN
      /\ SoundAt(ses, mgr, shared, abortedAnalyzing, parser)
  BY WorldFields DEF IInv, Sound, IsWorld
<1>2. SoundAt(ses', mgr', shared', abortedAnalyzing', parser')
  BY <1>1 DEF SoundAt, Stopped
<1>3. IsWorld(World')
  BY <1>1 DEF World, IsWorld
<1> QED BY <1>2, <1>3 DEF IInv, Sound, World

(* The parser and what it shares with the loop. *)
LEMMA ParserFields ==
    ASSUME IInv
    PROVE  IsParser(parser) /\ IsShared(shared) /\ (shared.stop => mgr.closing) /\ Named(ses)
BY WorldFields DEF IInv, Sound, IsWorld, SoundAt, Stopped

(* A step that moves the program counter alone. *)
LEMMA WakeStep ==
    ASSUME IInv, Wake
    PROVE  IInv'
<1>1. /\ parser.pc = "wait" /\ shared' = shared /\ IsParser(parser')
      /\ parser'.acc = parser.acc /\ parser'.pc = IF shared.stop THEN "exited" ELSE "gate"
      /\ shared.stop \/ shared.abort \/ shared.uploadComplete \/ shared.ring # <<>>
      /\ UNCHANGED <<ses, mgr, abortedAnalyzing>>
  BY ParserFields DEF Wake, ParserAt, IsParser
<1>2. ASSUME ~mgr.closing, Phase(ses, mgr, shared, parser)
      PROVE  Phase(ses, mgr, shared', parser')
  BY <1>1, <1>2, ParserFields DEF Phase, Quiet, Uploading, Draining, Completed, Delivered,
                                  Aborting, Empty, Consuming
<1> QED BY <1>1, <1>2, ParserFields, ParserKeeps

(* The parser looks at the abort flag. *)
LEMMA GateStep ==
    ASSUME IInv, Gate
    PROVE  IInv'
<1>1. /\ parser.pc = "gate" /\ shared' = shared /\ IsParser(parser')
      /\ parser'.acc = parser.acc /\ parser'.pc = IF shared.abort THEN "discard" ELSE "consume"
      /\ UNCHANGED <<ses, mgr, abortedAnalyzing>>
  BY ParserFields DEF Gate, ParserAt, IsParser
<1>2. ASSUME ~mgr.closing, Phase(ses, mgr, shared, parser)
      PROVE  Phase(ses, mgr, shared', parser')
  BY <1>1, <1>2 DEF Phase, Quiet, Uploading, Draining, Completed, Delivered, Aborting, Consuming
<1> QED BY <1>1, <1>2, ParserFields, ParserKeeps

(* The ring is empty, or the parser is interrupted. *)
LEMMA ConsumeEndsStep ==
    ASSUME IInv, ConsumeEnds
    PROVE  IInv'
<1>1. /\ parser.pc = "consume" /\ shared' = shared /\ IsParser(parser')
      /\ parser'.acc = parser.acc /\ parser'.pc = "check"
      /\ UNCHANGED <<ses, mgr, abortedAnalyzing>>
  BY ParserFields DEF ConsumeEnds, ParserAt, IsParser
<1>2. ASSUME ~mgr.closing, Phase(ses, mgr, shared, parser)
      PROVE  Phase(ses, mgr, shared', parser')
  BY <1>1, <1>2 DEF Phase, Quiet, Uploading, Draining, Completed, Delivered, Aborting, Consuming
<1> QED BY <1>1, <1>2, ParserFields, ParserKeeps

(* The upload ends with the ring empty: the parser has the whole file. *)
LEMMA CheckStep ==
    ASSUME IInv, CheckComplete
    PROVE  IInv'
<1>1. /\ parser.pc = "check" /\ shared' = shared /\ IsParser(parser')
      /\ parser'.acc = parser.acc
      /\ parser'.pc = IF shared.uploadComplete /\ shared.ring = <<>> THEN "finish" ELSE "wait"
      /\ UNCHANGED <<ses, mgr, abortedAnalyzing>>
  BY ParserFields DEF CheckComplete, ParserAt, IsParser
<1>2. ASSUME ~mgr.closing, Phase(ses, mgr, shared, parser)
      PROVE  Phase(ses, mgr, shared', parser')
  <2>1. CASE Draining(ses, mgr, shared, parser) /\ shared.ring = <<>>
    <3>1. /\ InOrder(parser.acc, <<>>, ses.file, ses.received)
          /\ ses.file \in File /\ ses.received = FileSize[ses.file]
      BY <1>1, <2>1, ParserFields DEF Draining, Named
    <3>2. ses.received \in Nat
      BY <3>1, ServerAssumption
    <3>3. parser.acc = Units(ses.file, 0, ses.received)
      BY <3>1, <3>2, OrderEmpty
    <3>4. parser.acc = Content(ses.file)
      BY <3>1, <3>3 DEF Content
    <3> QED BY <1>1, <2>1, <3>4 DEF Phase, Draining
  <2>2. CASE ~(Draining(ses, mgr, shared, parser) /\ shared.ring = <<>>)
    BY <1>1, <1>2, <2>2, ParserFields DEF Phase, Quiet, Uploading, Draining, Completed, Delivered,
                                          Aborting, Consuming
  <2> QED BY <2>1, <2>2
<1> QED BY <1>1, <1>2, ParserFields, ParserKeeps

-----------------------------------------------------------------------------
(* The discard empties the ring and what the parser has. *)
LEMMA DiscardStep ==
    ASSUME IInv, Discard
    PROVE  IInv'
<1>1. /\ parser.pc = "discard" /\ IsParser(parser')
      /\ parser'.pc = "abortClear" /\ parser'.acc = <<>>
      /\ IsShared(shared') /\ shared'.stop = shared.stop
      /\ shared'.ring = <<>>
      /\ shared'.abort = shared.abort
      /\ shared'.uploadComplete = shared.uploadComplete
      /\ shared'.result = shared.result
      /\ Pending(shared') <=> Pending(shared)
      /\ UNCHANGED <<ses, mgr, abortedAnalyzing>>
  BY ParserFields DEF Discard, ResetSessionState, SpaceSignal, IsParser, IsShared, Pending
<1>2. ASSUME ~mgr.closing, Phase(ses, mgr, shared, parser)
      PROVE  Phase(ses, mgr, shared', parser')
  BY <1>1, <1>2 DEF Phase, Quiet, Uploading, Draining, Completed, Delivered,
                    Aborting, Empty, Pending, Consuming
<1> QED BY <1>1, <1>2, ParserFields, ParserKeeps

(* The flag falls when nothing is left of the session. *)
LEMMA AbortClearStep ==
    ASSUME IInv, AbortClear
    PROVE  IInv'
<1>1. /\ parser.pc = "abortClear" /\ IsParser(parser')
      /\ parser'.pc = "abortSignal" /\ parser'.acc = parser.acc
      /\ IsShared(shared') /\ shared'.stop = shared.stop
      /\ shared'.ring = shared.ring
      /\ shared'.abort = FALSE
      /\ shared'.uploadComplete = shared.uploadComplete
      /\ shared'.result = shared.result
      /\ Pending(shared') <=> Pending(shared)
      /\ UNCHANGED <<ses, mgr, abortedAnalyzing>>
  BY ParserFields DEF AbortClear, ParserAt, IsParser, IsShared, Pending
<1>2. ASSUME ~mgr.closing, Phase(ses, mgr, shared, parser)
      PROVE  Phase(ses, mgr, shared', parser')
  BY <1>1, <1>2 DEF Phase, Quiet, Uploading, Draining, Completed, Delivered,
                    Aborting, Empty, Pending, Consuming
<1> QED BY <1>1, <1>2, ParserFields, ParserKeeps

(* The end of the discard is signalled. *)
LEMMA AbortSignalStep ==
    ASSUME IInv, AbortSignal
    PROVE  IInv'
<1>1. /\ parser.pc = "abortSignal" /\ IsParser(parser')
      /\ parser'.pc = "wait" /\ parser'.acc = parser.acc
      /\ IsShared(shared') /\ shared'.stop = shared.stop
      /\ shared'.ring = shared.ring
      /\ shared'.abort = shared.abort
      /\ shared'.uploadComplete = shared.uploadComplete
      /\ shared'.result = shared.result
      /\ Pending(shared') <=> Pending(shared)
      /\ UNCHANGED <<ses, mgr, abortedAnalyzing>>
  BY ParserFields DEF AbortSignal, ParserAt, IsParser, IsShared, Pending
<1>2. ASSUME ~mgr.closing, Phase(ses, mgr, shared, parser)
      PROVE  Phase(ses, mgr, shared', parser')
  BY <1>1, <1>2 DEF Phase, Quiet, Uploading, Draining, Completed, Delivered,
                    Aborting, Empty, Pending, Consuming
<1> QED BY <1>1, <1>2, ParserFields, ParserKeeps

(* A slot was freed. *)
LEMMA SignalSpaceStep ==
    ASSUME IInv, SignalSpace
    PROVE  IInv'
<1>1. /\ parser.pc = "space" /\ IsParser(parser')
      /\ parser'.pc = "consume" /\ parser'.acc = parser.acc
      /\ IsShared(shared') /\ shared'.stop = shared.stop
      /\ shared'.ring = shared.ring
      /\ shared'.abort = shared.abort
      /\ shared'.uploadComplete = shared.uploadComplete
      /\ shared'.result = shared.result
      /\ Pending(shared') <=> Pending(shared)
      /\ UNCHANGED <<ses, mgr, abortedAnalyzing>>
  BY ParserFields DEF SignalSpace, ParserAt, SpaceSignal, IsParser, IsShared, Pending
<1>2. ASSUME ~mgr.closing, Phase(ses, mgr, shared, parser)
      PROVE  Phase(ses, mgr, shared', parser')
  BY <1>1, <1>2 DEF Phase, Quiet, Uploading, Draining, Completed, Delivered,
                    Aborting, Empty, Pending, Consuming
<1> QED BY <1>1, <1>2, ParserFields, ParserKeeps

(* The CSV is that of everything accumulated. *)
LEMMA FinishBuildStep ==
    ASSUME IInv, FinishBuild
    PROVE  IInv'
<1>1. /\ parser.pc = "finish" /\ IsParser(parser')
      /\ parser'.pc = "finishReset" /\ parser'.acc = parser.acc
      /\ IsShared(shared') /\ shared'.stop = shared.stop
      /\ shared'.ring = shared.ring
      /\ shared'.abort = shared.abort
      /\ shared'.uploadComplete = shared.uploadComplete
      /\ shared'.result = parser.acc
      /\ Pending(shared') <=> Pending(shared)
      /\ UNCHANGED <<ses, mgr, abortedAnalyzing>>
  BY ParserFields DEF FinishBuild, IsParser, IsShared, Pending
<1>2. ASSUME ~mgr.closing, Phase(ses, mgr, shared, parser)
      PROVE  Phase(ses, mgr, shared', parser')
  BY <1>1, <1>2 DEF Phase, Quiet, Uploading, Draining, Completed, Delivered,
                    Aborting, Empty, Pending, Consuming
<1> QED BY <1>1, <1>2, ParserFields, ParserKeeps

(* The parser is ready for the next session before the result is signalled. *)
LEMMA FinishResetStep ==
    ASSUME IInv, FinishReset
    PROVE  IInv'
<1>1. /\ parser.pc = "finishReset" /\ IsParser(parser')
      /\ parser'.pc = "finishSignal" /\ parser'.acc = <<>>
      /\ IsShared(shared') /\ shared'.stop = shared.stop
      /\ shared'.ring = <<>>
      /\ shared'.abort = shared.abort
      /\ shared'.uploadComplete = shared.uploadComplete
      /\ shared'.result = shared.result
      /\ Pending(shared') <=> Pending(shared)
      /\ UNCHANGED <<ses, mgr, abortedAnalyzing>>
  BY ParserFields DEF FinishReset, ResetSessionState, SpaceSignal, IsParser, IsShared, Pending
<1>2. ASSUME ~mgr.closing, Phase(ses, mgr, shared, parser)
      PROVE  Phase(ses, mgr, shared', parser')
  BY <1>1, <1>2 DEF Phase, Quiet, Uploading, Draining, Completed, Delivered,
                    Aborting, Empty, Pending, Consuming
<1> QED BY <1>1, <1>2, ParserFields, ParserKeeps

(* The result is announced. *)
LEMMA FinishSignalStep ==
    ASSUME IInv, FinishSignal
    PROVE  IInv'
<1>1. /\ parser.pc = "finishSignal" /\ IsParser(parser')
      /\ parser'.pc = "finishClear" /\ parser'.acc = parser.acc
      /\ IsShared(shared') /\ shared'.stop = shared.stop
      /\ shared'.ring = shared.ring
      /\ shared'.abort = shared.abort
      /\ shared'.uploadComplete = shared.uploadComplete
      /\ shared'.result = shared.result
      /\ Pending(shared')
      /\ UNCHANGED <<ses, mgr, abortedAnalyzing>>
  BY ParserFields DEF FinishSignal, ParserAt, IsParser, IsShared, Pending
<1>2. ASSUME ~mgr.closing, Phase(ses, mgr, shared, parser)
      PROVE  Phase(ses, mgr, shared', parser')
  BY <1>1, <1>2 DEF Phase, Quiet, Uploading, Draining, Completed, Delivered,
                    Aborting, Empty, Pending, Consuming
<1> QED BY <1>1, <1>2, ParserFields, ParserKeeps

(* The flag of the finished upload is cleared. *)
LEMMA FinishClearStep ==
    ASSUME IInv, FinishClear
    PROVE  IInv'
<1>1. /\ parser.pc = "finishClear" /\ IsParser(parser')
      /\ parser'.pc = "wait" /\ parser'.acc = parser.acc
      /\ IsShared(shared') /\ shared'.stop = shared.stop
      /\ shared'.ring = shared.ring
      /\ shared'.abort = shared.abort
      /\ shared'.uploadComplete = FALSE
      /\ shared'.result = shared.result
      /\ Pending(shared') <=> Pending(shared)
      /\ UNCHANGED <<ses, mgr, abortedAnalyzing>>
  BY ParserFields DEF FinishClear, ParserAt, IsParser, IsShared, Pending
<1>2. ASSUME ~mgr.closing, Phase(ses, mgr, shared, parser)
      PROVE  Phase(ses, mgr, shared', parser')
  BY <1>1, <1>2 DEF Phase, Quiet, Uploading, Draining, Completed, Delivered,
                    Aborting, Empty, Pending, Consuming
<1> QED BY <1>1, <1>2, ParserFields, ParserKeeps

(* A slot moves from the ring to the parser. *)
LEMMA ConsumeSlotStep ==
    ASSUME IInv, ConsumeSlot
    PROVE  IInv'
<1>1. /\ parser.pc = "consume" /\ IsParser(parser')
      /\ parser'.pc = "space" /\ parser'.acc = parser.acc \o Head(shared.ring)
      /\ shared.ring # <<>> /\ ~shared.abort
      /\ IsShared(shared') /\ shared'.stop = shared.stop
      /\ shared'.ring = Tail(shared.ring)
      /\ shared'.abort = shared.abort
      /\ shared'.uploadComplete = shared.uploadComplete
      /\ shared'.result = shared.result
      /\ Pending(shared') <=> Pending(shared)
      /\ UNCHANGED <<ses, mgr, abortedAnalyzing>>
  BY ParserFields DEF ConsumeSlot, IsParser, IsShared, Pending
<1>2. ASSUME ~mgr.closing, Phase(ses, mgr, shared, parser)
      PROVE  Phase(ses, mgr, shared', parser')
  <2>1. /\ Uploading(ses, mgr, shared, parser) \/ Draining(ses, mgr, shared, parser)
        /\ InOrder(parser.acc, shared.ring, ses.file, ses.received)
    <3>1. ~Quiet(ses, mgr, shared, parser)
      BY <1>1 DEF Quiet
    <3>2. ~Completed(ses, mgr, shared, parser) /\ ~Delivered(ses, mgr, shared, parser)
      BY <1>1 DEF Completed, Delivered
    <3>3. ~Aborting(ses, mgr, shared, parser)
      BY <1>1 DEF Aborting
    <3>4. Uploading(ses, mgr, shared, parser) \/ Draining(ses, mgr, shared, parser)
      BY <1>2, <3>1, <3>2, <3>3, Zenon DEF Phase
    <3> QED BY <1>1, <3>4 DEF Uploading, Draining
  <2>2. ses.received \in Nat /\ shared.ring \in Seq(Slot)
    <3>1. ses.state \in {"Receiving", "Verifying", "Analyzing"}
      BY <2>1 DEF Uploading, Draining
    <3>2. ses.file \in File /\ ses.received \in 0 .. FileSize[ses.file]
      BY <3>1, ParserFields DEF Named
    <3> QED BY <3>2, ParserFields, ServerAssumption DEF IsShared
  <2>3. InOrder(parser'.acc, shared'.ring, ses.file, ses.received)
    BY <1>1, <2>1, <2>2, OrderConsume
  <2> QED BY <1>1, <2>1, <2>3 DEF Phase, Uploading, Draining, Consuming
<1> QED BY <1>1, <1>2, ParserFields, ParserKeeps

-----------------------------------------------------------------------------
(* close(): the session is gone; from here on only the parser runs. *)
LEMMA CloseStep ==
    ASSUME IInv, Close
    PROVE  IInv'
<1>1. /\ IsManager(mgr) /\ IsShared(shared) /\ abortedAnalyzing \in BOOLEAN
      /\ SoundAt(ses, mgr, shared, abortedAnalyzing, parser) /\ IsParser(parser)
  BY WorldFields DEF IInv, Sound, IsWorld
<1>2. /\ ses' = NewSession /\ parser' = parser /\ abortedAnalyzing' = abortedAnalyzing
      /\ IsManager(mgr') /\ mgr'.closing /\ ~mgr'.sessionFinished
      /\ mgr'.retained = mgr.retained /\ IsShared(shared')
  BY <1>1 DEF Close, IsManager, IsShared
<1>3. SoundAt(ses', mgr', shared', abortedAnalyzing', parser')
  BY <1>1, <1>2, FreshSession DEF SoundAt, Reapable, Stopped, Kept
<1>4. IsWorld(World')
  BY <1>1, <1>2, FreshSession DEF World, IsWorld
<1> QED BY <1>1, <1>2, <1>3, <1>4 DEF IInv, Sound, World

(* close(): the handles are closed, a pending signal is dropped. *)
LEMMA JoinStep ==
    ASSUME IInv, Join
    PROVE  IInv'
<1>1. /\ IsSession(ses) /\ IsManager(mgr) /\ IsShared(shared) /\ abortedAnalyzing \in BOOLEAN
      /\ SoundAt(ses, mgr, shared, abortedAnalyzing, parser) /\ IsParser(parser)
  BY WorldFields DEF IInv, Sound, IsWorld
<1>2. /\ ses' = ses /\ parser' = parser /\ abortedAnalyzing' = abortedAnalyzing
      /\ IsManager(mgr') /\ mgr'.closing /\ mgr'.sessionFinished = mgr.sessionFinished
      /\ mgr'.active = mgr.active /\ mgr'.retained = mgr.retained /\ IsShared(shared')
  BY <1>1 DEF Join, IsManager, IsShared
<1>3. SoundAt(ses', mgr', shared', abortedAnalyzing', parser')
  BY <1>1, <1>2 DEF SoundAt, Reapable, Stopped, Kept
<1>4. IsWorld(World')
  BY <1>1, <1>2 DEF World, IsWorld
<1> QED BY <1>1, <1>2, <1>3, <1>4 DEF IInv, Sound, World

(* The server starts with no session and an idle parser. *)
LEMMA InitSound ==
    ASSUME Init
    PROVE  IInv
<1>1. IsSession(ses) /\ Named(ses) /\ Sent(ses)
  BY FreshSession DEF Init
<1>2. IsManager(mgr) /\ ~mgr.active /\ ~mgr.sessionFinished /\ Kept(mgr)
  BY DEF Init, IsManager, Kept
<1>3. /\ IsShared(shared) /\ ~shared.stop /\ ~shared.abort /\ ~shared.uploadComplete
      /\ ~Pending(shared) /\ shared.ring = <<>>
  <2>1. <<>> \in Seq(Slot)
    OBVIOUS
  <2> QED BY <2>1, SMTT(30) DEF Init, IsShared, Pending
<1>4. IsParser(parser) /\ parser.pc = "wait" /\ parser.acc = <<>> /\ abortedAnalyzing = FALSE
  BY DEF Init, IsParser
<1>5. Quiet(ses, mgr, shared, parser)
  BY <1>2, <1>3, <1>4 DEF Quiet, Empty
<1>6. SoundAt(ses, mgr, shared, abortedAnalyzing, parser)
  BY <1>1, <1>2, <1>3, <1>5 DEF SoundAt, Reapable, Stopped, Phase
<1>7. IsWorld(World)
  BY <1>1, <1>2, <1>3, <1>4 DEF World, IsWorld
<1> QED BY <1>4, <1>6, <1>7, WorldFields DEF IInv, Sound

(* A step that changes nothing. *)
LEMMA StutterSound ==
    ASSUME IInv, UNCHANGED vars
    PROVE  IInv'
<1>1. World' = World /\ parser' = parser
  BY DEF vars, World
<1> QED BY <1>1 DEF IInv

(* Every step of the loop and of the parser keeps the invariant: in each    *)
(* phase, what the parser holds and what waits in the ring is the payload   *)

(* of the one session that is served.                                       *)
THEOREM Invariance == Spec => []IInv
<1>1. Init => IInv
  BY InitSound
<1>2. IInv /\ [Next]_vars => IInv'
  <2> SUFFICES ASSUME IInv, [Next]_vars PROVE IInv'
    OBVIOUS
  <2>1. CASE ParserStep
    BY <2>1, WakeStep, GateStep, DiscardStep, AbortClearStep, AbortSignalStep, ConsumeSlotStep,
       SignalSpaceStep, ConsumeEndsStep, CheckStep, FinishBuildStep, FinishResetStep,
       FinishSignalStep, FinishClearStep, Zenon DEF ParserStep
  <2>2. CASE PeerStep
    BY <2>2, ReadStep, CleanupStep, ConnectionStep, Zenon DEF PeerStep
  <2>3. CASE LoopStep
    BY <2>3, CleanupStep, SendStep, ClosedStep, ReapStep, CompletionStep, ResumeStep,
       AbortDoneStep, JoinStep, Zenon DEF LoopStep
  <2>4. CASE Close
    BY <2>4, CloseStep
  <2>5. CASE Terminated \/ UNCHANGED vars
    BY <2>5, StutterSound DEF Terminated
  <2> QED BY <2>1, <2>2, <2>3, <2>4, <2>5, Zenon DEF Next
<1> QED BY <1>1, <1>2, PTL DEF Spec

(* As long as no session was torn down in ANALYZING, what the parser has    *)
(* accumulated and what waits in the ring is exactly the payload received   *)

(* (the gate of acceptWhenParserIdle against the asynchronous discard).     *)
THEOREM NothingLostOrLeft == Spec => []StreamIntact
<1>1. IInv => StreamIntact
  BY WorldFields DEF IInv, Sound, SoundAt, StreamIntact, SessionAlive, LoopRuns, Phase, Quiet,
                     Uploading, Draining, Completed, Delivered, Aborting
<1> QED BY <1>1, Invariance, PTL

(* As long as no session was torn down in ANALYZING, the CSV a session      *)
(* sends and the one that is retained are the analysis of the whole file    *)

(* they name (onAnalysisComplete, handleResultRequest).                     *)
THEOREM ResultsAreOwn == Spec => []ResultIsOwnBarringAbort
<1>1. IInv => ResultIsOwnBarringAbort
  BY WorldFields DEF IInv, Sound, SoundAt, ResultIsOwnBarringAbort, ResultIsOwn, RetainedIsOwn,
                     SessionAlive, Named, Kept, Sent
<1> QED BY <1>1, Invariance, PTL
=============================================================================
