----------------------- MODULE ParserHandshake_proofs -----------------------
(***************************************************************************)
(* Proofs about the hand-over between the loop and the parser thread, for   *)
(* every ring size, every number of slots of an upload and of sessions.     *)
(***************************************************************************)
EXTENDS ParserHandshake, SequenceTheorems, TLAPS

LoopPcs ==
    {"idle", "commitLock", "commitNotify", "backpressure", "setStopped", "recheck", "resume",
     "verify", "markComplete", "abort", "notify", "stop", "stopNotify", "join", "joined"}

States == {"Receiving", "Analyzing", "Sending", "Closing", "Closed"}

ParserPcs ==
    {"lock", "evaluate", "sleep", "asleep", "gate", "exited",
     "discard", "discarded", "discardSignal", "abortClear", "abortSignal",
     "consume", "space", "spaceSignal", "check",
     "finish", "finished", "finishSignal", "completion", "uploadClear"}

LoopType ==
    [pc : LoopPcs, state : States, reading : BOOLEAN, left : Nat, trailer : BOOLEAN,
     held : BOOLEAN, sessions : Nat]

MemType ==
    [seenByLoop : Nat, seenByParser : Nat, readStopped : BOOLEAN, abort : BOOLEAN,
     uploadComplete : BOOLEAN, stop : BOOLEAN]

LoopStores == {"tail", "stopped", "running", "uploadClear"}
ParserStores == {"head", "abortClear", "uploadClear"}
BufType == [loop : Seq(LoopStores), parser : Seq(ParserStores)]

TypeOK ==
    /\ loop \in LoopType
    /\ parser \in ParserPcs
    /\ mem \in MemType
    /\ buf \in BufType
    /\ mutex \in {"free", "parser"}
-----------------------------------------------------------------------------
(* The inductive invariant. *)

\* The parser evaluates the predicate, and decides to wait, under the mutex.
MutexHeld == mutex = "parser" <=> parser \in {"evaluate", "sleep"}

\* The predicate of the wait.
Work == mem.stop \/ mem.abort \/ mem.uploadComplete \/ mem.seenByParser > 0

\* What turned up for a parser that waits, or is about to, will be notified: by a
\* commit still to take the mutex, or by a callback past it.
WorkIsNotified ==
    /\ (parser = "sleep" /\ Work) => loop.pc = "commitLock"
    /\ (parser = "asleep" /\ Work) =>
          loop.pc \in {"commitLock", "commitNotify", "notify", "stopNotify"}

\* A tail not visible yet is the loop's last store, and its commit waits for it.
TailIsLast ==
    \A i \in 1 .. Len(buf.loop) :
        buf.loop[i] = "tail" => i = Len(buf.loop) /\ loop.pc = "commitLock"

\* The parser has at most one store that is not visible yet.
ParserStore ==
    \/ buf.parser = <<>>
    \/ /\ buf.parser = <<"head">>
       /\ parser \in {"space", "spaceSignal", "consume", "check", "finish", "lock"}
    \/ buf.parser = <<"abortClear">> /\ parser = "abortSignal"
    \/ buf.parser = <<"uploadClear">> /\ parser = "lock"

PendingTail(stores) == IF stores # <<>> /\ stores[Len(stores)] = "tail" THEN 1 ELSE 0
PendingHead(stores) == IF stores = <<"head">> THEN 1 ELSE 0

\* Both threads count the same slots, but for the stores in flight.
CountsAgree ==
    /\ mem.seenByLoop = mem.seenByParser + PendingTail(buf.loop) + PendingHead(buf.parser)
    /\ mem.seenByLoop <= SlotCount

\* An abort is of the session that is being closed, and set as it starts closing.
AbortWhileClosing ==
    /\ mem.abort => loop.state \in {"Closing", "Closed"}
    /\ loop.pc = "abort" => loop.state = "Closing"

\* A trailer is verified, or waits behind payload being committed, while receiving.
TrailerWhileReceiving ==
    /\ loop.pc = "verify" => loop.state = "Receiving"
    /\ loop.trailer =>
          /\ loop.state = "Receiving"
          /\ loop.pc \in {"commitLock", "commitNotify", "backpressure", "setStopped", "recheck",
                         "resume", "verify"}

Discarding == {"discard", "discarded", "discardSignal", "abortClear"}

\* The abort flag stays up until the ring is empty.
RingEmptied ==
    /\ (parser \in Discarding \/ buf.parser = <<"abortClear">>) => mem.abort
    /\ (parser \in Discarding \ {"discard"} \/ buf.parser = <<"abortClear">>) =>
          mem.seenByLoop = 0

\* No abort outstanding and no session: the ring is empty.
EmptyBetweenSessions ==
    loop.state \in {"Closing", "Closed"} =>
        loop.pc = "abort" \/ mem.abort \/ mem.seenByLoop = 0

\* A full ring is being read into only until backpressure is looked at.
FullIsNoticed ==
    (loop.state = "Receiving" /\ loop.reading /\ loop.left > 0 /\ RingFull) =>
        loop.pc \in {"commitLock", "commitNotify", "backpressure"}

IInv ==
    /\ TypeOK
    /\ MutexHeld
    /\ WorkIsNotified
    /\ TailIsLast
    /\ ParserStore
    /\ CountsAgree
    /\ AbortWhileClosing
    /\ TrailerWhileReceiving
    /\ RingEmptied
    /\ EmptyBetweenSessions
    /\ FullIsNoticed
-----------------------------------------------------------------------------
(* Stores of the loop that wait to become visible. *)

NoTail(stores) == \A i \in 1 .. Len(stores) : stores[i] # "tail"

(* Between callbacks, and in all of them but a commit, no tail is in flight. *)
LEMMA TailOnlyInCommit ==
    ASSUME TypeOK, TailIsLast, loop.pc # "commitLock"
    PROVE  NoTail(buf.loop) /\ PendingTail(buf.loop) = 0
<1>1. buf.loop \in Seq(LoopStores)
  BY DEF TypeOK, BufType
<1>2. NoTail(buf.loop)
  BY DEF TailIsLast, NoTail
<1>3. buf.loop # <<>> => Len(buf.loop) \in 1 .. Len(buf.loop)
  BY <1>1
<1> QED
  BY <1>2, <1>3 DEF NoTail, PendingTail

(* Other stores behind stores without a tail. *)
LEMMA PlainStores ==
    ASSUME NEW s \in Seq(LoopStores), NEW q \in Seq(LoopStores), NoTail(s), NoTail(q)
    PROVE  s \o q \in Seq(LoopStores) /\ NoTail(s \o q) /\ PendingTail(s \o q) = 0
<1>1. s \o q \in Seq(LoopStores) /\ Len(s \o q) = Len(s) + Len(q)
  OBVIOUS
<1>2. NoTail(s \o q)
  BY DEF NoTail
<1>3. s \o q # <<>> => Len(s \o q) \in 1 .. Len(s \o q)
  BY <1>1
<1> QED
  BY <1>1, <1>2, <1>3 DEF NoTail, PendingTail

(* A tail behind stores without one. *)
LEMMA TailStore ==
    ASSUME NEW s \in Seq(LoopStores), NoTail(s)
    PROVE  /\ s \o <<"tail">> \in Seq(LoopStores)
           /\ \A i \in 1 .. Len(s \o <<"tail">>) :
                 (s \o <<"tail">>)[i] = "tail" => i = Len(s \o <<"tail">>)
           /\ PendingTail(s \o <<"tail">>) = 1
<1>1. <<"tail">> \in Seq(LoopStores) /\ Len(<<"tail">>) = 1 /\ <<"tail">>[1] = "tail"
  BY DEF LoopStores
<1>2. /\ s \o <<"tail">> \in Seq(LoopStores)
      /\ Len(s \o <<"tail">>) = Len(s) + 1
      /\ \A i \in 1 .. Len(s) : (s \o <<"tail">>)[i] = s[i]
      /\ (s \o <<"tail">>)[Len(s) + 1] = "tail"
  BY <1>1
<1>3. s \o <<"tail">> # <<>>
  BY <1>2
<1> QED
  BY <1>2, <1>3 DEF NoTail, PendingTail

(* The oldest store of the loop becomes visible: q is s without its head. *)
LEMMA OldestStore ==
    ASSUME NEW s \in Seq(LoopStores), NEW q \in Seq(LoopStores),
           Len(s) # 0, Len(q) = Len(s) - 1,
           \A i \in 1 .. Len(q) : q[i] = s[i + 1],
           \A i \in 1 .. Len(s) : s[i] = "tail" => i = Len(s)
    PROVE  /\ \A i \in 1 .. Len(q) : q[i] = "tail" => i = Len(q) /\ s[i + 1] = "tail"
           /\ s[1] = "tail" => PendingTail(s) = 1 /\ PendingTail(q) = 0
           /\ s[1] # "tail" => PendingTail(q) = PendingTail(s)
<1>len. Len(s) \in Nat /\ Len(q) \in Nat /\ s # <<>>
  BY EmptySeq
<1>1. \A i \in 1 .. Len(q) : q[i] = "tail" => i = Len(q) /\ s[i + 1] = "tail"
  BY <1>len
<1>2. ASSUME s[1] = "tail"
      PROVE  PendingTail(s) = 1 /\ PendingTail(q) = 0
  <2>1. Len(s) = 1
    BY <1>len, <1>2
  <2>2. q = <<>>
    BY <2>1, EmptySeq
  <2> QED
    BY <1>len, <1>2, <2>1, <2>2 DEF PendingTail
<1>3. ASSUME s[1] # "tail"
      PROVE  PendingTail(q) = PendingTail(s)
  <2>1. CASE Len(s) = 1
    <3>1. q = <<>>
      BY <2>1, EmptySeq
    <3> QED
      BY <1>len, <1>3, <2>1, <3>1 DEF PendingTail
  <2>2. CASE Len(s) # 1
    <3>1. Len(q) \in 1 .. Len(q) /\ Len(q) + 1 = Len(s)
      BY <1>len, <2>2
    <3>2. q[Len(q)] = s[Len(s)] /\ q # <<>>
      BY <3>1, EmptySeq
    <3> QED
      BY <1>len, <3>2 DEF PendingTail
  <2> QED
    BY <2>1, <2>2
<1> QED
  BY <1>1, <1>2, <1>3

\* The loop stored no tail and the parser nothing.
StoresArePlain == buf' \in BufType /\ buf'.parser = buf.parser /\ NoTail(buf'.loop)

(* The loop stores q behind what waits already. *)
LEMMA PlainStep ==
    ASSUME TypeOK, TailIsLast, loop.pc # "commitLock",
           NEW q \in Seq(LoopStores), NoTail(q), Store("loop", mem, q)
    PROVE  StoresArePlain /\ mem' = mem
<1>1. buf \in BufType /\ NoTail(buf.loop)
  BY TailOnlyInCommit DEF TypeOK, BufType
<1>2. buf.loop \o q \in Seq(LoopStores) /\ NoTail(buf.loop \o q)
  <2>1. buf.loop \in Seq(LoopStores)
    BY <1>1 DEF BufType
  <2> QED
    BY <1>1, <2>1, PlainStores
<1>3. buf' = [buf EXCEPT !.loop = buf.loop \o q] /\ mem' = mem
  BY DEF Store
<1> QED
  BY <1>1, <1>2, <1>3 DEF StoresArePlain, BufType

\* Without a commit or a new store no tail is on its way.
LEMMA QuietStep ==
    ASSUME TypeOK, TailIsLast, loop.pc # "commitLock", buf' = buf
    PROVE  StoresArePlain
BY TailOnlyInCommit DEF TypeOK, BufType, StoresArePlain

Notifying == {"commitLock", "commitNotify", "notify", "stopNotify"}

(* Steps of the loop that change its session and at most store flags. *)
LEMMA SessionStep ==
    ASSUME IInv, StoresArePlain, UNCHANGED <<parser, mem, mutex>>,
           loop.pc \notin Notifying, loop' \in LoopType, loop'.pc # "commitLock",
           mem.abort => loop'.state \in {"Closing", "Closed"},
           loop'.pc = "abort" => loop'.state = "Closing",
           TrailerWhileReceiving',
           loop'.state \in {"Closing", "Closed"} /\ loop'.pc # "abort" =>
               loop.state \in {"Closing", "Closed"} /\ loop.pc # "abort",
           loop'.state = "Receiving" /\ loop'.reading /\ loop'.left > 0 /\ RingFull =>
               loop'.pc \in {"commitLock", "commitNotify", "backpressure"}
    PROVE  IInv'
<1>typ. TypeOK /\ TailIsLast
  BY DEF IInv
<1>1. PendingTail(buf.loop) = 0 /\ PendingTail(buf'.loop) = 0
  <2>1. buf'.loop \in Seq(LoopStores) /\ NoTail(buf'.loop)
    BY DEF StoresArePlain, BufType
  <2>2. PendingTail(buf'.loop) = 0
    <3>1. buf'.loop # <<>> => Len(buf'.loop) \in 1 .. Len(buf'.loop)
      BY <2>1, EmptySeq
    <3> QED
      BY <2>1, <3>1 DEF NoTail, PendingTail
  <2>3. PendingTail(buf.loop) = 0
    BY <1>typ, TailOnlyInCommit DEF Notifying
  <2> QED
    BY <2>2, <2>3
<1>2. TypeOK'
  BY <1>typ DEF TypeOK, StoresArePlain, BufType
<1>3. MutexHeld' /\ WorkIsNotified'
  BY DEF IInv, MutexHeld, WorkIsNotified, Work, Notifying
<1>4. TailIsLast'
  BY DEF StoresArePlain, NoTail, TailIsLast
<1>5. ParserStore' /\ CountsAgree'
  BY <1>1 DEF IInv, ParserStore, CountsAgree, StoresArePlain
<1>6. AbortWhileClosing' /\ RingEmptied' /\ EmptyBetweenSessions' /\ FullIsNoticed'
  BY DEF IInv, AbortWhileClosing, RingEmptied, EmptyBetweenSessions, FullIsNoticed, RingFull,
         Discarding, StoresArePlain
<1> QED
  BY <1>2, <1>3, <1>4, <1>5, <1>6 DEF IInv

(* Backpressure: a full ring stops the reads. *)
LEMMA BackpressureInv == IInv /\ ApplyBackpressure => IInv'
<1> SUFFICES ASSUME IInv, ApplyBackpressure PROVE IInv'
  OBVIOUS
<1>typ. TypeOK /\ TailIsLast /\ loop \in LoopType
  BY DEF IInv, TypeOK
<1>1. loop.pc = "backpressure" /\ UNCHANGED <<parser, mem, buf, mutex>>
  BY DEF ApplyBackpressure
<1>2. StoresArePlain
  BY <1>typ, <1>1, QuietStep
<1>inv. AbortWhileClosing /\ EmptyBetweenSessions /\ TrailerWhileReceiving
  BY DEF IInv
<1>3. CASE RingFull /\ loop.reading
  <2>1. loop' = [loop EXCEPT !.pc = "setStopped", !.reading = FALSE]
    BY <1>3 DEF ApplyBackpressure
  <2>2. loop' \in LoopType
    BY <1>typ, <2>1 DEF LoopType, LoopPcs
  <2>3. loop'.pc = "setStopped" /\ loop'.state = loop.state
    BY <1>typ, <2>1 DEF LoopType
  <2>4. ~loop'.reading /\ loop'.trailer = loop.trailer
    BY <1>typ, <2>1 DEF LoopType
  <2>5. TrailerWhileReceiving'
    BY <1>inv, <2>3, <2>4 DEF TrailerWhileReceiving
  <2> QED
    BY <1>1, <1>2, <1>inv, <2>2, <2>3, <2>4, <2>5, SessionStep
    DEF Notifying, AbortWhileClosing
<1>4. CASE ~(RingFull /\ loop.reading)
  <2>1. loop' = [loop EXCEPT !.pc = AfterPayload] /\ AfterPayload \in {"verify", "idle"}
    BY <1>4 DEF ApplyBackpressure, AfterPayload
  <2>2. /\ loop' \in LoopType /\ loop'.pc = AfterPayload /\ loop'.state = loop.state
        /\ loop'.reading = loop.reading /\ loop'.left = loop.left /\ loop'.trailer = loop.trailer
    BY <1>typ, <2>1 DEF LoopType, LoopPcs
  <2>3. TrailerWhileReceiving'
    BY <1>inv, <2>2 DEF TrailerWhileReceiving, AfterPayload
  <2> QED
    BY <1>1, <1>2, <1>4, <1>inv, <2>1, <2>2, <2>3, SessionStep DEF Notifying, AbortWhileClosing
<1> QED
  BY <1>3, <1>4

(* _readStopped is set, then the ring is looked at once more. *)
LEMMA StopReadingInv == IInv /\ (SetReadStopped \/ RecheckRing) => IInv'
<1> SUFFICES ASSUME IInv, SetReadStopped \/ RecheckRing PROVE IInv'
  OBVIOUS
<1>typ. TypeOK /\ TailIsLast /\ loop \in LoopType
  BY DEF IInv, TypeOK
<1>inv. /\ AbortWhileClosing /\ EmptyBetweenSessions /\ FullIsNoticed
        /\ TrailerWhileReceiving
  BY DEF IInv
<1>1. CASE SetReadStopped
  <2>1. StoresArePlain /\ mem' = mem
    <3>1. <<"stopped">> \in Seq(LoopStores) /\ NoTail(<<"stopped">>)
      BY DEF LoopStores, NoTail
    <3> QED
      BY <1>1, <1>typ, <3>1, PlainStep DEF SetReadStopped, LoopAt
  <2>2. /\ loop' \in LoopType /\ loop.pc = "setStopped" /\ loop'.pc = "recheck"
        /\ loop'.state = loop.state /\ loop'.reading = loop.reading /\ loop'.left = loop.left
        /\ loop'.trailer = loop.trailer
    BY <1>1, <1>typ DEF SetReadStopped, LoopAt, LoopType, LoopPcs
  <2>3. UNCHANGED <<parser, mutex>>
    BY <1>1 DEF SetReadStopped, LoopAt
  <2>4. TrailerWhileReceiving'
    BY <1>inv, <2>2 DEF TrailerWhileReceiving
  <2> QED
    BY <1>inv, <2>1, <2>2, <2>3, <2>4, SessionStep DEF Notifying, AbortWhileClosing, FullIsNoticed
<1>2. CASE RecheckRing
  <2>1. UNCHANGED <<parser, mem, buf, mutex>> /\ loop.pc = "recheck"
    BY <1>2 DEF RecheckRing, LoopAt
  <2>2. /\ loop' \in LoopType
        /\ loop'.pc \in IF loop.trailer THEN {"verify", "resume"} ELSE {"idle", "resume"}
        /\ loop'.state = loop.state /\ loop'.reading = loop.reading /\ loop'.left = loop.left
        /\ loop'.trailer = loop.trailer
    BY <1>2, <1>typ DEF RecheckRing, LoopAt, AfterPayload, LoopType, LoopPcs
  <2>3. StoresArePlain
    BY <1>typ, <2>1, QuietStep
  <2>4. TrailerWhileReceiving'
    BY <1>inv, <2>2 DEF TrailerWhileReceiving
  <2> QED
    BY <1>inv, <2>1, <2>2, <2>3, <2>4, SessionStep DEF Notifying, AbortWhileClosing, FullIsNoticed
<1> QED
  BY <1>1, <1>2

(* resumeReading(): reading restarts only with a free slot while payload is due. *)
LEMMA ResumeInv == IInv /\ ResumeReading => IInv'
<1> SUFFICES ASSUME IInv, ResumeReading PROVE IInv'
  OBVIOUS
<1>typ. TypeOK /\ TailIsLast /\ loop \in LoopType
  BY DEF IInv, TypeOK
<1>inv. /\ AbortWhileClosing /\ EmptyBetweenSessions /\ FullIsNoticed
        /\ TrailerWhileReceiving
  BY DEF IInv
<1>1. loop.pc = "resume" /\ UNCHANGED <<parser, mutex>> /\ AfterPayload \in {"verify", "idle"}
  BY DEF ResumeReading, AfterPayload
<1>2. CASE /\ loop' = [loop EXCEPT !.pc = AfterPayload]
           /\ UNCHANGED <<mem, buf>>
  <2>1. /\ loop' \in LoopType /\ loop'.pc = AfterPayload
        /\ loop'.state = loop.state /\ loop'.reading = loop.reading /\ loop'.left = loop.left
        /\ loop'.trailer = loop.trailer
    BY <1>1, <1>2, <1>typ DEF LoopType, LoopPcs
  <2>2. StoresArePlain
    BY <1>1, <1>2, <1>typ, QuietStep
  <2>3. TrailerWhileReceiving'
    BY <1>inv, <2>1 DEF TrailerWhileReceiving, AfterPayload
  <2> QED
    BY <1>1, <1>2, <1>inv, <2>1, <2>2, <2>3, SessionStep
    DEF Notifying, AbortWhileClosing, FullIsNoticed
<1>3. CASE /\ ~(loop.state = "Receiving" /\ loop.left > 0 /\ RingFull)
           /\ loop' = [loop EXCEPT !.pc = AfterPayload, !.reading = TRUE]
           /\ Store("loop", mem, <<"running">>)
  <2>1. loop' \in LoopType
    BY <1>1, <1>3, <1>typ DEF LoopType, LoopPcs
  <2>2. /\ loop'.pc = AfterPayload /\ loop'.state = loop.state /\ loop'.left = loop.left
        /\ loop'.trailer = loop.trailer
    BY <1>1, <1>3, <1>typ DEF LoopType
  <2>3. StoresArePlain /\ mem' = mem
    <3>1. <<"running">> \in Seq(LoopStores) /\ NoTail(<<"running">>)
      BY DEF LoopStores, NoTail
    <3> QED
      BY <1>1, <1>3, <1>typ, <3>1, PlainStep
  <2>4. ~(loop.state = "Receiving" /\ loop.left > 0 /\ RingFull)
    BY <1>3
  <2>5. TrailerWhileReceiving'
    BY <1>inv, <2>2 DEF TrailerWhileReceiving, AfterPayload
  <2> QED
    BY <1>1, <1>inv, <2>1, <2>2, <2>3, <2>4, <2>5, SessionStep DEF Notifying, AbortWhileClosing
<1> QED
  BY <1>2, <1>3 DEF ResumeReading

(* Steps that only move the loop on, or change the state of an ordinary session. *)
LEMMA MoveInv ==
    IInv /\ (ReadTrailer \/ OnResume \/ OnCompletion \/ Stop \/ Join) => IInv'
<1> SUFFICES ASSUME IInv, ReadTrailer \/ OnResume \/ OnCompletion \/ Stop \/ Join PROVE IInv'
  OBVIOUS
<1>typ. TypeOK /\ TailIsLast /\ loop \in LoopType
  BY DEF IInv, TypeOK
<1>inv. /\ AbortWhileClosing /\ EmptyBetweenSessions /\ FullIsNoticed
        /\ TrailerWhileReceiving
  BY DEF IInv
<1>1. UNCHANGED <<parser, mem, buf, mutex>> /\ loop.pc \in {"idle", "join"}
  BY DEF ReadTrailer, OnResume, OnCompletion, Stop, Join, LoopAt
<1>2. /\ loop' \in LoopType /\ loop'.pc \in {"idle", "verify", "resume", "stop", "joined"}
      /\ loop'.reading = loop.reading /\ loop'.left = loop.left /\ loop'.trailer = loop.trailer
      /\ loop'.pc = "verify" => loop.state = "Receiving" /\ loop'.state = "Receiving"
      /\ loop'.state \in {"Closing", "Closed"} <=> loop.state \in {"Closing", "Closed"}
      /\ loop'.state = "Receiving" => loop.state = "Receiving"
  BY <1>typ DEF ReadTrailer, OnResume, OnCompletion, Stop, Join, LoopAt, LoopType, LoopPcs, States
<1>3. StoresArePlain
  BY <1>typ, <1>1, QuietStep
<1>4. TrailerWhileReceiving'
  BY <1>inv, <1>1, <1>2 DEF TrailerWhileReceiving
<1> QED
  BY <1>inv, <1>1, <1>2, <1>3, <1>4, SessionStep DEF Notifying, AbortWhileClosing, FullIsNoticed

(* verifyAndAck(): out of Receiving. *)
LEMMA VerifyInv == IInv /\ Verify => IInv'
<1> SUFFICES ASSUME IInv, Verify PROVE IInv'
  OBVIOUS
<1>typ. TypeOK /\ TailIsLast /\ loop \in LoopType
  BY DEF IInv, TypeOK
<1>1. loop.pc = "verify" /\ UNCHANGED <<parser, mutex>>
  BY DEF Verify
<1>2. loop' \in LoopType
  BY <1>typ DEF Verify, LoopType, LoopPcs, States
<1>3. loop'.pc = "markComplete" /\ loop'.state = "Analyzing"
  BY <1>typ DEF Verify, LoopType
<1>4. StoresArePlain /\ mem' = mem
  <2>1. /\ <<"running">> \in Seq(LoopStores) /\ NoTail(<<"running">>)
        /\ <<>> \in Seq(LoopStores) /\ NoTail(<<>>)
    BY DEF LoopStores, NoTail
  <2>2. CASE loop.reading
    <3>1. Store("loop", mem, <<>>)
      BY <2>2 DEF Verify
    <3> QED
      BY <1>1, <1>typ, <2>1, <3>1, PlainStep
  <2>3. CASE ~loop.reading
    <3>1. Store("loop", mem, <<"running">>)
      BY <2>3 DEF Verify
    <3> QED
      BY <1>1, <1>typ, <2>1, <3>1, PlainStep
  <2> QED
    BY <2>2, <2>3
<1>5. ~mem.abort
  BY <1>1 DEF IInv, AbortWhileClosing, TrailerWhileReceiving
<1>6. ~loop'.trailer
  BY <1>typ DEF Verify, LoopType
<1>7. TrailerWhileReceiving'
  BY <1>3, <1>6 DEF TrailerWhileReceiving
<1> QED
  BY <1>1, <1>2, <1>3, <1>4, <1>5, <1>7, SessionStep DEF Notifying

(* cleanup(): the session starts closing with its abort still to come. *)
LEMMA EndSessionInv == IInv /\ EndSession => IInv'
<1> SUFFICES ASSUME IInv, EndSession PROVE IInv'
  OBVIOUS
<1>typ. TypeOK /\ TailIsLast /\ loop \in LoopType
  BY DEF IInv, TypeOK
<1>1. loop.pc = "idle" /\ UNCHANGED <<parser, mem, buf, mutex>>
  BY DEF EndSession
<1>2. loop' \in LoopType
  BY <1>typ DEF EndSession, LoopType, LoopPcs, States
<1>3. loop'.pc = "abort" /\ loop'.state = "Closing" /\ loop'.trailer = loop.trailer
  BY <1>typ DEF EndSession, LoopType
<1>4. StoresArePlain
  BY <1>typ, <1>1, QuietStep
<1>5. TrailerWhileReceiving'
  BY <1>1, <1>3 DEF IInv, TrailerWhileReceiving
<1> QED
  BY <1>1, <1>2, <1>3, <1>4, <1>5, SessionStep DEF Notifying

(* The gated accept, for a loop l that differs in state and in what libuv holds. *)
LEMMA AcceptInv ==
    ASSUME IInv, loop.pc = "idle", NEW l \in LoopType, AcceptWhenParserIdle(l),
           l.pc = "idle", l.reading = loop.reading, l.left = loop.left, l.trailer = loop.trailer,
           \/ l.state = loop.state
           \/ l.state = "Closed" /\ loop.state = "Closing",
           UNCHANGED <<parser, mutex>>
    PROVE  IInv'
<1>typ. TypeOK /\ TailIsLast
  BY DEF IInv
<1>inv. /\ AbortWhileClosing /\ EmptyBetweenSessions /\ FullIsNoticed
        /\ TrailerWhileReceiving
  BY DEF IInv
<1>1. CASE loop' = l /\ UNCHANGED <<mem, buf>>
  <2>1. StoresArePlain
    BY <1>1, <1>typ, QuietStep
  <2>2. TrailerWhileReceiving'
    BY <1>1, <1>inv DEF TrailerWhileReceiving
  <2> QED
    BY <1>1, <1>inv, <2>1, <2>2, SessionStep DEF Notifying, AbortWhileClosing, FullIsNoticed
<1>2. CASE ~(mem.abort \/ l.state # "Closed" \/ ~l.held)
  <2>1. PICK slots \in 0 .. MaxSlots :
           loop' = [l EXCEPT !.state = "Receiving", !.reading = TRUE, !.left = slots,
                             !.held = FALSE]
    BY <1>2 DEF AcceptWhenParserIdle
  <2>2. Store("loop", mem, <<"uploadClear", "running">>)
    BY <1>2 DEF AcceptWhenParserIdle
  <2>3. loop' \in LoopType
    <3>1. slots \in Nat
      BY HandshakeAssumption
    <3> QED
      BY <2>1, <3>1 DEF LoopType, States
  <2>4. loop'.pc = "idle" /\ loop'.state = "Receiving" /\ loop'.trailer = loop.trailer
    BY <2>1 DEF LoopType
  <2>5. StoresArePlain /\ mem' = mem
    <3>1. /\ <<"uploadClear", "running">> \in Seq(LoopStores)
          /\ NoTail(<<"uploadClear", "running">>)
      BY DEF LoopStores, NoTail
    <3> QED
      BY <1>typ, <2>2, <3>1, PlainStep
  <2>6. ~mem.abort /\ ~RingFull
    <3>1. mem.seenByLoop = 0
      BY <1>2, <1>inv DEF EmptyBetweenSessions
    <3> QED
      BY <1>2, <3>1, HandshakeAssumption DEF RingFull
  <2>7. TrailerWhileReceiving'
    BY <1>inv, <2>4 DEF TrailerWhileReceiving
  <2> QED
    BY <2>3, <2>4, <2>5, <2>6, <2>7, SessionStep DEF Notifying
<1> QED
  BY <1>1, <1>2 DEF AcceptWhenParserIdle

\* A connection, the reaper and the end of a discard keep the invariant.
LEMMA ConnectionsInv == IInv /\ (OnConnection \/ OnReap \/ OnAbortDone) => IInv'
<1> SUFFICES ASSUME IInv, OnConnection \/ OnReap \/ OnAbortDone PROVE IInv'
  OBVIOUS
<1>typ. loop \in LoopType
  BY DEF IInv, TypeOK
<1>1. CASE OnConnection
  <2> DEFINE l == [loop EXCEPT !.held = TRUE, !.sessions = @ + 1]
  <2>1. l \in LoopType
    <3>1. loop.sessions + 1 \in Nat
      BY <1>typ DEF LoopType
    <3> QED
      BY <1>typ, <3>1, Zenon DEF LoopType
  <2>2. /\ l.pc = loop.pc /\ l.state = loop.state /\ l.left = loop.left
        /\ l.reading = loop.reading /\ l.trailer = loop.trailer
    BY <1>typ DEF LoopType
  <2>3. AcceptWhenParserIdle(l) /\ loop.pc = "idle" /\ UNCHANGED <<parser, mutex>>
    BY <1>1 DEF OnConnection
  <2> HIDE DEF l
  <2> QED
    BY <2>1, <2>2, <2>3, AcceptInv
<1>2. CASE OnReap
  <2> DEFINE l == [loop EXCEPT !.state = "Closed"]
  <2>1. /\ l \in LoopType
        /\ l.pc = loop.pc /\ l.state = "Closed" /\ l.left = loop.left
        /\ l.reading = loop.reading /\ l.trailer = loop.trailer
    BY <1>typ DEF LoopType, States
  <2>2. /\ AcceptWhenParserIdle(l) /\ loop.pc = "idle" /\ loop.state = "Closing"
        /\ UNCHANGED <<parser, mutex>>
    BY <1>2 DEF OnReap
  <2> HIDE DEF l
  <2> QED
    BY <2>1, <2>2, AcceptInv
<1>3. CASE OnAbortDone
  <2>1. AcceptWhenParserIdle(loop) /\ loop.pc = "idle" /\ UNCHANGED <<parser, mutex>>
    BY <1>3 DEF OnAbortDone
  <2> QED
    BY <1>typ, <2>1, AcceptInv
<1> QED
  BY <1>1, <1>2, <1>3

(* The read of a slot: its tail is in flight until the commit takes the mutex. *)
LEMMA ReadPayloadInv == IInv /\ ReadPayload => IInv'
<1> SUFFICES ASSUME IInv, ReadPayload PROVE IInv'
  OBVIOUS
<1>typ. TypeOK /\ TailIsLast /\ loop \in LoopType /\ mem \in MemType /\ buf \in BufType
  BY DEF IInv, TypeOK
<1>1. /\ loop.pc = "idle" /\ loop.state = "Receiving" /\ ~RingFull
      /\ UNCHANGED <<parser, mutex>>
  BY DEF ReadPayload
<1>2. /\ loop' \in LoopType /\ loop'.pc = "commitLock" /\ loop'.state = "Receiving"
  <2>1. PICK behind \in BOOLEAN :
           loop' = [loop EXCEPT !.pc = "commitLock", !.left = @ - 1, !.trailer = behind]
    BY DEF ReadPayload
  <2>2. loop.left - 1 \in Nat
    BY <1>typ DEF ReadPayload, LoopType
  <2> QED
    BY <1>typ, <1>1, <2>1, <2>2 DEF LoopType, LoopPcs
<1>3. /\ buf' \in BufType /\ buf'.parser = buf.parser
      /\ \A i \in 1 .. Len(buf'.loop) : buf'.loop[i] = "tail" => i = Len(buf'.loop)
      /\ PendingTail(buf.loop) = 0 /\ PendingTail(buf'.loop) = 1
  <2>1. NoTail(buf.loop) /\ PendingTail(buf.loop) = 0 /\ buf.loop \in Seq(LoopStores)
    BY <1>typ, <1>1, TailOnlyInCommit DEF BufType
  <2> DEFINE q == buf.loop \o <<"tail">>
  <2>2. /\ q \in Seq(LoopStores) /\ PendingTail(q) = 1
        /\ \A i \in 1 .. Len(q) : q[i] = "tail" => i = Len(q)
    BY <2>1, TailStore
  <2>3. buf' = [buf EXCEPT !.loop = q]
    BY DEF ReadPayload, Store
  <2> HIDE DEF q
  <2>4. buf' \in BufType /\ buf'.parser = buf.parser /\ buf'.loop = q
    BY <1>typ, <2>2, <2>3 DEF BufType
  <2> QED
    BY <2>1, <2>2, <2>4
<1>4. /\ mem' \in MemType /\ mem'.seenByLoop = mem.seenByLoop + 1
      /\ mem'.seenByParser = mem.seenByParser /\ mem'.abort = mem.abort
      /\ mem'.stop = mem.stop /\ mem'.uploadComplete = mem.uploadComplete
  BY <1>typ DEF ReadPayload, Store, MemType
<1>5. TypeOK'
  BY <1>typ, <1>1, <1>2, <1>3, <1>4 DEF TypeOK
<1>6. MutexHeld' /\ WorkIsNotified'
  BY <1>1, <1>2, <1>4 DEF IInv, MutexHeld, WorkIsNotified, Work
<1>7. TailIsLast' /\ ParserStore'
  BY <1>1, <1>2, <1>3 DEF IInv, TailIsLast, ParserStore
<1>8. CountsAgree'
  <2>1. mem.seenByLoop + 1 <= SlotCount
    BY <1>1, <1>typ, HandshakeAssumption DEF IInv, CountsAgree, RingFull, MemType
  <2>2. PendingHead(buf.parser) \in {0, 1}
    BY DEF PendingHead
  <2> QED
    BY <1>3, <1>4, <1>typ, <2>1, <2>2 DEF IInv, CountsAgree, MemType
<1>9. ~mem.abort
  BY <1>1 DEF IInv, AbortWhileClosing
<1>10. AbortWhileClosing' /\ TrailerWhileReceiving' /\ EmptyBetweenSessions' /\ FullIsNoticed'
  BY <1>2, <1>4, <1>9
  DEF AbortWhileClosing, TrailerWhileReceiving, EmptyBetweenSessions, FullIsNoticed
<1>11. RingEmptied'
  BY <1>1, <1>3, <1>4, <1>9 DEF IInv, RingEmptied, Discarding
<1> QED
  BY <1>5, <1>6, <1>7, <1>8, <1>10, <1>11 DEF IInv

(* What notifying the parser leaves in place. *)
LEMMA NotifyInv ==
    ASSUME IInv, NotifyOne, NEW to, to \in {"backpressure", "idle", "join"},
           loop.pc \in {"commitNotify", "notify", "stopNotify"},
           loop.pc = "commitNotify" <=> to = "backpressure",
           loop' = [loop EXCEPT !.pc = to], UNCHANGED <<mem, buf, mutex>>
    PROVE  IInv'
<1>typ. loop \in LoopType
  BY DEF IInv, TypeOK
<1>1. /\ loop' \in LoopType /\ loop'.pc = to /\ loop'.state = loop.state
      /\ loop'.reading = loop.reading /\ loop'.left = loop.left /\ loop'.trailer = loop.trailer
  BY <1>typ DEF LoopType, LoopPcs
<1>2. /\ parser' \in ParserPcs /\ parser' # "asleep"
      /\ parser' = parser \/ (parser = "asleep" /\ parser' = "lock")
  BY DEF NotifyOne, IInv, TypeOK, ParserPcs
<1>3. TypeOK' /\ MutexHeld' /\ ParserStore'
  BY <1>1, <1>2 DEF IInv, TypeOK, MutexHeld, ParserStore
<1>4. WorkIsNotified'
  BY <1>2 DEF IInv, WorkIsNotified, Work
<1>5. TailIsLast' /\ CountsAgree'
  BY DEF IInv, TailIsLast, CountsAgree
<1>6. AbortWhileClosing' /\ TrailerWhileReceiving' /\ EmptyBetweenSessions'
  BY <1>1 DEF IInv, AbortWhileClosing, TrailerWhileReceiving, EmptyBetweenSessions
<1>7. FullIsNoticed'
  BY <1>1 DEF IInv, FullIsNoticed, RingFull
<1>8. RingEmptied'
  BY <1>2 DEF IInv, RingEmptied, Discarding
<1> QED
  BY <1>3, <1>4, <1>5, <1>6, <1>7, <1>8 DEF IInv

(* The commit takes the mutex with its tail visible, then notifies. *)
LEMMA CommitInv == IInv /\ (CommitLock \/ CommitNotify) => IInv'
<1> SUFFICES ASSUME IInv, CommitLock \/ CommitNotify PROVE IInv'
  OBVIOUS
<1>typ. loop \in LoopType
  BY DEF IInv, TypeOK
<1>1. CASE CommitLock
  <2>1. /\ mutex = "free" /\ buf.loop = <<>> /\ loop.pc = "commitLock"
        /\ UNCHANGED <<parser, mem, buf, mutex>>
    BY <1>1 DEF CommitLock, LoopAt, Flushed
  <2>2. /\ loop' \in LoopType /\ loop'.pc = "commitNotify" /\ loop'.state = loop.state
        /\ loop'.reading = loop.reading /\ loop'.left = loop.left /\ loop'.trailer = loop.trailer
    BY <1>1, <1>typ DEF CommitLock, LoopAt, LoopType, LoopPcs
  <2>3. TypeOK' /\ MutexHeld' /\ ParserStore' /\ CountsAgree'
    BY <2>1, <2>2 DEF IInv, TypeOK, MutexHeld, ParserStore, CountsAgree
  <2>4. WorkIsNotified' /\ TailIsLast'
    BY <2>1, <2>2 DEF IInv, WorkIsNotified, Work, MutexHeld, TailIsLast
  <2>5. AbortWhileClosing' /\ TrailerWhileReceiving' /\ EmptyBetweenSessions'
    BY <2>1, <2>2 DEF IInv, AbortWhileClosing, TrailerWhileReceiving, EmptyBetweenSessions
  <2>6. FullIsNoticed' /\ RingEmptied'
    BY <2>1, <2>2 DEF IInv, FullIsNoticed, RingFull, RingEmptied, Discarding
  <2> QED
    BY <2>3, <2>4, <2>5, <2>6 DEF IInv
<1>2. CASE CommitNotify
  BY <1>2, NotifyInv DEF CommitNotify, LoopAt
<1> QED
  BY <1>1, <1>2

(* A flag set under the mutex, with the notification to come. *)
LEMMA FlagInv == IInv /\ (MarkUploadComplete \/ AbortSession \/ RequestStop) => IInv'
<1> SUFFICES ASSUME IInv, MarkUploadComplete \/ AbortSession \/ RequestStop PROVE IInv'
  OBVIOUS
<1>typ. loop \in LoopType /\ mem \in MemType
  BY DEF IInv, TypeOK
<1>1. /\ mutex = "free" /\ buf.loop = <<>> /\ UNCHANGED <<parser, buf, mutex>>
      /\ loop.pc \in {"markComplete", "abort", "stop"}
  BY DEF MarkUploadComplete, AbortSession, RequestStop, SetUnderLock, Flushed, LoopAt
<1>2. /\ loop' \in LoopType /\ loop'.pc \in {"notify", "stopNotify"} /\ loop'.state = loop.state
      /\ loop'.reading = loop.reading /\ loop'.left = loop.left /\ loop'.trailer = loop.trailer
  BY <1>typ
  DEF MarkUploadComplete, AbortSession, RequestStop, SetUnderLock, LoopAt, LoopType, LoopPcs
<1>3. /\ mem' \in MemType
  BY <1>typ, Zenon DEF MarkUploadComplete, AbortSession, RequestStop, SetUnderLock, MemType
<1>4. mem'.seenByLoop = mem.seenByLoop /\ mem'.seenByParser = mem.seenByParser
  BY <1>typ, Zenon DEF MarkUploadComplete, AbortSession, RequestStop, SetUnderLock, MemType
<1>5. mem'.abort = mem.abort \/ (mem'.abort /\ loop.pc = "abort")
  BY <1>typ, Zenon
  DEF MarkUploadComplete, AbortSession, RequestStop, SetUnderLock, LoopAt, MemType
<1>6. loop.pc = "abort" => mem'.abort
  BY <1>typ, Zenon
  DEF MarkUploadComplete, AbortSession, RequestStop, SetUnderLock, LoopAt, MemType
<1>7. TypeOK' /\ MutexHeld' /\ ParserStore'
  BY <1>1, <1>2, <1>3 DEF IInv, TypeOK, MutexHeld, ParserStore
<1>8. CountsAgree'
  BY <1>1, <1>4 DEF IInv, CountsAgree
<1>9. WorkIsNotified' /\ TailIsLast'
  BY <1>1, <1>2 DEF IInv, WorkIsNotified, MutexHeld, TailIsLast
<1>10. AbortWhileClosing' /\ TrailerWhileReceiving'
  BY <1>1, <1>2, <1>5 DEF IInv, AbortWhileClosing, TrailerWhileReceiving
<1>11. EmptyBetweenSessions' /\ FullIsNoticed'
  BY <1>1, <1>2, <1>4, <1>5, <1>6 DEF IInv, EmptyBetweenSessions, FullIsNoticed, RingFull
<1>12. RingEmptied'
  BY <1>1, <1>4, <1>5 DEF IInv, RingEmptied, Discarding
<1> QED
  BY <1>7, <1>8, <1>9, <1>10, <1>11, <1>12 DEF IInv

(* Steps of the parser outside the mutex that change its pc only. *)
LEMMA ParserMoves ==
    ASSUME IInv, UNCHANGED <<loop, mem, buf, mutex>>,
           parser \notin {"evaluate", "sleep"},
           parser' \in ParserPcs \ {"evaluate", "sleep", "asleep"},
           \/ buf.parser = <<>>
           \/ /\ buf.parser = <<"head">>
              /\ parser' \in {"spaceSignal", "consume", "check", "finish", "lock"},
           parser' \in Discarding => mem.abort,
           parser' \in Discarding \ {"discard"} => parser \in Discarding \ {"discard"}
    PROVE  IInv'
<1>1. TypeOK' /\ MutexHeld' /\ WorkIsNotified' /\ ParserStore'
  BY DEF IInv, TypeOK, MutexHeld, WorkIsNotified, ParserStore
<1>2. TailIsLast' /\ CountsAgree' /\ AbortWhileClosing' /\ TrailerWhileReceiving'
  BY DEF IInv, TailIsLast, CountsAgree, AbortWhileClosing, TrailerWhileReceiving
<1>3. EmptyBetweenSessions' /\ FullIsNoticed'
  BY DEF IInv, EmptyBetweenSessions, FullIsNoticed, RingFull
<1>4. RingEmptied'
  BY DEF IInv, RingEmptied
<1> QED
  BY <1>1, <1>2, <1>3, <1>4 DEF IInv

(* Those steps. *)
LEMMA ParserMovesInv ==
    ASSUME IInv,
           \/ SpuriousWakeup \/ Gate \/ ConsumeEnds \/ CheckComplete \/ SignalSpace
           \/ SignalIfStopped("discarded", "discardSignal", "abortClear")
           \/ Signal("abortSignal", "lock", "abortDone")
           \/ SignalIfStopped("finished", "finishSignal", "completion")
           \/ Signal("completion", "uploadClear", "completion")
    PROVE  IInv'
<1>inv. ParserStore /\ RingEmptied
  BY DEF IInv
<1>1. CASE SpuriousWakeup
  BY <1>1, <1>inv, ParserMoves DEF SpuriousWakeup, ParserAt, ParserStore, ParserPcs, Discarding
<1>2. CASE Gate
  <2>1. /\ parser = "gate" /\ UNCHANGED <<loop, mem, buf, mutex>>
        /\ parser' = IF mem.abort THEN "discard" ELSE "consume"
    BY <1>2 DEF Gate, ParserAt
  <2> QED
    BY <1>inv, <2>1, ParserMoves DEF ParserStore, ParserPcs, Discarding
<1>3. CASE ConsumeEnds
  BY <1>3, <1>inv, ParserMoves DEF ConsumeEnds, ParserAt, ParserStore, ParserPcs, Discarding
<1>4. CASE CheckComplete
  <2>1. /\ parser = "check" /\ UNCHANGED <<loop, mem, buf, mutex>>
        /\ parser' \in {"finish", "lock"}
    BY <1>4 DEF CheckComplete, ParserAt
  <2> QED
    BY <1>inv, <2>1, ParserMoves DEF ParserStore, ParserPcs, Discarding
<1>5. CASE SignalSpace
  <2>1. /\ parser \in {"space", "spaceSignal"} /\ UNCHANGED <<loop, mem, buf, mutex>>
        /\ parser' \in {"spaceSignal", "consume"}
    BY <1>5 DEF SignalSpace, SignalIfStopped, Signal, ParserAt
  <2> QED
    BY <1>inv, <2>1, ParserMoves DEF ParserStore, ParserPcs, Discarding
<1>6. CASE SignalIfStopped("discarded", "discardSignal", "abortClear")
  <2>1. /\ parser \in {"discarded", "discardSignal"} /\ UNCHANGED <<loop, mem, buf, mutex>>
        /\ parser' \in {"discardSignal", "abortClear"}
    BY <1>6 DEF SignalIfStopped, Signal, ParserAt
  <2> QED
    BY <1>inv, <2>1, ParserMoves DEF ParserStore, ParserPcs, Discarding, RingEmptied
<1>7. CASE Signal("abortSignal", "lock", "abortDone")
  BY <1>7, <1>inv, ParserMoves DEF Signal, Flushed, ParserAt, ParserPcs, Discarding
<1>8. CASE SignalIfStopped("finished", "finishSignal", "completion")
  <2>1. /\ parser \in {"finished", "finishSignal"} /\ UNCHANGED <<loop, mem, buf, mutex>>
        /\ parser' \in {"finishSignal", "completion"}
    BY <1>8 DEF SignalIfStopped, Signal, ParserAt
  <2> QED
    BY <1>inv, <2>1, ParserMoves DEF ParserStore, ParserPcs, Discarding
<1>9. CASE Signal("completion", "uploadClear", "completion")
  BY <1>9, <1>inv, ParserMoves DEF Signal, Flushed, ParserAt, ParserPcs, Discarding
<1> QED
  BY <1>1, <1>2, <1>3, <1>4, <1>5, <1>6, <1>7, <1>8, <1>9

(* The wait: the predicate is evaluated and the parser goes to sleep under the mutex. *)
LEMMA WaitInv == IInv /\ (Lock \/ Evaluate \/ Sleep) => IInv'
<1> SUFFICES ASSUME IInv, Lock \/ Evaluate \/ Sleep PROVE IInv'
  OBVIOUS
<1>1. /\ UNCHANGED <<loop, mem, buf>> /\ buf.parser = <<>>
      /\ parser \in {"lock", "evaluate", "sleep"}
      /\ parser' \in {"evaluate", "exited", "gate", "sleep", "asleep"}
  BY DEF IInv, ParserStore, Lock, Evaluate, Sleep, ParserAt, Flushed
<1>2. TypeOK' /\ MutexHeld'
  BY <1>1 DEF IInv, TypeOK, MutexHeld, ParserPcs, Lock, Evaluate, Sleep, ParserAt
<1>3. WorkIsNotified'
  BY <1>1 DEF IInv, WorkIsNotified, Work, Lock, Evaluate, Sleep, ParserAt
<1>4. TailIsLast' /\ CountsAgree' /\ AbortWhileClosing' /\ TrailerWhileReceiving' /\ ParserStore'
  BY <1>1 DEF IInv, TailIsLast, CountsAgree, AbortWhileClosing, TrailerWhileReceiving, ParserStore
<1>5. EmptyBetweenSessions' /\ FullIsNoticed' /\ RingEmptied'
  BY <1>1 DEF IInv, EmptyBetweenSessions, FullIsNoticed, RingFull, RingEmptied, Discarding
<1> QED
  BY <1>2, <1>3, <1>4, <1>5 DEF IInv

(* resetSessionState() empties the ring for both threads. *)
LEMMA DrainInv ==
    IInv /\ (Drain("discard", "discarded") \/ Drain("finish", "finished")) => IInv'
<1> SUFFICES ASSUME IInv, Drain("discard", "discarded") \/ Drain("finish", "finished")
             PROVE  IInv'
  OBVIOUS
<1>typ. mem \in MemType
  BY DEF IInv, TypeOK
<1>1. /\ UNCHANGED <<loop, buf, mutex>> /\ buf.loop = <<>> /\ buf.parser = <<>>
      /\ \/ parser = "discard" /\ parser' = "discarded"
         \/ parser = "finish" /\ parser' = "finished"
  BY DEF Drain, Settled, Flushed, ParserAt
<1>2. mem.seenByLoop = mem.seenByParser
  <2>1. PendingTail(buf.loop) = 0 /\ PendingHead(buf.parser) = 0
    BY <1>1 DEF PendingTail, PendingHead
  <2> QED
    BY <1>typ, <2>1 DEF IInv, CountsAgree, MemType
<1>3. mem.seenByLoop - mem.seenByParser = 0
  BY <1>typ, <1>2 DEF MemType
<1>4. mem' = [mem EXCEPT !.seenByParser = 0, !.seenByLoop = 0]
  <2>1. mem' = [mem EXCEPT !.seenByParser = 0, !.seenByLoop = mem.seenByLoop - mem.seenByParser]
    BY <1>typ, Zenon DEF Drain, MemType
  <2> QED
    BY <1>3, <2>1, Zenon
<1>5. /\ mem' \in MemType /\ mem'.seenByLoop = 0 /\ mem'.seenByParser = 0
      /\ mem'.abort = mem.abort /\ mem'.stop = mem.stop
      /\ mem'.uploadComplete = mem.uploadComplete
  BY <1>typ, <1>4 DEF MemType
<1>6. TypeOK' /\ MutexHeld' /\ WorkIsNotified' /\ ParserStore'
  BY <1>1, <1>5 DEF IInv, TypeOK, MutexHeld, WorkIsNotified, ParserStore, ParserPcs
<1>7. CountsAgree'
  <2>1. PendingTail(buf'.loop) = 0 /\ PendingHead(buf'.parser) = 0
    BY <1>1 DEF PendingTail, PendingHead
  <2> QED
    BY <1>5, <2>1, HandshakeAssumption DEF CountsAgree
<1>8. TailIsLast' /\ AbortWhileClosing' /\ TrailerWhileReceiving'
  BY <1>1, <1>5 DEF IInv, TailIsLast, AbortWhileClosing, TrailerWhileReceiving
<1>9. EmptyBetweenSessions' /\ FullIsNoticed'
  BY <1>1, <1>5, HandshakeAssumption DEF EmptyBetweenSessions, FullIsNoticed, RingFull
<1>10. RingEmptied'
  BY <1>1, <1>5 DEF IInv, RingEmptied, Discarding
<1> QED
  BY <1>6, <1>7, <1>8, <1>9, <1>10 DEF IInv

(* Stores of the parser: a slot given back, a flag cleared. *)
LEMMA ParserStoresInv ==
    ASSUME IInv,
           \/ ConsumeSlot \/ Clear("abortClear", "abortSignal", "abortClear")
           \/ Clear("uploadClear", "lock", "uploadClear")
    PROVE  IInv'
<1>typ. mem \in MemType /\ buf \in BufType
  BY DEF IInv, TypeOK
<1>0. UNCHANGED <<loop, mutex>> /\ buf.parser = <<>>
  BY DEF ConsumeSlot, Clear, ParserAt, Settled, Flushed, IInv, ParserStore
<1> DEFINE stores == IF parser = "consume" THEN <<"head">>
                     ELSE IF parser = "abortClear" THEN <<"abortClear">> ELSE <<"uploadClear">>
<1>1. /\ parser' \in ParserPcs \ {"evaluate", "sleep", "asleep"} /\ parser' \notin Discarding
      /\ parser \notin {"evaluate", "sleep", "asleep"}
      /\ \/ parser = "consume" /\ parser' = "space"
         \/ parser = "abortClear" /\ parser' = "abortSignal"
         \/ parser = "uploadClear" /\ parser' = "lock"
  BY DEF ConsumeSlot, Clear, ParserAt, ParserPcs, Discarding
<1>2. stores \in Seq(ParserStores)
  <2>1. /\ <<"head">> \in Seq(ParserStores) /\ <<"abortClear">> \in Seq(ParserStores)
        /\ <<"uploadClear">> \in Seq(ParserStores)
    BY DEF ParserStores
  <2> QED
    BY <2>1, Zenon
<1>buf. buf' = [buf EXCEPT !.parser = buf.parser \o stores]
  <2>1. CASE ConsumeSlot
    BY <2>1 DEF ConsumeSlot, Store, ParserAt
  <2>2. CASE Clear("abortClear", "abortSignal", "abortClear")
    BY <2>2 DEF Clear, Store, ParserAt
  <2>3. CASE Clear("uploadClear", "lock", "uploadClear")
    BY <2>3 DEF Clear, Store, ParserAt
  <2> QED
    BY <2>1, <2>2, <2>3
<1>3. buf' \in BufType /\ buf'.loop = buf.loop /\ buf'.parser = stores
  <2>1. buf.parser \o stores = stores
    BY <1>0, <1>2, ConcatEmptySeq
  <2>2. buf' = [buf EXCEPT !.parser = stores]
    BY <1>buf, <2>1
  <2> HIDE DEF stores
  <2> QED
    BY <1>typ, <1>2, <2>2 DEF BufType
<1>4. /\ mem' \in MemType /\ mem'.seenByLoop = mem.seenByLoop
      /\ mem'.seenByParser <= mem.seenByParser
      /\ mem'.abort = mem.abort /\ mem'.stop = mem.stop
      /\ mem'.uploadComplete = mem.uploadComplete
  BY <1>typ DEF ConsumeSlot, Clear, Store, MemType
<1>5. TypeOK' /\ MutexHeld' /\ WorkIsNotified'
  BY <1>0, <1>1, <1>3, <1>4 DEF IInv, TypeOK, MutexHeld, WorkIsNotified
<1>6. ParserStore'
  BY <1>1, <1>3 DEF ParserStore
<1>7. CountsAgree'
  <2>1. CASE ConsumeSlot
    <3>1. /\ mem.seenByParser > 0 /\ mem'.seenByParser = mem.seenByParser - 1
          /\ buf.loop = <<>> /\ parser = "consume"
      BY <1>typ, <2>1 DEF ConsumeSlot, Settled, Flushed, Store, MemType, ParserAt
    <3>2. /\ PendingTail(buf.loop) = 0 /\ PendingHead(buf.parser) = 0
          /\ PendingTail(buf'.loop) = 0 /\ PendingHead(buf'.parser) = 1
      BY <1>0, <1>3, <3>1 DEF PendingTail, PendingHead
    <3> QED
      BY <1>4, <1>typ, <3>1, <3>2 DEF IInv, CountsAgree, MemType
  <2>2. CASE ~ConsumeSlot
    <3>1. mem' = mem /\ parser # "consume"
      BY <2>2 DEF Clear, Store, ParserAt
    <3>2. PendingHead(buf'.parser) = 0 /\ PendingHead(buf.parser) = 0
      BY <1>0, <1>3, <3>1 DEF PendingHead
    <3> QED
      BY <1>3, <3>1, <3>2 DEF IInv, CountsAgree
  <2> QED
    BY <2>1, <2>2
<1>8. TailIsLast' /\ AbortWhileClosing' /\ TrailerWhileReceiving'
  BY <1>0, <1>3, <1>4 DEF IInv, TailIsLast, AbortWhileClosing, TrailerWhileReceiving
<1>9. EmptyBetweenSessions' /\ FullIsNoticed'
  BY <1>0, <1>4 DEF IInv, EmptyBetweenSessions, FullIsNoticed, RingFull
<1>10. RingEmptied'
  <2>1. buf'.parser = <<"abortClear">> => parser \in Discarding \ {"discard"}
    BY <1>1, <1>3 DEF Discarding
  <2> QED
    BY <1>1, <1>4, <2>1 DEF IInv, RingEmptied, Discarding
<1> QED
  BY <1>5, <1>6, <1>7, <1>8, <1>9, <1>10 DEF IInv

(* A store of the loop becomes visible to the parser. *)
LEMMA LoopStoreVisible == IInv /\ BecomesVisible("loop") => IInv'
<1> SUFFICES ASSUME IInv, BecomesVisible("loop") PROVE IInv'
  OBVIOUS
<1>typ. mem \in MemType /\ buf \in BufType
  BY DEF IInv, TypeOK
<1>0. UNCHANGED <<loop, parser, mutex>>
  BY DEF BecomesVisible
<1> DEFINE s == buf.loop
           q == Tail(buf.loop)
<1>1. /\ s \in Seq(LoopStores) /\ Len(s) # 0 /\ q \in Seq(LoopStores) /\ Len(q) = Len(s) - 1
      /\ s[1] \in LoopStores /\ Head(s) = s[1]
      /\ \A i \in 1 .. Len(q) : q[i] = s[i + 1]
  <2>1. s \in Seq(LoopStores) /\ s # <<>>
    BY <1>typ DEF BufType, BecomesVisible
  <2>2. Len(s) \in Nat \ {0} /\ Head(s) = s[1]
    BY <2>1, EmptySeq
  <2> QED
    BY <2>1, <2>2, HeadTailProperties
<1>2. buf' = [buf EXCEPT !.loop = q] /\ mem' = Apply(mem, s[1])
  BY <1>1 DEF BecomesVisible
<1> HIDE DEF q
<1>3. buf' \in BufType /\ buf'.loop = q /\ buf'.parser = buf.parser
  BY <1>typ, <1>1, <1>2 DEF BufType
<1>4. \A i \in 1 .. Len(s) : s[i] = "tail" => i = Len(s) /\ loop.pc = "commitLock"
  BY DEF IInv, TailIsLast
<1>5. /\ \A i \in 1 .. Len(q) : q[i] = "tail" => i = Len(q) /\ s[i + 1] = "tail"
      /\ s[1] = "tail" => PendingTail(s) = 1 /\ PendingTail(q) = 0
      /\ s[1] # "tail" => PendingTail(q) = PendingTail(s)
  BY <1>1, <1>4, OldestStore
<1>6. TailIsLast'
  <2>1. \A i \in 1 .. Len(q) : i + 1 \in 1 .. Len(s)
    BY <1>1
  <2> QED
    BY <1>0, <1>3, <1>4, <1>5, <2>1 DEF TailIsLast
<1>7. mem' \in MemType
  <2>1. CASE s[1] = "tail"
    BY <1>typ, <1>2, <2>1 DEF Apply, MemType
  <2>2. CASE s[1] = "stopped"
    BY <1>typ, <1>2, <2>2 DEF Apply, MemType
  <2>3. CASE s[1] = "running"
    BY <1>typ, <1>2, <2>3 DEF Apply, MemType
  <2>4. CASE s[1] = "uploadClear"
    BY <1>typ, <1>2, <2>4 DEF Apply, MemType
  <2> QED
    BY <1>1, <2>1, <2>2, <2>3, <2>4 DEF LoopStores
<1>8. mem'.seenByLoop = mem.seenByLoop /\ mem'.abort = mem.abort /\ mem'.stop = mem.stop
  <2>1. CASE s[1] = "tail"
    BY <1>typ, <1>2, <2>1 DEF Apply, MemType
  <2>2. CASE s[1] = "stopped"
    BY <1>typ, <1>2, <2>2 DEF Apply, MemType
  <2>3. CASE s[1] = "running"
    BY <1>typ, <1>2, <2>3 DEF Apply, MemType
  <2>4. CASE s[1] = "uploadClear"
    BY <1>typ, <1>2, <2>4 DEF Apply, MemType
  <2> QED
    BY <1>1, <2>1, <2>2, <2>3, <2>4 DEF LoopStores
<1>9. /\ mem'.seenByParser = mem.seenByParser + (IF s[1] = "tail" THEN 1 ELSE 0)
      /\ mem'.uploadComplete => mem.uploadComplete
  <2>1. CASE s[1] = "tail"
    BY <1>typ, <1>2, <2>1 DEF Apply, MemType
  <2>2. CASE s[1] = "stopped"
    <3>1. mem' = [mem EXCEPT !.readStopped = TRUE]
      BY <1>2, <2>2 DEF Apply
    <3>2. mem'.seenByParser = mem.seenByParser /\ mem'.uploadComplete = mem.uploadComplete
      BY <1>typ, <3>1 DEF MemType
    <3> QED
      BY <1>typ, <2>2, <3>2 DEF MemType
  <2>3. CASE s[1] = "running"
    <3>1. mem' = [mem EXCEPT !.readStopped = FALSE]
      BY <1>2, <2>3 DEF Apply
    <3>2. mem'.seenByParser = mem.seenByParser /\ mem'.uploadComplete = mem.uploadComplete
      BY <1>typ, <3>1 DEF MemType
    <3> QED
      BY <1>typ, <2>3, <3>2 DEF MemType
  <2>4. CASE s[1] = "uploadClear"
    <3>1. mem' = [mem EXCEPT !.uploadComplete = FALSE]
      BY <1>2, <2>4 DEF Apply
    <3>2. mem'.seenByParser = mem.seenByParser
      BY <1>typ, <3>1 DEF MemType
    <3>3. ~mem'.uploadComplete
      BY <1>typ, <3>1 DEF MemType
    <3> QED
      BY <1>typ, <2>4, <3>2, <3>3 DEF MemType
  <2> QED
    BY <1>1, <2>1, <2>2, <2>3, <2>4 DEF LoopStores
<1>10. TypeOK' /\ MutexHeld' /\ ParserStore'
  BY <1>0, <1>3, <1>7 DEF IInv, TypeOK, MutexHeld, ParserStore
<1>11. WorkIsNotified'
  <2>1. Work' => Work \/ loop.pc = "commitLock"
    <3>1. s[1] = "tail" => loop.pc = "commitLock"
      BY <1>1, <1>4
    <3> QED
      BY <1>8, <1>9, <1>typ, <3>1 DEF Work, MemType
  <2> QED
    BY <1>0, <2>1 DEF IInv, WorkIsNotified
<1>12. CountsAgree'
  <2>1. PendingTail(s) \in {0, 1} /\ PendingHead(buf.parser) \in {0, 1}
    BY DEF PendingTail, PendingHead
  <2>2. mem.seenByLoop = mem.seenByParser + PendingTail(s) + PendingHead(buf.parser)
        /\ mem.seenByLoop <= SlotCount
    BY DEF IInv, CountsAgree
  <2>3. mem'.seenByLoop = mem'.seenByParser + PendingTail(q) + PendingHead(buf.parser)
    BY <1>5, <1>8, <1>9, <1>typ, <2>1, <2>2 DEF MemType
  <2> QED
    BY <1>3, <1>8, <2>2, <2>3 DEF CountsAgree
<1>13. AbortWhileClosing' /\ TrailerWhileReceiving' /\ EmptyBetweenSessions'
  BY <1>0, <1>8 DEF IInv, AbortWhileClosing, TrailerWhileReceiving, EmptyBetweenSessions
<1>14. FullIsNoticed' /\ RingEmptied'
  BY <1>0, <1>3, <1>8 DEF IInv, FullIsNoticed, RingFull, RingEmptied, Discarding
<1> QED
  BY <1>6, <1>10, <1>11, <1>12, <1>13, <1>14 DEF IInv

(* A store of the parser becomes visible to the loop. *)
LEMMA ParserStoreVisible == IInv /\ BecomesVisible("parser") => IInv'
<1> SUFFICES ASSUME IInv, BecomesVisible("parser") PROVE IInv'
  OBVIOUS
<1>typ. mem \in MemType /\ buf \in BufType
  BY DEF IInv, TypeOK
<1>0. UNCHANGED <<loop, parser, mutex>>
  BY DEF BecomesVisible
<1> DEFINE s == buf.parser
<1>1. /\ s = <<"head">> \/ s = <<"abortClear">> \/ s = <<"uploadClear">>
      /\ parser \notin {"evaluate", "sleep", "asleep"} \cup Discarding
      /\ s = <<"abortClear">> => mem.seenByLoop = 0
  BY DEF BecomesVisible, IInv, ParserStore, Discarding, RingEmptied
<1>2. buf' = [buf EXCEPT !.parser = <<>>] /\ mem' = Apply(mem, s[1])
  <2>1. Head(s) = s[1] /\ Tail(s) = <<>>
    <3>1. \A x : Head(<<x>>) = <<x>>[1] /\ Tail(<<x>>) = <<>>
      OBVIOUS
    <3> QED
      BY <1>1, <3>1, Zenon
  <2>2. buf' = [buf EXCEPT !.parser = Tail(s)] /\ mem' = Apply(mem, Head(s))
    BY Zenon DEF BecomesVisible
  <2> QED
    BY <2>1, <2>2, Zenon
<1>3. buf' \in BufType /\ buf'.loop = buf.loop /\ buf'.parser = <<>>
  <2>1. <<>> \in Seq(ParserStores)
    OBVIOUS
  <2> QED
    BY <1>typ, <1>2, <2>1 DEF BufType
<1>4. PendingTail(buf.loop) \in {0, 1} /\ PendingHead(<<>>) = 0
  BY DEF PendingTail, PendingHead
<1>5. /\ mem.seenByLoop = mem.seenByParser + PendingTail(buf.loop) + PendingHead(s)
      /\ mem.seenByLoop <= SlotCount
  BY DEF IInv, CountsAgree
<1>6. /\ mem' \in MemType /\ mem'.seenByParser = mem.seenByParser
      /\ mem'.seenByLoop = mem.seenByLoop - PendingHead(s)
      /\ mem'.seenByLoop <= mem.seenByLoop
      /\ mem'.abort = mem.abort \/ (s = <<"abortClear">> /\ ~mem'.abort)
  <2>1. CASE s = <<"head">>
    <3>1. PendingHead(s) = 1
      BY <2>1 DEF PendingHead
    <3>2. mem' = [mem EXCEPT !.seenByLoop = mem.seenByLoop - 1]
      BY <1>2, <2>1 DEF Apply
    <3>3. mem.seenByLoop - 1 \in Nat
      BY <1>4, <1>5, <1>typ, <3>1 DEF MemType
    <3> QED
      BY <1>typ, <3>1, <3>2, <3>3 DEF MemType
  <2>2. CASE s = <<"abortClear">>
    <3>1. PendingHead(s) = 0
      BY <2>2 DEF PendingHead
    <3>2. mem' = [mem EXCEPT !.abort = FALSE]
      BY <1>2, <2>2 DEF Apply
    <3>3. mem' \in MemType
      BY <1>typ, <3>2 DEF MemType
    <3>4. mem'.seenByParser = mem.seenByParser /\ mem'.seenByLoop = mem.seenByLoop
      BY <1>typ, <3>2 DEF MemType
    <3>5. ~mem'.abort
      BY <1>typ, <3>2 DEF MemType
    <3> QED
      BY <1>typ, <2>2, <3>1, <3>3, <3>4, <3>5 DEF MemType
  <2>3. CASE s = <<"uploadClear">>
    <3>1. PendingHead(s) = 0
      BY <2>3 DEF PendingHead
    <3>2. mem' = [mem EXCEPT !.uploadComplete = FALSE]
      BY <1>2, <2>3 DEF Apply
    <3>3. mem' \in MemType
      BY <1>typ, <3>2 DEF MemType
    <3>4. /\ mem'.seenByParser = mem.seenByParser /\ mem'.seenByLoop = mem.seenByLoop
          /\ mem'.abort = mem.abort
      BY <1>typ, <3>2 DEF MemType
    <3> QED
      BY <1>typ, <3>1, <3>3, <3>4 DEF MemType
  <2> QED
    BY <1>1, <2>1, <2>2, <2>3
<1>7. TypeOK' /\ MutexHeld' /\ WorkIsNotified' /\ ParserStore'
  BY <1>0, <1>1, <1>3, <1>6 DEF IInv, TypeOK, MutexHeld, WorkIsNotified, ParserStore
<1>8. TailIsLast'
  BY <1>0, <1>3 DEF IInv, TailIsLast
<1>9. CountsAgree'
  <2>1. PendingHead(s) \in {0, 1}
    BY DEF PendingHead
  <2> QED
    BY <1>3, <1>4, <1>5, <1>6, <1>typ, <2>1, HandshakeAssumption DEF CountsAgree, MemType
<1>10. AbortWhileClosing' /\ TrailerWhileReceiving'
  BY <1>0, <1>6 DEF IInv, AbortWhileClosing, TrailerWhileReceiving
<1>11. EmptyBetweenSessions' /\ FullIsNoticed'
  <2>1. mem.seenByLoop = 0 => mem'.seenByLoop = 0
    BY <1>6, <1>typ DEF MemType
  <2>2. RingFull' => RingFull
    BY <1>5, <1>6, <1>typ, HandshakeAssumption DEF RingFull, MemType
  <2> QED
    BY <1>0, <1>1, <1>6, <2>1, <2>2 DEF IInv, EmptyBetweenSessions, FullIsNoticed
<1>12. RingEmptied'
  BY <1>0, <1>1, <1>3 DEF RingEmptied
<1> QED
  BY <1>7, <1>8, <1>9, <1>10, <1>11, <1>12 DEF IInv
-----------------------------------------------------------------------------
\* The invariant holds when both threads start.
LEMMA InitInv == Init => IInv
<1> SUFFICES ASSUME Init PROVE IInv
  OBVIOUS
<1>1. loop \in LoopType /\ mem \in MemType
  BY DEF Init, LoopType, LoopPcs, States, MemType
<1>2. buf \in BufType /\ buf.loop = <<>> /\ buf.parser = <<>>
  <2>1. buf = [loop |-> <<>>, parser |-> <<>>]
    BY DEF Init
  <2>2. <<>> \in Seq(LoopStores) /\ <<>> \in Seq(ParserStores)
    OBVIOUS
  <2> QED
    BY <2>1, <2>2 DEF BufType
<1>3. loop.pc = "idle" /\ loop.state = "Closed" /\ parser = "lock" /\ mutex = "free"
  BY DEF Init
<1>4. ~loop.trailer /\ ~mem.abort
  BY DEF Init
<1>5. mem.seenByLoop = 0 /\ mem.seenByParser = 0
  BY DEF Init
<1>6. TypeOK /\ MutexHeld /\ WorkIsNotified /\ ParserStore
  BY <1>1, <1>2, <1>3 DEF TypeOK, MutexHeld, WorkIsNotified, ParserStore, ParserPcs
<1>7. TailIsLast /\ CountsAgree
  BY <1>2, <1>5, HandshakeAssumption DEF TailIsLast, CountsAgree, PendingTail, PendingHead
<1>8. AbortWhileClosing /\ TrailerWhileReceiving /\ RingEmptied
  BY <1>2, <1>3, <1>4 DEF AbortWhileClosing, TrailerWhileReceiving, RingEmptied, Discarding
<1>9. EmptyBetweenSessions /\ FullIsNoticed
  BY <1>3, <1>5 DEF EmptyBetweenSessions, FullIsNoticed
<1> QED
  BY <1>6, <1>7, <1>8, <1>9 DEF IInv

\* Every step of either thread keeps the invariant.
LEMMA NextInv == IInv /\ [Next]_vars => IInv'
<1> SUFFICES ASSUME IInv, [Next]_vars PROVE IInv'
  OBVIOUS
<1>1. CASE ParserStep
  BY <1>1, ParserMovesInv, WaitInv, DrainInv, ParserStoresInv
  DEF ParserStep, Discard, FinishSession
<1>2. CASE CallbackStep
  <2>1. CASE Notify("notify", "idle") \/ Notify("stopNotify", "join")
    BY <2>1, NotifyInv DEF Notify, LoopAt
  <2> QED
    BY <1>2, <2>1, CommitInv, BackpressureInv, StopReadingInv, ResumeInv, VerifyInv, FlagInv,
       MoveInv DEF CallbackStep
<1>3. CASE PendingCallback
  BY <1>3, ConnectionsInv, MoveInv DEF PendingCallback
<1>4. CASE Outside
  BY <1>4, ReadPayloadInv, MoveInv, EndSessionInv, ConnectionsInv DEF Outside
<1>5. CASE SpuriousWakeup
  BY <1>5, ParserMovesInv
<1>6. CASE \E thread \in {"loop", "parser"} : BecomesVisible(thread)
  BY <1>6, LoopStoreVisible, ParserStoreVisible
<1>7. CASE UNCHANGED vars
  <2> USE <1>7 DEF vars
  <2>1. TypeOK' /\ MutexHeld' /\ WorkIsNotified'
    BY DEF IInv, TypeOK, MutexHeld, WorkIsNotified, Work
  <2>2. TailIsLast' /\ ParserStore' /\ CountsAgree'
    BY DEF IInv, TailIsLast, ParserStore, CountsAgree
  <2>3. AbortWhileClosing' /\ TrailerWhileReceiving' /\ RingEmptied'
    BY DEF IInv, AbortWhileClosing, TrailerWhileReceiving, RingEmptied
  <2>4. EmptyBetweenSessions' /\ FullIsNoticed'
    BY DEF IInv, EmptyBetweenSessions, FullIsNoticed, RingFull
  <2> QED
    BY <2>1, <2>2, <2>3, <2>4 DEF IInv
<1> QED
  BY <1>1, <1>2, <1>3, <1>4, <1>5, <1>6, <1>7 DEF Next, Terminated

(* The invariant holds in every reachable state of the hand-over. *)
THEOREM Invariance == Spec => []IInv
<1>1. Init => IInv
  BY InitInv
<1>2. IInv /\ [Next]_vars => IInv'
  BY NextInv
<1> QED
  BY <1>1, <1>2, PTL DEF Spec

(* No wake-up of the parser is ever lost: commitSlot()'s empty critical section *)
(* and the locks around the flags are enough, whatever the delay of a store.    *)
THEOREM WakeupsNotLost == Spec => []NoLostWakeup
<1>1. IInv => NoLostWakeup
  BY DEF IInv, WorkIsNotified, Work, NoLostWakeup
<1> QED
  BY <1>1, Invariance, PTL

(* While the parser discards a session no other one exists: the gate of         *)
(* acceptWhenParserIdle() and the order in run() are enough.                    *)
THEOREM DiscardsAlone == Spec => []DiscardBeforeBegin
<1>1. IInv => DiscardBeforeBegin
  BY DEF IInv, RingEmptied, AbortWhileClosing, Discarding, DiscardBeforeBegin
<1> QED
  BY <1>1, Invariance, PTL

(* Backpressure works for a ring of any size: a socket read for payload always  *)
(* finds a free slot.                                                           *)
THEOREM SlotsSuffice == Spec => []SlotForEveryRead
<1>1. IInv => SlotForEveryRead
  BY DEF IInv, FullIsNoticed, SlotForEveryRead
<1> QED
  BY <1>1, Invariance, PTL
=============================================================================
