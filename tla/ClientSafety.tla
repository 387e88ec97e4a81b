---------------------------- MODULE ClientSafety ----------------------------
(***************************************************************************)
(* What one client keeps true of its connection: proofs, for every value   *)
(* of the constants, of the safety properties of Asio2Client that say what *)
(* happens to sockets, reads, notifications and timers.                    *)
(*                                                                         *)
(* ClientProofs shows that one thing at a time holds the guard of the      *)
(* front event.  Here that holder is shown to fit the state of the client: *)
(* a frame, handler or operation of a connection attempt exists only while *)
(* the client is starting, one of a disconnect only while it is stopping,  *)
(* and an event that is about to run or to be popped finds the client      *)
(* settled (FitInv).  The rest is built on it:                             *)
(*                                                                         *)
(*   EndInv    of a connection that ends one disconnect event waits        *)
(*   ReadInv   a connection in use has one reader, and no other has        *)
(*   LinkInv   what the user has been told of the connection               *)
(*   PoolInv   after the io thread has ended nothing is left to do         *)
(*   ReconnectInv  a stop has cancelled the reconnect timer                *)
(*                                                                         *)
(* An invariant speaks of what the stack, the queues and the operations    *)
(* hold as marks in sequences (NoneOf, OneOf).  That it is kept follows    *)
(* from what a step may add to each sequence, proved once per sequence     *)
(* (HandlersAdded, EventQueued, FramesPut), and from what it takes away.   *)
(***************************************************************************)
EXTENDS ClientProofs

\* Nothing of the connection is in the making.
Settled ==
    /\ st # "starting"
    /\ st = "started" => sockOpen /\ ctimer.canceled
    /\ st = "stopped" => ~sockOpen /\ op.read = 0

\* A connection is in the making, on behalf of the front event.
Dialling ==
    /\ st = "starting" /\ op.read = 0
    /\ Head(events).e = IF chain = "reconnect" THEN "reconnect" ELSE "connect"
    /\ chain # "reconnect" => Head(events).by = chain

\* What the holder of the guard says of the client: as a frame, ...
FrameFits(fr) ==
    /\ fr.f \in {"run", "release", "stopReturns"} => Settled
    /\ fr.f = "done" => Dialling /\ (fr.ec = "ok" => sockOpen \/ TimedOut)
    /\ fr.f = "afterConnect" =>
        IF fr.ec = "ok" THEN st = "started" /\ sockOpen ELSE Dialling
    /\ fr.f = "disconnect" => st = "stopping" /\ (fr.old # "started" => Head(events).e # "disconnect")
    /\ fr.f = "disconnected" => st = "stopped"

\* ... as a handler that is ready, ...
HandlerFits(hd) ==
    /\ hd.h \in {"resolved", "connected", "upgraded"} => Dialling
    /\ hd.h \in {"connected", "upgraded"} /\ hd.ec = "ok" => sockOpen \/ TimedOut
    /\ hd.h = "written" => Settled
    /\ hd.h = "closed" => st = "stopped"

\* ... or as an operation under way.
OpFits ==
    /\ op.dial # "none" => Dialling
    /\ op.dial \in {"connect", "upgrade"} => sockOpen
    /\ op.write # 0 => Settled
    /\ op.close # "no" => st = "stopped"

Misfits        == {fr \in GuardFrame : ~FrameFits(fr)}
HandlerMisfits == {hd \in GuardHandler : ~HandlerFits(hd)}

FitInv ==
    /\ NoneOf(todo, Misfits) /\ NoneOf(ioq, HandlerMisfits) /\ OpFits
    /\ events = <<>> => Settled

\* The stack of a connection attempt: nothing is below its last frames.
ConnectFrame == {fr \in Frame : fr.f \in {"done", "notifyConnect", "afterConnect"}}
Stacked(s) ==
    \/ NoneOf(s, ConnectFrame)
    \/ \E ec \in Failure \cup {"ok"} :
         \/ s = <<[f |-> "done", ec |-> ec]>>
         \/ s = <<[f |-> "notifyConnect", ec |-> ec], [f |-> "afterConnect", ec |-> ec]>>
         \/ s = <<[f |-> "afterConnect", ec |-> ec]>>

\* The events that have not begun to run: of a connection that ends without the
\* guard one disconnect event is among them, and every disconnect event in the
\* queue is of a connection that was in use.
Waiting(evs, s) == IF evs = <<>> \/ ~NoRun(s) THEN evs ELSE Tail(evs)
Ending   == {ev \in Event : ev.e = "disconnect"}
Ended    == {ev \in Event : ev.e = "disconnect" /\ ev.old # "started"}
EndFrame == {fr \in Frame : fr.f = "disconnect"}
Ends ==
    IF st = "stopping" /\ NoneOf(todo, EndFrame)
        THEN OneOf(Waiting(events, todo), Ending)
        ELSE NoneOf(Waiting(events, todo), Ending)
EndInv == NoneOf(events, Ended) /\ Ends

\* The reader of a connection is the frame that posts the next read, a read that
\* has completed, or one that is pending.  A connection is made only when there
\* is none, one in use has one, and what it reads is its own.
ReadFrame   == {fr \in Frame : fr.f = "postRecv"}
ReadHandler == {hd \in Handler : hd.h = "read"}
NoReader(s, q, o) == NoneOf(s, ReadFrame) /\ NoneOf(q, ReadHandler) /\ o.read = 0
OneReader(s, q, o) ==
    \/ OneOf(s, ReadFrame) /\ NoneOf(q, ReadHandler) /\ o.read = 0
    \/ NoneOf(s, ReadFrame) /\ OneOf(q, ReadHandler) /\ o.read = 0
    \/ NoneOf(s, ReadFrame) /\ NoneOf(q, ReadHandler) /\ o.read = 1
Joined  == {hd \in Handler : hd.h \in {"connected", "upgraded"}}
OldRead == {hd \in ReadHandler : hd.on # attempt}
ReadsFirst(q) == \A i, j \in 1..Len(q) : q[i].h = "resolved" /\ q[j].h = "read" => j < i
ReadInv ==
    /\ NoReader(todo, ioq, op) \/ OneReader(todo, ioq, op)
    /\ ReadsFirst(ioq)
    /\ \/ NoReader(todo, ioq, op)
       \/ NoneOf(todo, ConnectFrame) /\ NoneOf(ioq, Joined) /\ op.dial \notin {"connect", "upgrade"}
    /\ st = "started" /\ NoneOf(todo, ConnectFrame) => ~NoReader(todo, ioq, op)
    /\ st = "started" => NoneOf(ioq, OldRead) /\ (op.read > 0 => op.on = attempt)

\* The user knows of a connection from its announcement until its end is told.
Announcement == {fr \in Frame : fr.f = "notifyConnect" /\ fr.ec = "ok"}
Unlinked     == {fr \in Frame : fr.f = "disconnect" /\ fr.old # "started"}
LinkInv ==
    linked <=> \/ st = "started" /\ NoneOf(todo, Announcement)
               \/ st = "stopping" /\ NoneOf(todo, Unlinked)

PoolInv == pool = "down" => NoWork

\* Whatever reconnects holds a timer, and after a stop the current one is
\* cancelled.
NullTimerEvent   == {ev \in Event : ev.e = "reconnect" /\ ev.id = 0}
NullTimerHandler == {hd \in Handler : hd.h = "rtimer" /\ hd.id = 0}
ReconnectInv ==
    /\ ~wanted => rtimer.canceled \/ rtimer.id = 0
    /\ NoneOf(events, NullTimerEvent)
    /\ NoneOf(ioq, NullTimerHandler)
    /\ rtimer.wait # "none" => rtimer.id # 0

----------------------------------------------------------------------------
(* Marks in sequences. *)

LEMMA PutMark ==
  ASSUME NEW S, NEW H, NEW s \in Seq(S), NEW x \in S
  PROVE  /\ Append(s, x) \in Seq(S)
         /\ NoneOf(Append(s, x), H) <=> NoneOf(s, H) /\ x \notin H
         /\ OneOf(s, H) /\ x \notin H => OneOf(Append(s, x), H)
         /\ NoneOf(s, H) /\ x \in H => OneOf(Append(s, x), H)
<1>1. Append(s, x) = s \o <<x>> /\ <<x>> \in Seq(S)
  OBVIOUS
<1> DEFINE t == <<x>>
<1>2. /\ NoneOf(t, H) <=> x \notin H
      /\ OneOf(t, H) <=> x \in H
  BY SingleMarks
<1>3. t \in Seq(S) /\ Append(s, x) = s \o t /\ Append(s, x) \in Seq(S)
  BY <1>1
<1> HIDE DEF t
<1>4. /\ NoneOf(s \o t, H) <=> NoneOf(s, H) /\ NoneOf(t, H)
      /\ OneOf(s, H) /\ NoneOf(t, H) => OneOf(s \o t, H)
      /\ NoneOf(s, H) /\ OneOf(t, H) => OneOf(s \o t, H)
  BY <1>3, ConcatMarks
<1> QED BY <1>2, <1>3, <1>4

LEMMA FewerMarks == ASSUME NEW s, NEW H, NEW M, M \subseteq H, NoneOf(s, H) PROVE NoneOf(s, M)
  BY DEF NoneOf

LEMMA AbortedMarks ==
  ASSUME TypeOK, NEW H
  PROVE  /\ (op.read > 0 => [h |-> "read", ok |-> FALSE, on |-> op.on] \notin H) => NoneOf(AbortedReads, H)
         /\ (op.write > 0 => [h |-> "written", ok |-> FALSE] \notin H) => NoneOf(AbortedWrites, H)
         /\ (op.dial = "connect" => [h |-> "connected", ec |-> "aborted"] \notin H)
            /\ (op.dial = "upgrade" => [h |-> "upgraded", ec |-> "aborted"] \notin H) => NoneOf(AbortedDial, H)
<1>1. op.read \in Nat /\ op.on \in Nat /\ op.write \in Nat
  BY DEF TypeOK, Attempt
<1>2. [h |-> "read", ok |-> FALSE, on |-> op.on] \in Handler /\ [h |-> "written", ok |-> FALSE] \in Handler
  BY <1>1, MakeHandler
<1>3. Len(AbortedReads) = op.read /\ Len(AbortedWrites) = op.write
  BY <1>1, <1>2, Repeated DEF AbortedReads, AbortedWrites
<1>4. ASSUME op.read > 0 => [h |-> "read", ok |-> FALSE, on |-> op.on] \notin H PROVE NoneOf(AbortedReads, H)
  BY <1>1, <1>3, <1>4 DEF NoneOf, AbortedReads
<1>5. ASSUME op.write > 0 => [h |-> "written", ok |-> FALSE] \notin H PROVE NoneOf(AbortedWrites, H)
  BY <1>1, <1>3, <1>5 DEF NoneOf, AbortedWrites
<1>6. ASSUME op.dial = "connect" => [h |-> "connected", ec |-> "aborted"] \notin H,
             op.dial = "upgrade" => [h |-> "upgraded", ec |-> "aborted"] \notin H
      PROVE  NoneOf(AbortedDial, H)
  BY <1>6, SingleMarks, EmptyMarks DEF AbortedDial
<1> QED BY <1>4, <1>5, <1>6

----------------------------------------------------------------------------
(* What a step adds to the handlers that are ready. *)

Made(hd) ==
    /\ hd.h = "push" =>
        \/ Start /\ hd.ev = [e |-> "connect", by |-> "game", to |-> starts + 1]
        \/ Stop /\ hd.ev = [e |-> "stop", by |-> "game"]
    /\ hd.h = "resolved" => NetResolve
    /\ hd.h = "connected" => op.dial = "connect"
    /\ hd.h = "upgraded" => op.dial = "upgrade" \/ Ready("connected")
    /\ hd.h = "read" => op.read > 0 /\ op'.read < op.read /\ hd.on = op.on
    /\ hd.h = "written" => RunSend \/ op.write # 0
    /\ hd.h = "rtimer" => hd.id = rtimer.id /\ ((AutoReconnect /\ rtimer.wait # "none") \/ rtimer.wait = "delay")
    /\ hd.h = "closed" => NetClose /\ hd.by = op.close

Unmade == {hd \in Handler : ~Made(hd)}

\* What is left of the queue, and what a step adds to it: the read that is no
\* longer pending, for one.
Left(q) ==
    \/ q = ioq
    \/ ioq # <<>> /\ q = Tail(ioq) /\ (Head(ioq).h = "read" => HandleRead) /\ (Head(ioq).h = "push" => HandlePush)
Added(hs) == NoneOf(hs, Unmade) /\ (op.read = 1 /\ op'.read = 0 => OneOf(hs, ReadHandler))
Rehandled == \E q, hs \in Seq(Handler) : Left(q) /\ Added(hs) /\ ioq' = q \o hs

LEMMA MadeOne == ASSUME NEW hd \in Handler, Made(hd) PROVE <<hd>> \in Seq(Handler) /\ NoneOf(<<hd>>, Unmade)
  BY SingleMarks DEF Unmade

LEMMA OneAdded ==
  ASSUME NEW q \in Seq(Handler), Left(q), NEW hd \in Handler, Made(hd), ioq' = Append(q, hd),
         op.read = 1 /\ op'.read = 0 => hd.h = "read"
  PROVE  Rehandled
<1> DEFINE t == <<hd>>
<1>1. t \in Seq(Handler) /\ NoneOf(t, Unmade) /\ Append(q, hd) = q \o t
  BY MadeOne
<1>2. hd.h = "read" => OneOf(t, ReadHandler)
  BY SingleMarks DEF ReadHandler
<1> HIDE DEF t
<1> QED BY <1>1, <1>2 DEF Rehandled, Added

LEMMA NoneAdded ==
  ASSUME NEW q \in Seq(Handler), Left(q), ioq' = q, op.read = 1 => op'.read # 0 PROVE Rehandled
<1>1. <<>> \in Seq(Handler) /\ NoneOf(<<>>, Unmade) /\ q \o <<>> = q
  BY EmptyMarks, ConcatEmptySeq
<1> QED BY <1>1 DEF Rehandled, Added

LEMMA AbortMade ==
  ASSUME ClientInv, op'.read = 0
  PROVE  /\ AbortedReads \in Seq(Handler) /\ AbortedWrites \in Seq(Handler) /\ AbortedDial \in Seq(Handler)
         /\ NoneOf(AbortedReads, Unmade) /\ NoneOf(AbortedWrites, Unmade) /\ NoneOf(AbortedDial, Unmade)
         /\ op.read = 1 => OneOf(AbortedReads, ReadHandler)
         /\ NoneOf(AbortedWrites, ReadHandler) /\ NoneOf(AbortedDial, ReadHandler)
<1>1. TypeOK /\ op.on \in Nat /\ op.read \in Nat
  BY DEF ClientInv, TypeOK, Attempt
<1>2. AbortedReads \in Seq(Handler) /\ AbortedWrites \in Seq(Handler) /\ AbortedDial \in Seq(Handler)
  BY <1>1, AbortedHandlers
<1> DEFINE rd == [h |-> "read", ok |-> FALSE, on |-> op.on]
           wr == [h |-> "written", ok |-> FALSE]
           cn == [h |-> "connected", ec |-> "aborted"]
           up == [h |-> "upgraded", ec |-> "aborted"]
<1>3. rd \in Handler
  BY <1>1, MakeHandler
<1>4. op.read > 0 => Made(rd)
  BY DEF Made
<1>5. /\ op.write > 0 => Made(wr)
      /\ op.dial = "connect" => Made(cn)
      /\ op.dial = "upgrade" => Made(up)
  BY DEF Made
<1>6. NoneOf(AbortedReads, Unmade)
  <2>1. op.read > 0 => rd \notin Unmade
    BY <1>4 DEF Unmade
  <2> QED BY <1>1, <2>1, AbortedMarks
<1>7. NoneOf(AbortedWrites, Unmade) /\ NoneOf(AbortedDial, Unmade)
  BY <1>1, <1>5, AbortedMarks DEF Unmade
<1>8. NoneOf(AbortedWrites, ReadHandler) /\ NoneOf(AbortedDial, ReadHandler)
  <2>1. wr \notin ReadHandler /\ cn \notin ReadHandler /\ up \notin ReadHandler
    BY DEF ReadHandler
  <2> QED BY <1>1, <2>1, AbortedMarks
<1>9. ASSUME op.read = 1 PROVE OneOf(AbortedReads, ReadHandler)
  <2>1. AbortedReads = [i \in 1..1 |-> rd]
    BY <1>9 DEF AbortedReads
  <2>2. Len(AbortedReads) = 1
    BY <1>9, <1>1, <1>3, Repeated DEF AbortedReads
  <2>3. AbortedReads[1] \in ReadHandler
    BY <1>3, <2>1 DEF ReadHandler
  <2> QED BY <2>2, <2>3 DEF OneOf
<1> QED BY <1>2, <1>6, <1>7, <1>8, <1>9

LEMMA AbortAdded ==
  ASSUME ClientInv, op'.read = 0, NEW q \in Seq(Handler), Left(q), NEW hs \in Seq(Handler),
         NoneOf(hs, Unmade), NoneOf(hs, ReadHandler), ioq' = q \o AbortedReads \o hs
  PROVE  Rehandled
<1>1. AbortedReads \in Seq(Handler) /\ NoneOf(AbortedReads, Unmade) /\ (op.read = 1 => OneOf(AbortedReads, ReadHandler))
  BY AbortMade
<1> DEFINE a == AbortedReads
<1> HIDE DEF a
<1>2. a \in Seq(Handler) /\ NoneOf(a, Unmade) /\ (op.read = 1 => OneOf(a, ReadHandler)) /\ ioq' = q \o a \o hs
  BY <1>1 DEF a
<1>3. a \o hs \in Seq(Handler) /\ NoneOf(a \o hs, Unmade) /\ (op.read = 1 => OneOf(a \o hs, ReadHandler))
  <2>1. NoneOf(a \o hs, Unmade)
    BY <1>2, ConcatMarks
  <2>2. ASSUME op.read = 1 PROVE OneOf(a \o hs, ReadHandler)
    <3>1. OneOf(a, ReadHandler)
      BY <1>2, <2>2
    <3> QED BY <1>2, <3>1, ConcatMarks
  <2>3. a \o hs \in Seq(Handler)
    BY <1>2
  <2> QED BY <2>1, <2>2, <2>3
<1>4. ioq' = q \o (a \o hs)
  BY <1>2, ConcatAssociative
<1> QED BY <1>3, <1>4 DEF Rehandled, Added

LEMMA AbortedOp ==
  ASSUME TypeOK
  PROVE  Aborted.dial = op.dial /\ Aborted.read = 0 /\ Aborted.write = 0 /\ Aborted.close = op.close
  BY DEF TypeOK, Aborted

LEMMA HandleDisconnectAdds == ASSUME ClientInv, HandleDisconnect PROVE Rehandled
<1> DEFINE wakes == Head(todo).by = "none" /\ AutoReconnect /\ rtimer.wait # "none"
           woken == [h |-> "rtimer", id |-> rtimer.id, expired |-> FALSE]
           w     == IF wakes THEN <<woken>> ELSE <<>>
           a     == AbortedReads
           b     == AbortedWrites
<1>1. ioq' = ioq \o a \o b \o w /\ op'.read = 0 /\ ioq \in Seq(Handler)
  BY AbortedOp DEF HandleDisconnect, ClientInv, TypeOK
<1>2. woken \in Handler /\ woken \notin ReadHandler
  BY MakeHandler DEF ClientInv, TypeOK, Attempt, ReadHandler
<1>3. wakes => Made(woken)
  BY DEF Made
<1> HIDE DEF woken, wakes
<1>4. w \in Seq(Handler) /\ NoneOf(w, Unmade) /\ NoneOf(w, ReadHandler)
  BY <1>2, <1>3, SingleMarks, EmptyMarks DEF Unmade
<1>5. /\ a \in Seq(Handler) /\ b \in Seq(Handler) /\ NoneOf(b, Unmade) /\ NoneOf(b, ReadHandler)
  BY <1>1, AbortMade
<1> HIDE DEF w, b
<1>6. b \o w \in Seq(Handler) /\ NoneOf(b \o w, Unmade) /\ NoneOf(b \o w, ReadHandler)
  BY <1>4, <1>5, ConcatMarks
<1> DEFINE r == ioq \o a
<1>7. r \o b \o w = r \o (b \o w)
  <2>1. r \in Seq(Handler)
    BY <1>1, <1>5, ConcatProperties
  <2> HIDE DEF r
  <2> QED BY <1>4, <1>5, <2>1, ConcatAssociative
<1>8. Left(ioq)
  BY DEF Left
<1>9. ioq' = ioq \o a \o (b \o w)
  BY <1>1, <1>7
<1> QED BY <1>1, <1>6, <1>8, <1>9, AbortAdded

LEMMA CloseSocketAdds ==
  ASSUME ClientInv, ioq # <<>>, Head(ioq).h \notin {"read", "push"}, CloseSocket PROVE Rehandled
<1> DEFINE q == Tail(ioq)
           a == AbortedReads
           b == AbortedDial
           c == AbortedWrites
<1>1. ioq' = q \o a \o b \o c /\ q \in Seq(Handler) /\ Left(q)
  BY FirstHandler DEF CloseSocket, Left
<1>2. op'.read = 0
  BY AbortedOp DEF CloseSocket, ClientInv, TypeOK, Aborted
<1>3. /\ a \in Seq(Handler) /\ b \in Seq(Handler) /\ c \in Seq(Handler)
      /\ NoneOf(b, Unmade) /\ NoneOf(b, ReadHandler) /\ NoneOf(c, Unmade) /\ NoneOf(c, ReadHandler)
  BY <1>2, AbortMade
<1> HIDE DEF q, b, c
<1>4. b \o c \in Seq(Handler) /\ NoneOf(b \o c, Unmade) /\ NoneOf(b \o c, ReadHandler)
  BY <1>3, ConcatMarks
<1> DEFINE r == q \o a
<1>5. r \o b \o c = r \o (b \o c)
  <2>1. r \in Seq(Handler)
    BY <1>1, <1>3, ConcatProperties
  <2> HIDE DEF r
  <2> QED BY <1>3, <2>1, ConcatAssociative, SMTT(30)
<1>6. ioq' = q \o a \o (b \o c)
  BY <1>1, <1>5
<1> QED BY <1>1, <1>2, <1>4, <1>6, AbortAdded

\* Every handler that a step puts in the queue is made by it.
LEMMA HandlersAdded == ASSUME ClientInv, [Next]_vars PROVE Rehandled
<1>1. ioq \in Seq(Handler) /\ op \in OpRecord /\ Left(ioq)
  BY DEF ClientInv, TypeOK, OpRecord, Left
<1>2. ASSUME NEW hd \in Handler, Made(hd), ioq' = Append(ioq, hd), op'.read = op.read \/ hd.h = "read" PROVE Rehandled
  BY <1>1, <1>2, OneAdded
<1>3. CASE ioq' = ioq /\ (op'.read = op.read \/ op'.read = op.read + 1)
  BY <1>1, <1>3, NoneAdded
<1> DEFINE Consumed == (Head(ioq).h = "read" => HandleRead) /\ (Head(ioq).h = "push" => HandlePush)
<1>4. ioq # <<>> => Tail(ioq) \in Seq(Handler) /\ (Consumed => Left(Tail(ioq)))
  BY FirstHandler DEF Left
<1>5. ASSUME ioq' = Tail(ioq), ioq # <<>>, op'.read = op.read, Consumed PROVE Rehandled
  <2>1. Tail(ioq) \in Seq(Handler) /\ Left(Tail(ioq))
    BY <1>4, <1>5
  <2>2. op.read = 1 => op'.read # 0
    BY <1>5
  <2> QED BY <1>5, <2>1, <2>2, NoneAdded
<1>6. CASE \/ NextEvent \/ RunConnect \/ RunReconnect \/ RunStop \/ RunDisconnect
           \/ Disconnect \/ DoneConnect \/ NotifyConnect \/ SetStartPromise
           \/ Recv \/ StartInCallback \/ PostRecv \/ StartReturned \/ StopPool \/ StopReturned \/ UNCHANGED vars
  <2>1. ioq' = ioq /\ (op'.read = op.read \/ op'.read = op.read + 1)
    BY <1>1, <1>6 DEF NextEvent, RunConnect, RunReconnect, RunStop, RunDisconnect, Disconnect, DoneConnect, NotifyConnect,
         SetStartPromise, Recv, StartInCallback, PostRecv, PostRead, StartReturned, StopPool, StopReturned, io, vars,
         StartConnect, OpRecord
  <2> QED BY <1>3, <2>1
<1>7. CASE HandlePush \/ HandleResolved \/ HandleUpgraded \/ HandleClosed \/ HandleWritten \/ HandleControl \/ HandleRead \/ HandleReconnectTimer
  <2>1. ioq' = Tail(ioq) /\ ioq # <<>> /\ Consumed
    BY <1>7 DEF HandlePush, HandleResolved, HandleUpgraded, HandleClosed, HandleWritten, HandleControl, HandleRead,
         HandleReconnectTimer, Handled, Ready
  <2>2. op'.read = op.read
    BY <1>1, <1>7 DEF HandlePush, HandleResolved, HandleUpgraded, HandleClosed, HandleWritten, HandleControl, HandleRead,
         HandleReconnectTimer, PostConnect, OpRecord
  <2> QED BY <1>5, <2>1, <2>2
<1>8. CASE HandleConnected
  <2> DEFINE hd == [h |-> "upgraded", ec |-> "aborted"]
  <2>1. ioq # <<>> /\ Head(ioq).h = "connected" /\ (ioq' = Tail(ioq) \/ ioq' = Append(Tail(ioq), hd))
    BY <1>8 DEF HandleConnected, PostUpgrade, Handled, Ready
  <2>2. op'.read = op.read
    BY <1>1, <1>8 DEF HandleConnected, PostUpgrade, PostConnect, OpRecord
  <2>3. hd \in Handler
    BY MakeHandler DEF Failure
  <2>4. Made(hd)
    BY <1>8 DEF Made, HandleConnected
  <2> HIDE DEF hd
  <2>5. Tail(ioq) \in Seq(Handler) /\ Left(Tail(ioq))
    BY <1>4, <2>1
  <2>6. ASSUME ioq' = Append(Tail(ioq), hd) PROVE Rehandled
    <3> DEFINE q == Tail(ioq)
    <3>1. q \in Seq(Handler) /\ Left(q) /\ ioq' = Append(q, hd)
      BY <2>5, <2>6
    <3>2. op.read = 1 /\ op'.read = 0 => hd.h = "read"
      BY <2>2
    <3> HIDE DEF q
    <3> QED BY <2>3, <2>4, <3>1, <3>2, OneAdded
  <2> QED BY <1>5, <2>1, <2>2, <2>6
<1>9. CASE RunSend
  <2> DEFINE hd == [h |-> "written", ok |-> FALSE]
  <2>1. (ioq' = ioq \/ ioq' = Append(ioq, hd)) /\ op'.read = op.read
    BY <1>1, <1>9 DEF RunSend, OpRecord
  <2>2. hd \in Handler
    BY MakeHandler
  <2>3. Made(hd)
    BY <1>9 DEF Made
  <2> HIDE DEF hd
  <2> QED BY <1>2, <1>3, <2>1, <2>2, <2>3
<1>10. CASE AfterConnect \/ SetStopPromise
  <2> DEFINE hd == [h |-> "ctimer", id |-> ctimer.id, expired |-> FALSE]
  <2>1. hd \in Handler
    BY MakeHandler DEF ClientInv, TypeOK, Attempt
  <2>2. Made(hd)
    BY DEF Made
  <2>3. ioq' = ioq \/ ioq' = Append(ioq, hd)
    BY <1>10 DEF AfterConnect, SetStopPromise, CancelConnectTimer
  <2>4. op'.read = op.read \/ op'.read = op.read + 1
    BY <1>1, <1>10 DEF AfterConnect, SetStopPromise, PostRead, OpRecord
  <2>5. op.read = 1 => op'.read # 0
    BY <2>4
  <2> HIDE DEF hd
  <2> QED BY <1>1, <1>3, <2>1, <2>2, <2>3, <2>4, <2>5, OneAdded
<1>11. CASE HandleDisconnect
  BY <1>11, HandleDisconnectAdds
<1>12. CASE HandleDisconnectTimer
  <2>1. ioq # <<>> /\ Head(ioq).h \notin {"read", "push"}
    BY <1>12 DEF HandleDisconnectTimer, Ready
  <2>2. CASE ioq' = Tail(ioq) /\ op' = op
    BY <1>5, <2>1, <2>2
  <2>3. CASE ioq' = Tail(ioq) \o AbortedReads \o AbortedWrites /\ op' = Aborted
    <3>1. op'.read = 0
      BY <2>3, AbortedOp DEF ClientInv
    <3> QED BY <1>4, <2>1, <2>3, <3>1, AbortMade, AbortAdded
  <2> QED BY <1>12, <2>2, <2>3 DEF HandleDisconnectTimer, Handled
<1>13. CASE HandleConnectTimer
  <2>1. ioq # <<>> /\ Head(ioq).h \notin {"read", "push"}
    BY <1>13 DEF HandleConnectTimer, Ready
  <2>2. CASE ioq' = Tail(ioq) /\ op' = op
    BY <1>5, <2>1, <2>2
  <2>3. CASE CloseSocket
    BY <2>1, <2>3, CloseSocketAdds
  <2> QED BY <1>13, <2>2, <2>3 DEF HandleConnectTimer, Handled
<1>14. CASE NetResolve \/ NetConnect \/ NetUpgrade
  <2>1. PICK h \in {"resolved", "connected", "upgraded"}, ec \in {"ok", "refused"} :
          /\ ioq' = Append(ioq, [h |-> h, ec |-> ec])
          /\ h = "resolved" => NetResolve
          /\ h = "connected" => op.dial = "connect"
          /\ h = "upgraded" => op.dial = "upgrade"
    BY <1>14 DEF NetResolve, NetConnect, NetUpgrade, Complete
  <2> DEFINE hd == [h |-> h, ec |-> ec]
  <2>2. hd \in Handler
    BY MakeHandler DEF Failure
  <2>3. Made(hd)
    BY <2>1 DEF Made
  <2>4. op'.read = op.read
    BY <1>1, <1>14 DEF NetResolve, NetConnect, NetUpgrade, OpRecord
  <2>5. ioq' = Append(ioq, hd)
    BY <2>1
  <2> HIDE DEF hd
  <2> QED BY <1>2, <2>2, <2>3, <2>4, <2>5
<1>15. CASE NetWrite
  <2>1. PICK ok \in BOOLEAN : ioq' = Append(ioq, [h |-> "written", ok |-> ok])
    BY <1>15 DEF NetWrite, Complete
  <2> DEFINE hd == [h |-> "written", ok |-> ok]
  <2>2. hd \in Handler /\ ioq' = Append(ioq, hd)
    BY <2>1, MakeHandler
  <2>3. Made(hd)
    BY <1>15 DEF Made, NetWrite
  <2>4. op'.read = op.read
    BY <1>1, <1>15 DEF NetWrite, OpRecord
  <2> HIDE DEF hd
  <2> QED BY <1>2, <2>2, <2>3, <2>4
<1>16. CASE NetRead
  <2>1. PICK ok \in BOOLEAN : ioq' = Append(ioq, [h |-> "read", ok |-> ok, on |-> op.on])
    BY <1>16 DEF NetRead, Complete
  <2> DEFINE hd == [h |-> "read", ok |-> ok, on |-> op.on]
  <2>2. hd \in Handler /\ ioq' = Append(ioq, hd) /\ hd.h = "read"
    BY <1>1, <2>1, MakeHandler DEF OpRecord, Attempt
  <2>3. op.read > 0 /\ op'.read = op.read - 1 /\ op.read \in Nat
    BY <1>1, <1>16 DEF NetRead, OpRecord
  <2>4. Made(hd)
    BY <2>3 DEF Made
  <2> HIDE DEF hd
  <2> QED BY <1>2, <2>2, <2>4
<1>17. CASE NetClose
  <2> DEFINE hd == [h |-> "closed", by |-> op.close]
             hs == <<hd>>
  <2>1. op.close # "no" /\ ioq' = ioq \o AbortedReads \o hs
    BY <1>17 DEF NetClose
  <2>2. op'.read = 0
    BY <1>1, <1>17 DEF NetClose, OpRecord
  <2>3. hd \in Handler /\ hd \notin ReadHandler
    BY <1>1, <2>1, MakeHandler DEF OpRecord, ReadHandler
  <2>4. Made(hd)
    BY <1>17 DEF Made
  <2> HIDE DEF hd
  <2>5. hs \in Seq(Handler) /\ NoneOf(hs, Unmade) /\ NoneOf(hs, ReadHandler)
    BY <2>3, <2>4, SingleMarks DEF Unmade
  <2> HIDE DEF hs
  <2> QED BY <1>1, <2>1, <2>2, <2>5, AbortAdded
<1>18. CASE Clock
  <2>1. op' = op
    BY <1>18 DEF Clock, ConnectTimerExpires, ReconnectDelayExpires, DisconnectTick, io
  <2>2. CASE ConnectTimerExpires
    <3> DEFINE hd == [h |-> "ctimer", id |-> ctimer.id, expired |-> TRUE]
    <3>1. hd \in Handler /\ ioq' = Append(ioq, hd)
      BY <2>2, MakeHandler DEF ConnectTimerExpires, Complete, ClientInv, TypeOK, Attempt
    <3>2. Made(hd)
      BY DEF Made
    <3> HIDE DEF hd
    <3> QED BY <1>2, <2>1, <3>1, <3>2
  <2>3. CASE ReconnectDelayExpires
    <3> DEFINE hd == [h |-> "rtimer", id |-> rtimer.id, expired |-> TRUE]
    <3>1. hd \in Handler /\ ioq' = Append(ioq, hd)
      BY <2>3, MakeHandler DEF ReconnectDelayExpires, Complete, ClientInv, TypeOK, Attempt
    <3>2. Made(hd)
      BY <2>3 DEF Made, ReconnectDelayExpires
    <3> HIDE DEF hd
    <3> QED BY <1>2, <2>1, <3>1, <3>2
  <2>4. CASE DisconnectTick
    <3> DEFINE hd == [h |-> "dtimer", id |-> dtimer]
    <3>1. hd \in Handler /\ ioq' = Append(ioq, hd)
      BY <2>4, MakeHandler DEF DisconnectTick, Complete, ClientInv, TypeOK, Attempt
    <3>2. Made(hd)
      BY DEF Made
    <3> HIDE DEF hd
    <3> QED BY <1>2, <2>1, <3>1, <3>2
  <2> QED BY <1>18, <2>2, <2>3, <2>4 DEF Clock
<1>19. CASE Start \/ Stop
  <2>1. PICK ev \in Event : ioq' = Append(ioq, [h |-> "push", ev |-> ev]) /\
                            \/ Start /\ ev = [e |-> "connect", by |-> "game", to |-> starts + 1]
                            \/ Stop /\ ev = [e |-> "stop", by |-> "game"]
    <3>1. CASE Start
      <4>1. starts + 1 \in 1..MaxStarts
        BY <3>1, ClientAssumption DEF Start, ClientInv, TypeOK
      <4> DEFINE ev == [e |-> "connect", by |-> "game", to |-> starts + 1]
      <4>2. ev \in Event
        BY <4>1, MakeEvent DEF Caller
      <4>3. ioq' = Append(ioq, [h |-> "push", ev |-> ev])
        BY <3>1 DEF Start, Posted
      <4> QED BY <3>1, <4>2, <4>3
    <3>2. CASE Stop
      <4> DEFINE ev == [e |-> "stop", by |-> "game"]
      <4>2. ev \in Event
        BY MakeEvent DEF Caller
      <4>3. ioq' = Append(ioq, [h |-> "push", ev |-> ev])
        BY <3>2 DEF Stop, Posted
      <4> QED BY <3>2, <4>2, <4>3
    <3> QED BY <1>19, <3>1, <3>2
  <2> DEFINE hd == [h |-> "push", ev |-> ev]
  <2>2. hd \in Handler
    BY MakeHandler
  <2>3. Made(hd)
    BY <2>1 DEF Made
  <2>4. ioq' = Append(ioq, hd)
    BY <2>1
  <2>5. op' = op
    BY <1>19 DEF Start, Stop, io
  <2> HIDE DEF hd
  <2> QED BY <1>2, <2>2, <2>3, <2>4, <2>5
<1>20. CASE NetCloseFrame
  <2> DEFINE hd == [h |-> "control"]
  <2>1. hd \in Handler
    BY MakeHandler
  <2>2. Made(hd)
    BY DEF Made
  <2>3. ioq' = Append(ioq, hd) /\ op' = op
    BY <1>20 DEF NetCloseFrame, Complete, io
  <2> HIDE DEF hd
  <2> QED BY <1>2, <2>1, <2>2, <2>3
<1> QED BY <1>6, <1>7, <1>8, <1>9, <1>10, <1>11, <1>12, <1>13, <1>14, <1>15, <1>16, <1>17, <1>18, <1>19, <1>20
        DEF Next, IoThread, IoInternal, IoCallback, GameThread, Calls, Network

LEMMA QueueKept ==
  ASSUME ClientInv, [Next]_vars, NEW H, \A hd \in Handler : Made(hd) => hd \notin H, NoneOf(ioq, H)
  PROVE  NoneOf(ioq', H)
<1>1. ioq \in Seq(Handler)
  BY DEF ClientInv, TypeOK
<1>2. PICK q, hs \in Seq(Handler) : Left(q) /\ Added(hs) /\ ioq' = q \o hs
  BY HandlersAdded DEF Rehandled
<1>3. NoneOf(q, H)
  BY <1>1, <1>2, FirstMark DEF Left
<1>4. NoneOf(hs, H)
  <2>1. \A i \in 1..Len(hs) : hs[i] \in Handler
    OBVIOUS
  <2> QED BY <1>2, <2>1 DEF NoneOf, Unmade, Added
<1> QED BY <1>2, <1>3, <1>4, ConcatMarks

----------------------------------------------------------------------------
(* What a step adds to the event queue. *)

\* The game thread asks for connects and stops only.
Unasked == {hd \in Handler : hd.h = "push" /\ hd.ev.e \notin {"connect", "stop"}}
PushInv == NoneOf(ioq, Unasked)

LEMMA PushKept == ASSUME ClientInv, PushInv, [Next]_vars PROVE PushInv'
<1>1. \A hd \in Handler : Made(hd) => hd \notin Unasked
  BY DEF Made, Unasked
<1>2. NoneOf(ioq', Unasked)
  BY <1>1, QueueKept DEF PushInv
<1> QED BY <1>2 DEF PushInv

Queued(ev) ==
    /\ ev.e = "connect" =>
        \/ StartInCallback /\ ev = [e |-> "connect", by |-> "io", to |-> starts + 1]
        \/ HandlePush /\ ev = Head(ioq).ev
    /\ ev.e = "stop" =>
        \/ Recv /\ ev.by = "io"
        \/ HandlePush /\ ev = Head(ioq).ev
    /\ ev.e = "disconnect" => ev.old = "started" /\ st = "started" /\ st' = "stopping"
    /\ ev.e = "reconnect" => Ready("rtimer") /\ ev.id = Head(ioq).id /\ ~Canceled(ev.id)

\* The queue as a step leaves it.
Requeued ==
    \/ events' = events
    \/ NextEvent /\ events # <<>> /\ events' = Tail(events)
    \/ \E ev \in Event : Queued(ev) /\ events' = Append(events, ev)

LEMMA EventQueued == ASSUME ClientInv, PushInv, [Next]_vars PROVE Requeued
<1>1. events \in Seq(Event)
  BY DEF ClientInv, TypeOK
<1>0. CASE events' = events
  BY <1>0 DEF Requeued
<1>2. ASSUME NEW ev \in Event, Queued(ev), events' = Append(events, ev) PROVE Requeued
  BY <1>2 DEF Requeued
<1>3. ASSUME NEW fs, DisconnectQueued(fs), st = "started" \/ events' = events PROVE Requeued
  <2> DEFINE ev == [e |-> "disconnect", old |-> "started"]
  <2>1. ev \in Event
    BY MakeEvent DEF State
  <2>2. \/ events' = events
        \/ events' = Append(events, ev) /\ st = "started" /\ st' = "stopping"
    BY <1>3 DEF DisconnectQueued, Push
  <2>3. CASE events' = Append(events, ev) /\ st = "started" /\ st' = "stopping"
    <3>1. Queued(ev)
      BY <2>3 DEF Queued
    <3> HIDE DEF ev
    <3> QED BY <1>2, <2>1, <2>3, <3>1
  <2> QED BY <2>2, <2>3 DEF Requeued
<1>4. CASE HandlePush
  <2> DEFINE hd == Head(ioq)
  <2>1. ioq # <<>> /\ hd.h = "push" /\ events' = Append(events, hd.ev)
    BY <1>4 DEF HandlePush, Ready, Push
  <2>2. hd \in Handler /\ hd \notin Unasked
    <3>1. ioq \in Seq(Handler)
      BY DEF ClientInv, TypeOK
    <3> QED BY <2>1, <3>1, FirstMark DEF PushInv
  <2>3. hd.ev \in Event /\ hd.ev.e \in {"connect", "stop"}
    BY <2>1, <2>2, HandlerKinds DEF Unasked
  <2>4. Queued(hd.ev)
    BY <1>4, <2>3 DEF Queued
  <2> QED BY <1>0, <1>2, <2>1, <2>3, <2>4
<1>5. CASE NextEvent
  <2>1. events # <<>> /\ events' = Tail(events)
    BY <1>5, TopFrame DEF NextEvent, Top, HoldingFrame
  <2> QED BY <1>5, <2>1 DEF Requeued
<1>6. CASE NotifyConnect
  <2> DEFINE ev == [e |-> "send"]
  <2>1. ev \in Event
    BY MakeEvent
  <2>2. Queued(ev)
    BY DEF Queued
  <2>3. events' = events \/ events' = Append(events, ev)
    BY <1>6 DEF NotifyConnect
  <2> HIDE DEF ev
  <2> QED BY <1>2, <1>0, <2>1, <2>2, <2>3
<1>7. CASE HandleReconnectTimer
  <2> DEFINE id == Head(ioq).id
             ev == [e |-> "reconnect", id |-> id]
  <2>1. /\ Ready("rtimer")
        /\ \/ events' = events
           \/ ~Canceled(id) /\ events' = Append(events, ev)
    BY <1>7 DEF HandleReconnectTimer, Push
  <2>2. id \in Nat
    BY <2>1, FirstHandler, HandlerKinds DEF Ready
  <2>3. ev \in Event
    BY <2>2, MakeEvent
  <2>4. ~Canceled(id) => Queued(ev)
    BY <2>1 DEF Queued
  <2> HIDE DEF ev
  <2> QED BY <1>0, <1>2, <2>1, <2>3, <2>4
<1>8. CASE HandleWritten
  BY <1>0, <1>3, <1>8 DEF HandleWritten
<1>9. CASE HandleRead
  BY <1>0, <1>3, <1>9 DEF HandleRead
<1>10. CASE PostRecv
  BY <1>0, <1>3, <1>10 DEF PostRecv
<1>13. CASE HandleControl
  BY <1>0, <1>3, <1>13 DEF HandleControl
<1>11. CASE Recv
  <2> DEFINE ev == [e |-> "stop", by |-> "io"]
  <2>1. ev \in Event
    BY MakeEvent DEF Caller
  <2>2. Queued(ev)
    BY <1>11 DEF Queued
  <2>3. events' = events \/ events' = Append(events, ev)
    BY <1>11 DEF Recv, Push
  <2> HIDE DEF ev
  <2> QED BY <1>2, <1>0, <2>1, <2>2, <2>3
<1>12. CASE StartInCallback
  <2> DEFINE ev == [e |-> "connect", by |-> "io", to |-> starts + 1]
  <2>1. starts + 1 \in 1..MaxStarts
    BY <1>12, ClientAssumption DEF StartInCallback, ClientInv, TypeOK
  <2>2. ev \in Event
    BY <2>1, MakeEvent DEF Caller
  <2>3. Queued(ev)
    BY <1>12 DEF Queued
  <2>4. events' = Append(events, ev)
    BY <1>12 DEF StartInCallback, Push
  <2> HIDE DEF ev
  <2> QED BY <1>2, <2>2, <2>3, <2>4
<1>14. CASE \/ RunConnect \/ RunReconnect \/ RunStop \/ RunSend \/ RunDisconnect
            \/ Disconnect \/ HandleDisconnect \/ DoneConnect \/ SetStartPromise \/ SetStopPromise \/ AfterConnect
            \/ HandleResolved \/ HandleConnected \/ HandleUpgraded \/ HandleClosed
            \/ HandleDisconnectTimer \/ HandleConnectTimer
  BY <1>0, <1>14 DEF RunConnect, RunReconnect, RunStop, RunSend, RunDisconnect, Disconnect, HandleDisconnect,
     DoneConnect, SetStartPromise, SetStopPromise, AfterConnect, HandleResolved, HandleConnected, HandleUpgraded,
     HandleClosed, HandleDisconnectTimer, HandleConnectTimer
<1>15. CASE GameThread \/ Calls \/ Clock \/ Network \/ UNCHANGED vars
  BY <1>0, <1>15 DEF GameThread, Calls, Clock, Network, StartReturned, StopPool, StopReturned, Start, Stop,
     ConnectTimerExpires, ReconnectDelayExpires, DisconnectTick, NetResolve, NetConnect, NetUpgrade, NetClose, NetCloseFrame,
     NetWrite, NetRead, io, quiet, vars
<1> QED BY <1>4, <1>5, <1>6, <1>7, <1>8, <1>9, <1>10, <1>11, <1>12, <1>13, <1>14, <1>15
        DEF Next, IoThread, IoInternal, IoCallback

\* Every event that a step puts in the queue is queued by it.
LEMMA EventKept ==
  ASSUME ClientInv, PushInv, [Next]_vars, NEW H, \A ev \in Event : Queued(ev) => ev \notin H, NoneOf(events, H)
  PROVE  NoneOf(events', H)
<1>1. events \in Seq(Event)
  BY DEF ClientInv, TypeOK
<1>2. CASE events # <<>> /\ events' = Tail(events)
  BY <1>1, <1>2, FirstMark
<1>3. ASSUME NEW ev \in Event, Queued(ev), events' = Append(events, ev) PROVE NoneOf(events', H)
  BY <1>1, <1>3, PutMark
<1> QED BY <1>2, <1>3, EventQueued DEF Requeued

LEMMA QueuedBy ==
  ASSUME ClientInv, PushInv, [Next]_vars, NEW ev \in Event, events' = Append(events, ev)
  PROVE  Queued(ev)
<1>1. events \in Seq(Event)
  BY DEF ClientInv, TypeOK
<1>2. events' # events /\ (events # <<>> => events' # Tail(events))
  <2>1. Len(events') = Len(events) + 1 /\ Len(events) \in Nat
    BY <1>1
  <2>2. events # <<>> => Len(Tail(events)) = Len(events) - 1
    BY <1>1
  <2> QED BY <2>1, <2>2
<1>3. PICK x \in Event : Queued(x) /\ events' = Append(events, x)
  BY <1>2, EventQueued DEF Requeued
<1>4. \A y \in Event : Append(events, y)[Len(events) + 1] = y
  BY <1>1, AppendProperties
<1> QED BY <1>3, <1>4

----------------------------------------------------------------------------
(* A stop cancels the reconnect timer, and every attempt to reconnect holds *)
(* the timer it was pushed by.                                              *)

LEMMA ReconnectTimerKept ==
  ASSUME ClientInv, ReconnectInv, [Next]_vars
  PROVE  /\ ~wanted' => rtimer'.canceled \/ rtimer'.id = 0
         /\ rtimer'.wait # "none" => rtimer'.id # 0
         /\ attempt' # attempt => wanted \/ wanted'
<1>1. /\ ~wanted => rtimer.canceled \/ rtimer.id = 0
      /\ rtimer.wait # "none" => rtimer.id # 0
      /\ rtimer \in [id : Nat, wait : {"none", "never", "delay"}, canceled : BOOLEAN]
      /\ attempt \in Nat
  BY DEF ReconnectInv, ClientInv, TypeOK, Attempt
<1> DEFINE Goal == /\ ~wanted' => rtimer'.canceled \/ rtimer'.id = 0
                   /\ rtimer'.wait # "none" => rtimer'.id # 0
                   /\ attempt' # attempt => wanted \/ wanted'
<1>2. CASE UNCHANGED <<wanted, rtimer, attempt>>
  BY <1>1, <1>2
<1>3. ASSUME CancelReconnect, attempt' = attempt PROVE Goal
  BY <1>1, <1>3 DEF CancelReconnect
<1>4. ASSUME NEW c, StartConnect(c), wanted' PROVE Goal
  BY <1>1, <1>4 DEF StartConnect
<1>5. CASE RunConnect
  BY <1>1, <1>4, <1>5 DEF RunConnect
<1>6. CASE RunReconnect
  <2>1. CASE ~Canceled(Head(events).id) /\ st = "stopped"
    <3>1. Head(events).id # 0
      <4>1. events \in Seq(Event) /\ events # <<>> /\ Head(events).e = "reconnect"
        BY <1>6, RunEvent DEF RunReconnect, ClientInv, TypeOK
      <4> QED BY <4>1, FirstMark DEF ReconnectInv, NullTimerEvent
    <3>2. wanted
      BY <1>1, <2>1, <3>1 DEF Canceled
    <3> QED BY <1>4, <1>6, <2>1, <3>2 DEF RunReconnect
  <2>2. CASE ~(~Canceled(Head(events).id) /\ st = "stopped")
    BY <1>2, <1>6, <2>2 DEF RunReconnect
  <2> QED BY <2>1, <2>2
<1>7. CASE RunStop \/ SetStopPromise
  BY <1>3, <1>7 DEF RunStop, SetStopPromise
<1>8. CASE HandleDisconnect
  BY <1>1, <1>3, <1>8 DEF HandleDisconnect
<1>9. CASE HandleReconnectTimer
  <2>1. Head(ioq).id # 0
    <3>1. ioq \in Seq(Handler) /\ ioq # <<>> /\ Head(ioq).h = "rtimer"
      BY <1>9 DEF HandleReconnectTimer, Ready, ClientInv, TypeOK
    <3> QED BY <3>1, FirstMark DEF ReconnectInv, NullTimerHandler
  <2> QED BY <1>1, <1>9, <2>1 DEF HandleReconnectTimer, Canceled
<1>10. CASE ReconnectDelayExpires
  BY <1>1, <1>10 DEF ReconnectDelayExpires, quiet
<1>11. CASE \/ HandlePush \/ NextEvent \/ RunSend \/ RunDisconnect \/ HandleResolved \/ HandleConnected
            \/ HandleUpgraded \/ DoneConnect \/ AfterConnect \/ SetStartPromise \/ Disconnect \/ HandleClosed
            \/ HandleDisconnectTimer \/ HandleConnectTimer \/ HandleWritten \/ HandleControl \/ HandleRead \/ PostRecv \/ IoCallback
  BY <1>2, <1>11 DEF HandlePush, NextEvent, RunSend, RunDisconnect, HandleResolved, HandleConnected,
     HandleUpgraded, DoneConnect, AfterConnect, SetStartPromise, Disconnect, HandleClosed, HandleDisconnectTimer,
     HandleConnectTimer, HandleWritten, HandleControl, HandleRead, PostRecv, IoCallback, NotifyConnect, Recv, StartInCallback, timers
<1>12. CASE \/ GameThread \/ Calls \/ Network \/ ConnectTimerExpires \/ DisconnectTick \/ UNCHANGED vars
  BY <1>2, <1>12 DEF GameThread, Calls, Network, StartReturned, StopPool, StopReturned, Start, Stop,
     ConnectTimerExpires, DisconnectTick, NetResolve, NetConnect, NetUpgrade, NetClose, NetCloseFrame,
     NetWrite, NetRead, io, quiet, vars, timers
<1> QED BY <1>5, <1>6, <1>7, <1>8, <1>9, <1>10, <1>11, <1>12 DEF Next, IoThread, IoInternal, Clock

LEMMA ReconnectKept == ASSUME ClientInv, PushInv, ReconnectInv, [Next]_vars PROVE ReconnectInv'
<1>1. NoneOf(ioq', NullTimerHandler)
  <2>1. \A hd \in Handler : Made(hd) => hd \notin NullTimerHandler
    BY DEF Made, NullTimerHandler, ReconnectInv
  <2> QED BY <2>1, QueueKept DEF ReconnectInv
<1>2. NoneOf(events', NullTimerEvent)
  <2>1. \A ev \in Event : Queued(ev) => ev \notin NullTimerEvent
    <3>1. SUFFICES ASSUME Ready("rtimer"), Head(ioq).id = 0 PROVE FALSE
      BY DEF Queued, NullTimerEvent
    <3>2. ioq \in Seq(Handler) /\ ioq # <<>> /\ Head(ioq).h = "rtimer"
      BY <3>1 DEF Ready, ClientInv, TypeOK
    <3> QED BY <3>1, <3>2, FirstMark DEF ReconnectInv, NullTimerHandler
  <2> QED BY <2>1, EventKept DEF ReconnectInv
<1> QED BY <1>1, <1>2, ReconnectTimerKept DEF ReconnectInv

\* No step begins a connection attempt unless a start took effect that no stop
\* has followed: a reconnect event that was queued or a timer that had expired
\* when stop ran finds its timer cancelled (reconnect_timer_cp.hpp).
THEOREM NothingConnectsAfterStop == Spec => NoReconnectAfterStop
<1>1. Init => PushInv /\ ReconnectInv
  BY EmptyMarks DEF Init, PushInv, ReconnectInv
<1>2. ClientInv /\ PushInv /\ ReconnectInv /\ [Next]_vars => PushInv' /\ ReconnectInv'
  BY PushKept, ReconnectKept
<1>3. ClientInv /\ ReconnectInv /\ [Next]_vars => [attempt' # attempt => wanted \/ wanted']_vars
  BY ReconnectTimerKept
<1> QED BY <1>1, <1>2, <1>3, Inductive, PTL DEF Spec, NoReconnectAfterStop

----------------------------------------------------------------------------
(* The stack of a connection attempt holds nothing else. *)

LEMMA ShortStacks ==
  ASSUME NEW ec \in Failure \cup {"ok"}
  PROVE  LET done   == [f |-> "done", ec |-> ec]
             notify == [f |-> "notifyConnect", ec |-> ec]
             after  == [f |-> "afterConnect", ec |-> ec]
         IN  /\ <<done>> \in Seq(Frame) /\ Tail(<<done>>) = <<>> /\ Head(<<done>>) = done
             /\ <<after>> \in Seq(Frame) /\ Tail(<<after>>) = <<>> /\ Head(<<after>>) = after
             /\ <<notify, after>> \in Seq(Frame) /\ Tail(<<notify, after>>) = <<after>>
             /\ Head(<<notify, after>>) = notify
<1> DEFINE done   == [f |-> "done", ec |-> ec]
           notify == [f |-> "notifyConnect", ec |-> ec]
           after  == [f |-> "afterConnect", ec |-> ec]
<1>1. done \in Frame /\ notify \in Frame /\ after \in Frame
  BY MakeFrame
<1> HIDE DEF done, notify, after
<1>2. /\ <<done>> \in Seq(Frame) /\ Tail(<<done>>) = <<>> /\ Head(<<done>>) = done
      /\ <<after>> \in Seq(Frame) /\ Tail(<<after>>) = <<>> /\ Head(<<after>>) = after
      /\ <<notify, after>> \in Seq(Frame) /\ Tail(<<notify, after>>) = <<after>>
      /\ Head(<<notify, after>>) = notify
  BY <1>1
<1> QED BY <1>2 DEF done, notify, after

\* What Stacked says of the frame on top.
LEMMA StackTop ==
  ASSUME ClientInv, Stacked(todo), todo # <<>>
  PROVE  /\ Head(todo).f = "done" => Tail(todo) = <<>>
         /\ Head(todo).f = "notifyConnect" =>
                Tail(todo) = <<[f |-> "afterConnect", ec |-> Head(todo).ec]>>
         /\ Head(todo).f = "afterConnect" => Tail(todo) = <<>>
         /\ Head(todo).f \notin {"done", "notifyConnect", "afterConnect"} => NoneOf(todo, ConnectFrame)
         /\ NoneOf(todo, ConnectFrame) \/ NoneOf(todo, ReadFrame)
<1>1. todo \in Seq(Frame) /\ Head(todo) \in Frame
  BY TopFrame DEF ClientInv, TypeOK
<1>2. CASE NoneOf(todo, ConnectFrame)
  <2>1. Head(todo) \notin ConnectFrame
    BY <1>1, <1>2, FirstMark
  <2> QED BY <1>1, <1>2, <2>1 DEF ConnectFrame
<1>3. ASSUME NEW ec \in Failure \cup {"ok"}, todo = <<[f |-> "done", ec |-> ec]>>
      PROVE  Tail(todo) = <<>> /\ Head(todo).f = "done" /\ NoneOf(todo, ReadFrame)
  BY <1>3, ShortStacks, SingleMarks DEF ReadFrame
<1>4. ASSUME NEW ec \in Failure \cup {"ok"}, todo = <<[f |-> "afterConnect", ec |-> ec]>>
      PROVE  Tail(todo) = <<>> /\ Head(todo).f = "afterConnect" /\ NoneOf(todo, ReadFrame)
  BY <1>4, ShortStacks, SingleMarks DEF ReadFrame
<1>5. ASSUME NEW ec \in Failure \cup {"ok"},
             todo = <<[f |-> "notifyConnect", ec |-> ec], [f |-> "afterConnect", ec |-> ec]>>
      PROVE  /\ Tail(todo) = <<[f |-> "afterConnect", ec |-> Head(todo).ec]>> /\ Head(todo).f = "notifyConnect"
             /\ NoneOf(todo, ReadFrame)
  <2>1. Tail(todo) = <<[f |-> "afterConnect", ec |-> ec]>> /\ Head(todo) = [f |-> "notifyConnect", ec |-> ec]
    BY <1>5, ShortStacks
  <2>2. NoneOf(Tail(todo), ReadFrame) /\ Head(todo) \notin ReadFrame
    BY <2>1, SingleMarks DEF ReadFrame
  <2> QED BY <1>1, <2>1, <2>2, FirstMark
<1> QED BY <1>2, <1>3, <1>4, <1>5 DEF Stacked

LEMMA StackedThen ==
  ASSUME ClientInv, Stacked(todo), todo # <<>>, Head(todo).f \notin {"done", "notifyConnect"},
         NEW fs \in Seq(Frame), NoneOf(fs, ConnectFrame), Then(fs)
  PROVE  NoneOf(todo', ConnectFrame)
<1>1. todo' = fs \o Tail(todo) /\ Tail(todo) \in Seq(Frame)
  BY TopFrame DEF Then
<1>2. todo \in Seq(Frame)
  BY DEF ClientInv, TypeOK
<1>3. CASE NoneOf(todo, ConnectFrame)
  <2>1. NoneOf(Tail(todo), ConnectFrame)
    BY <1>2, <1>3, FirstMark
  <2> QED BY <1>1, <2>1, ConcatMarks
<1>4. CASE Tail(todo) = <<>>
  BY <1>1, <1>4, NoFrame
<1> QED BY <1>3, <1>4, StackTop

LEMMA PlainFrames ==
  /\ \A fr \in Frame : fr.f \notin {"done", "notifyConnect", "afterConnect"} =>
        <<fr>> \in Seq(Frame) /\ NoneOf(<<fr>>, ConnectFrame)
  /\ <<>> \in Seq(Frame) /\ NoneOf(<<>>, ConnectFrame)
  /\ <<Run>> \in Seq(Frame) /\ NoneOf(<<Run>>, ConnectFrame)
  /\ <<Release>> \in Seq(Frame) /\ NoneOf(<<Release>>, ConnectFrame)
<1>1. ASSUME NEW fr \in Frame, fr.f \notin {"done", "notifyConnect", "afterConnect"}
      PROVE  <<fr>> \in Seq(Frame) /\ NoneOf(<<fr>>, ConnectFrame)
  BY <1>1, SingleMarks DEF ConnectFrame
<1>2. Run \in Frame /\ Release \in Frame /\ Run.f = "run" /\ Release.f = "release"
  BY MakeFrame DEF Run, Release
<1> QED BY <1>1, <1>2, EmptyMarks

\* An event pushed puts at most a run on the stack.
LEMMA StackedPush ==
  ASSUME NEW ev, NEW fs \in Seq(Frame), NoneOf(fs, ConnectFrame), Push(ev, fs)
  PROVE  NoneOf(todo', ConnectFrame)
<1> DEFINE gs == IF events = <<>> THEN <<Run>> ELSE <<>>
<1>1. gs \in Seq(Frame) /\ NoneOf(gs, ConnectFrame)
  BY PlainFrames
<1>2. todo' = gs \o fs
  BY DEF Push
<1> HIDE DEF gs
<1> QED BY <1>1, <1>2, ConcatMarks

LEMMA StackedReturns ==
  ASSUME TypeOK, NEW v \in {"ok", "failed", "already_started"}
  PROVE  /\ \A by \in Caller : /\ StartReturns(by, v) \in Seq(Frame) /\ NoneOf(StartReturns(by, v), ConnectFrame)
                               /\ StartReturns(by, v) \o <<Release>> \in Seq(Frame)
                               /\ NoneOf(StartReturns(by, v) \o <<Release>>, ConnectFrame)
         /\ ChainReturns(v) \in Seq(Frame) /\ NoneOf(ChainReturns(v), ConnectFrame)
         /\ ChainReturns(v) \o <<Release>> \in Seq(Frame) /\ NoneOf(ChainReturns(v) \o <<Release>>, ConnectFrame)
<1>1. ASSUME NEW by \in Caller
      PROVE  StartReturns(by, v) \in Seq(Frame) /\ NoneOf(StartReturns(by, v), ConnectFrame)
  BY MakeFrame, PlainFrames DEF StartReturns
<1>2. ChainReturns(v) \in Seq(Frame) /\ NoneOf(ChainReturns(v), ConnectFrame)
  BY <1>1, PlainFrames DEF ChainReturns, TypeOK
<1>3. ASSUME NEW s \in Seq(Frame), NoneOf(s, ConnectFrame)
      PROVE  s \o <<Release>> \in Seq(Frame) /\ NoneOf(s \o <<Release>>, ConnectFrame)
  <2> DEFINE t == <<Release>>
  <2>1. t \in Seq(Frame) /\ NoneOf(t, ConnectFrame)
    BY PlainFrames
  <2> HIDE DEF t
  <2>2. s \o t \in Seq(Frame) /\ NoneOf(s \o t, ConnectFrame)
    BY <1>3, <2>1, ConcatMarks
  <2> QED BY <2>2 DEF t
<1> QED BY <1>1, <1>2, <1>3

LEMMA StackedInPlace ==
  ASSUME ClientInv, Stacked(todo), todo # <<>>, Head(todo).f \notin {"done", "notifyConnect"},
         NEW by \in Caller \cup {"none"}, NEW otherwise \in Seq(Frame), NEW fs \in Seq(Frame),
         NoneOf(otherwise, ConnectFrame), NoneOf(fs, ConnectFrame), DisconnectInPlace(by, otherwise, fs)
  PROVE  NoneOf(todo', ConnectFrame)
<1> DEFINE gs == IF Connected THEN <<Disconnecting(by)>> ELSE otherwise
<1>1. Disconnecting(by) \in Frame /\ Disconnecting(by).f = "disconnect"
  BY MakeFrame DEF Disconnecting, ClientInv, TypeOK
<1>2. gs \in Seq(Frame) /\ NoneOf(gs, ConnectFrame)
  BY <1>1, PlainFrames
<1>3. Then(gs \o fs)
  BY DEF DisconnectInPlace
<1> HIDE DEF gs
<1>4. gs \o fs \in Seq(Frame) /\ NoneOf(gs \o fs, ConnectFrame)
  BY <1>2, ConcatMarks
<1> QED BY <1>3, <1>4, StackedThen

LEMMA StackedQueued ==
  ASSUME NEW fs \in Seq(Frame), NoneOf(fs, ConnectFrame), DisconnectQueued(fs)
  PROVE  NoneOf(todo', ConnectFrame)
  BY StackedPush DEF DisconnectQueued

LEMMA StackedKept == ASSUME ClientInv, Stacked(todo), [Next]_vars PROVE Stacked(todo')
<1>1. TypeOK /\ todo \in Seq(Frame)
  BY DEF ClientInv, TypeOK
<1>2. CASE NoneOf(todo', ConnectFrame)
  BY <1>2 DEF Stacked
<1>3. ASSUME NEW ec \in Failure \cup {"ok"}, todo' = <<[f |-> "done", ec |-> ec]>> PROVE Stacked(todo')
  BY <1>3 DEF Stacked
<1>4. ASSUME NEW h, Ready(h) PROVE ioq # <<>> /\ Head(ioq) \in Handler /\ NoneOf(todo, ConnectFrame) /\ todo = <<>>
  BY <1>4, FirstHandler, EmptyMarks DEF Ready
<1>5. CASE HandlePush
  BY <1>2, <1>5, PlainFrames, StackedPush DEF HandlePush
<1>6. CASE NextEvent \/ SetStartPromise \/ SetStopPromise
  <2>1. PICK fs \in {<<>>, <<Run>>, <<Release>>} : Then(fs)
    BY <1>6 DEF NextEvent, SetStartPromise, SetStopPromise
  <2>2. fs \in Seq(Frame) /\ NoneOf(fs, ConnectFrame)
    BY PlainFrames
  <2>3. todo # <<>> /\ Head(todo).f \notin {"done", "notifyConnect"}
    BY <1>6 DEF NextEvent, SetStartPromise, SetStopPromise, Top
  <2> QED BY <1>2, <2>1, <2>2, <2>3, StackedThen
<1>7. CASE RunConnect \/ RunReconnect \/ RunSend \/ RunDisconnect
  <2>1. todo # <<>> /\ Head(todo).f = "run" /\ events # <<>> /\ Head(events) \in Event
    BY <1>7, RunEvent DEF RunConnect, RunReconnect, RunSend, RunDisconnect
  <2>2. ASSUME NEW fs \in Seq(Frame), NoneOf(fs, ConnectFrame), Then(fs) PROVE Stacked(todo')
    BY <1>2, <2>1, <2>2, StackedThen
  <2>3. CASE RunConnect
    <3>1. Head(events).by \in Caller
      BY <2>1, <2>3, RunEvent, EventKinds DEF RunConnect
    <3>2. Then(<<>>) \/ Then(StartReturns(Head(events).by, "already_started") \o <<Release>>)
      BY <2>3 DEF RunConnect, StartConnect
    <3> QED BY <1>1, <2>2, <3>1, <3>2, PlainFrames, StackedReturns
  <2>4. CASE RunReconnect
    BY <2>2, <2>4, PlainFrames DEF RunReconnect, StartConnect
  <2>5. CASE RunSend
    BY <2>2, <2>5, PlainFrames DEF RunSend
  <2>6. CASE RunDisconnect
    <3> DEFINE fr == [f |-> "disconnect", old |-> Head(events).old, by |-> "none"]
    <3>1. Head(events).old \in State
      BY <2>1, <2>6, RunEvent, EventKinds DEF RunDisconnect
    <3>2. fr \in Frame /\ fr.f = "disconnect" /\ Then(<<fr>>)
      BY <2>6, <3>1, MakeFrame DEF RunDisconnect
    <3> HIDE DEF fr
    <3> QED BY <2>2, <3>2, PlainFrames
  <2> QED BY <1>7, <2>3, <2>4, <2>5, <2>6
<1>8. CASE RunStop
  <2> DEFINE by == Head(events).by
             fr == [f |-> "stopReturns", by |-> by]
  <2>1. todo # <<>> /\ Head(todo).f = "run" /\ by \in Caller
    BY <1>8, RunEvent, EventKinds DEF RunStop
  <2>2. fr \in Frame /\ fr.f = "stopReturns"
    BY <2>1, MakeFrame
  <2>3. DisconnectInPlace(by, <<fr>>, <<>>)
    BY <1>8 DEF RunStop
  <2> HIDE DEF fr, by
  <2>4. <<fr>> \in Seq(Frame) /\ NoneOf(<<fr>>, ConnectFrame)
    BY <2>2, PlainFrames
  <2>5. NoneOf(todo', ConnectFrame)
    BY <2>1, <2>3, <2>4, PlainFrames, StackedInPlace
  <2> QED BY <1>2, <2>5
<1>9. CASE Disconnect
  <2> DEFINE fr == [f |-> "disconnected", by |-> Head(todo).by]
  <2>1. todo # <<>> /\ Head(todo).f = "disconnect" /\ Head(todo).by \in Caller \cup {"none"}
    BY <1>9, TopFrame, FrameKinds DEF Disconnect, Top
  <2>2. fr \in Frame /\ fr.f = "disconnected"
    BY <2>1, MakeFrame
  <2>3. Then(<<>>) \/ Then(<<fr>>)
    BY <1>9 DEF Disconnect
  <2> HIDE DEF fr
  <2> QED BY <1>2, <2>1, <2>2, <2>3, PlainFrames, StackedThen
<1>10. CASE HandleClosed
  <2> DEFINE fr == [f |-> "disconnected", by |-> Head(ioq).by]
  <2>1. Head(ioq).by \in Caller \cup {"none"}
    BY <1>4, <1>10, HandlerKinds DEF HandleClosed, Ready
  <2>2. fr \in Frame /\ fr.f = "disconnected" /\ todo' = <<fr>>
    BY <1>10, <2>1, MakeFrame DEF HandleClosed
  <2> HIDE DEF fr
  <2> QED BY <1>2, <2>2, PlainFrames
<1>11. CASE HandleDisconnect
  <2> DEFINE fr == [f |-> "stopReturns", by |-> Head(todo).by]
  <2>1. todo # <<>> /\ Head(todo).f = "disconnected" /\ Head(todo).by \in Caller \cup {"none"}
    BY <1>11, TopFrame, FrameKinds DEF HandleDisconnect, Top
  <2>2. CASE Head(todo).by = "none"
    <3>1. Then(<<Release>>)
      BY <1>11, <2>2 DEF HandleDisconnect
    <3> QED BY <1>2, <2>1, <3>1, PlainFrames, StackedThen
  <2>3. CASE Head(todo).by # "none"
    <3>1. fr \in Frame /\ fr.f = "stopReturns" /\ Then(<<fr>>)
      BY <1>11, <2>1, <2>3, MakeFrame DEF HandleDisconnect
    <3> HIDE DEF fr
    <3> QED BY <1>2, <2>1, <3>1, PlainFrames, StackedThen
  <2> QED BY <2>2, <2>3
<1>12. CASE HandleResolved \/ HandleConnected \/ HandleUpgraded
  <2>1. todo = <<>> /\ Head(ioq).ec \in Failure \cup {"ok"}
    BY <1>4, <1>12, HandlerKinds DEF HandleResolved, HandleConnected, HandleUpgraded, Ready
  <2>2. \/ \E ec \in Failure \cup {"ok"} : todo' = <<[f |-> "done", ec |-> ec]>>
        \/ todo' = <<>>
    BY <1>12, <2>1 DEF HandleResolved, HandleConnected, HandleUpgraded, PostConnect, PostUpgrade, Done, Failure
  <2> QED BY <1>2, <1>3, <2>2, PlainFrames
<1>13. CASE DoneConnect
  <2>1. todo # <<>> /\ Head(todo).f = "done" /\ Head(todo).ec \in Failure \cup {"ok"}
    BY <1>13, TopFrame, FrameKinds DEF DoneConnect, Top
  <2>2. PICK ec \in Failure \cup {"ok"} : Then(<<[f |-> "notifyConnect", ec |-> ec], [f |-> "afterConnect", ec |-> ec]>>)
    BY <1>13, <2>1 DEF DoneConnect, Failure
  <2>3. todo' = <<[f |-> "notifyConnect", ec |-> ec], [f |-> "afterConnect", ec |-> ec]>>
    BY <2>1, <2>2, StackTop, ShortStacks, NoFrame DEF Then
  <2> QED BY <2>3 DEF Stacked
<1>14. CASE NotifyConnect
  <2>1. todo # <<>> /\ Head(todo).f = "notifyConnect" /\ Head(todo).ec \in Failure \cup {"ok"}
    BY <1>14, TopFrame, FrameKinds DEF NotifyConnect, Top
  <2>2. todo' = <<>> \o Tail(todo) /\ Tail(todo) = <<[f |-> "afterConnect", ec |-> Head(todo).ec]>>
    BY <1>14, <2>1, StackTop DEF NotifyConnect, Then
  <2>3. todo' = Tail(todo)
    BY <2>1, <2>2, TopFrame, NoFrame
  <2> QED BY <2>1, <2>2, <2>3 DEF Stacked
<1>15. CASE AfterConnect
  <2>1. todo # <<>> /\ Head(todo).f = "afterConnect"
    BY <1>15 DEF AfterConnect, Top
  <2>2. CASE Then(ChainReturns("ok") \o <<Release>>)
    BY <1>1, <1>2, <2>1, <2>2, StackedThen, StackedReturns
  <2>3. CASE DisconnectInPlace("none", <<Release>>, ChainReturns("failed"))
    BY <1>1, <1>2, <2>1, <2>3, StackedInPlace, StackedReturns, PlainFrames
  <2> QED BY <1>15, <2>2, <2>3 DEF AfterConnect
<1>16. CASE HandleReconnectTimer
  BY <1>2, <1>4, <1>16, PlainFrames, StackedPush DEF HandleReconnectTimer
<1>17. CASE HandleWritten
  BY <1>2, <1>17, PlainFrames, StackedQueued DEF HandleWritten
<1>18. CASE HandleRead
  <2>1. CASE todo' = <<[f |-> "recv"], [f |-> "postRecv"]>>
    <3>1. [f |-> "recv"] \in Frame /\ [f |-> "postRecv"] \in Frame
      BY MakeFrame
    <3>2. NoneOf(<<[f |-> "recv"]>> \o <<[f |-> "postRecv"]>>, ConnectFrame)
      BY <3>1, PlainFrames, ConcatMarks
    <3>3. todo' = <<[f |-> "recv"]>> \o <<[f |-> "postRecv"]>>
      BY <2>1
    <3> QED BY <1>2, <3>2, <3>3
  <2>2. CASE DisconnectQueued(<<>>)
    BY <1>2, <2>2, PlainFrames, StackedQueued
  <2> QED BY <1>2, <1>4, <1>18, <2>1, <2>2 DEF HandleRead
<1>19. CASE Recv \/ StartInCallback \/ PostRecv
  <2>1. todo # <<>> /\ Head(todo).f \in {"recv", "postRecv"}
    BY <1>19 DEF Recv, StartInCallback, PostRecv, Top
  <2>2. NoneOf(todo, ConnectFrame) /\ NoneOf(Tail(todo), ConnectFrame) /\ Tail(todo) \in Seq(Frame)
    BY <1>1, <2>1, StackTop, FirstMark
  <2>3. CASE Recv
    <3>1. \/ Push([e |-> "stop", by |-> "io"], Tail(todo))
          \/ Then(<<>>)
      BY <2>3 DEF Recv
    <3> QED BY <1>2, <2>1, <2>2, <3>1, StackedPush, StackedThen, PlainFrames
  <2>4. CASE StartInCallback
    BY <1>1, <1>2, <2>2, <2>4, StackedPush DEF StartInCallback
  <2>5. CASE PostRecv
    <3>1. Then(<<>>) \/ DisconnectQueued(Tail(todo))
      BY <2>5 DEF PostRecv
    <3> QED BY <1>2, <2>1, <2>2, <3>1, StackedQueued, StackedThen, PlainFrames
  <2> QED BY <1>19, <2>3, <2>4, <2>5
<1>20. CASE HandleDisconnectTimer \/ HandleConnectTimer \/ GameThread \/ Calls \/ Clock \/ Network \/ UNCHANGED vars
  <2>1. todo' = todo
    BY <1>20 DEF HandleDisconnectTimer, HandleConnectTimer, GameThread, Calls, Clock, Network, StartReturned, StopPool,
       StopReturned, Start, Stop, ConnectTimerExpires, ReconnectDelayExpires, DisconnectTick, NetResolve, NetConnect,
       NetUpgrade, NetClose, NetCloseFrame, NetWrite, NetRead, io, quiet, vars
  <2> QED BY <2>1
<1>21. CASE HandleControl
  <2>1. CASE DisconnectQueued(<<>>)
    BY <1>2, <2>1, PlainFrames, StackedQueued
  <2> QED BY <1>21, <2>1 DEF HandleControl
<1> QED BY <1>5, <1>6, <1>7, <1>8, <1>9, <1>10, <1>11, <1>12, <1>13, <1>14, <1>15, <1>16, <1>17, <1>18, <1>19, <1>20, <1>21
        DEF Next, IoThread, IoInternal, IoCallback

----------------------------------------------------------------------------
(* The guard has one holder, and it fits the state of the client. *)

LEMMA FrameAlone ==
  ASSUME NEW evs, NEW s, NEW q, NEW o, Guarded(evs, s, q, o), NEW i \in 1..Len(s), s[i] \in GuardFrame
  PROVE  /\ evs # <<>> /\ OpFree(o) /\ NoneOf(q, GuardHandler)
         /\ \A j \in 1..Len(s) : s[j] \in GuardFrame => j = i
  BY DEF Guarded, Unheld, Held, NoneOf, OneOf

LEMMA HandlerAlone ==
  ASSUME NEW evs, NEW s, NEW q, NEW o, Guarded(evs, s, q, o), NEW i \in 1..Len(q), q[i] \in GuardHandler
  PROVE  /\ evs # <<>> /\ OpFree(o) /\ NoneOf(s, GuardFrame)
         /\ \A j \in 1..Len(q) : q[j] \in GuardHandler => j = i
  BY DEF Guarded, Unheld, Held, NoneOf, OneOf

LEMMA OpAlone ==
  ASSUME NEW evs, NEW s, NEW q, NEW o, Guarded(evs, s, q, o), ~OpFree(o)
  PROVE  evs # <<>> /\ OpOne(o) /\ NoneOf(s, GuardFrame) /\ NoneOf(q, GuardHandler)
  BY DEF Guarded, Unheld, Held

\* It is enough to look at one holder.
LEMMA FrameFitsAll ==
  ASSUME ClientInv', NEW x \in Frame, x.f \in HoldingFrame, ~NoneOf(todo', {x}), FrameFits(x)'
  PROVE  FitInv'
<1>1. PICK i \in 1..Len(todo') : todo'[i] = x
  BY DEF NoneOf
<1>2. Guarded(events', todo', ioq', op') /\ todo'[i] \in GuardFrame
  BY <1>1 DEF ClientInv, GuardFrame
<1>3. /\ events' # <<>> /\ OpFree(op') /\ NoneOf(ioq', GuardHandler)
      /\ \A j \in 1..Len(todo') : todo'[j] \in GuardFrame => j = i
  BY <1>2, FrameAlone
<1>4. Misfits' \subseteq GuardFrame /\ x \notin Misfits' /\ HandlerMisfits' \subseteq GuardHandler
  BY DEF Misfits, HandlerMisfits
<1>5. NoneOf(todo', Misfits')
  BY <1>1, <1>3, <1>4 DEF NoneOf
<1>6. NoneOf(ioq', HandlerMisfits')
  BY <1>3, <1>4, FewerMarks
<1>7. OpFits'
  BY <1>3 DEF OpFits, OpFree
<1> QED BY <1>3, <1>5, <1>6, <1>7 DEF FitInv

LEMMA HandlerFitsAll ==
  ASSUME ClientInv', NEW x \in Handler, x.h \in HoldingHandler, ~NoneOf(ioq', {x}), HandlerFits(x)'
  PROVE  FitInv'
<1>1. PICK i \in 1..Len(ioq') : ioq'[i] = x
  BY DEF NoneOf
<1>2. Guarded(events', todo', ioq', op') /\ ioq'[i] \in GuardHandler
  BY <1>1 DEF ClientInv, GuardHandler
<1>3. /\ events' # <<>> /\ OpFree(op') /\ NoneOf(todo', GuardFrame)
      /\ \A j \in 1..Len(ioq') : ioq'[j] \in GuardHandler => j = i
  BY <1>2, HandlerAlone
<1>4. Misfits' \subseteq GuardFrame /\ x \notin HandlerMisfits' /\ HandlerMisfits' \subseteq GuardHandler
  BY DEF Misfits, HandlerMisfits
<1>5. NoneOf(ioq', HandlerMisfits')
  BY <1>1, <1>3, <1>4 DEF NoneOf
<1>6. NoneOf(todo', Misfits')
  BY <1>3, <1>4, FewerMarks
<1>7. OpFits'
  BY <1>3 DEF OpFits, OpFree
<1> QED BY <1>3, <1>5, <1>6, <1>7 DEF FitInv

LEMMA OpFitsAll == ASSUME ClientInv', ~OpFree(op'), OpFits' PROVE FitInv'
<1>1. events' # <<>> /\ NoneOf(todo', GuardFrame) /\ NoneOf(ioq', GuardHandler)
  BY OpAlone DEF ClientInv
<1>2. Misfits' \subseteq GuardFrame /\ HandlerMisfits' \subseteq GuardHandler
  BY DEF Misfits, HandlerMisfits
<1> QED BY <1>1, <1>2, FewerMarks DEF FitInv

LEMMA IdleFits == ASSUME ClientInv', events' = <<>>, Settled' PROVE FitInv'
<1>1. Unheld(todo', ioq', op')
  BY DEF ClientInv, Guarded
<1>2. Misfits' \subseteq GuardFrame /\ HandlerMisfits' \subseteq GuardHandler
  BY DEF Misfits, HandlerMisfits
<1> QED BY <1>1, <1>2, FewerMarks DEF FitInv, Unheld, OpFits, OpFree

\* What the holder that is about to act knows.
LEMMA TopFits ==
  ASSUME ClientInv, FitInv, todo # <<>>, Head(todo).f \in HoldingFrame
  PROVE  FrameFits(Head(todo)) /\ events # <<>> /\ OpFree(op)
<1>1. todo \in Seq(Frame) /\ Head(todo) \in GuardFrame
  BY TopFrame DEF ClientInv, TypeOK, GuardFrame
<1>2. Head(todo) \notin Misfits
  BY <1>1, FirstMark DEF FitInv
<1> QED BY <1>1, <1>2, TopFrame DEF Misfits, Unheld

LEMMA FirstFits ==
  ASSUME ClientInv, FitInv, ioq # <<>>, Head(ioq).h \in HoldingHandler
  PROVE  HandlerFits(Head(ioq)) /\ events # <<>> /\ OpFree(op)
<1>1. ioq \in Seq(Handler) /\ Head(ioq) \in GuardHandler
  BY FirstHandler DEF ClientInv, TypeOK, GuardHandler
<1>2. Head(ioq) \notin HandlerMisfits
  BY <1>1, FirstMark DEF FitInv
<1> QED BY <1>1, <1>2, FirstHandler DEF HandlerMisfits, Unheld

LEMMA StartedIsOpen == ASSUME ClientInv, FitInv, st = "started" PROVE sockOpen
<1>1. Guarded(events, todo, ioq, op)
  BY DEF ClientInv
<1>2. CASE Unheld(todo, ioq, op) /\ events = <<>>
  BY <1>2 DEF FitInv, Settled
<1>3. CASE OneOf(todo, GuardFrame)
  <2>1. PICK i \in 1..Len(todo) : todo[i] \in GuardFrame
    BY <1>3 DEF OneOf
  <2>2. FrameFits(todo[i]) /\ todo[i].f \in HoldingFrame
    BY <2>1 DEF FitInv, NoneOf, Misfits, GuardFrame
  <2> QED BY <2>2 DEF FrameFits, HoldingFrame, Settled, Dialling
<1>4. CASE OneOf(ioq, GuardHandler)
  <2>1. PICK i \in 1..Len(ioq) : ioq[i] \in GuardHandler
    BY <1>4 DEF OneOf
  <2>2. HandlerFits(ioq[i]) /\ ioq[i].h \in HoldingHandler
    BY <2>1 DEF FitInv, NoneOf, HandlerMisfits, GuardHandler
  <2> QED BY <2>2 DEF HandlerFits, HoldingHandler, Settled, Dialling
<1>5. CASE OpOne(op)
  BY <1>5 DEF FitInv, OpFits, OpOne, Settled, Dialling
<1> QED BY <1>1, <1>2, <1>3, <1>4, <1>5 DEF Guarded, Held

\* What fits goes on fitting while the connection is left alone.
LEMMA FitsMonotone ==
  ASSUME UNCHANGED <<st, sockOpen, chain>>, TimedOut => TimedOut', ctimer.canceled => ctimer'.canceled,
         op.read = 0 /\ st # "started" => op'.read = 0, Head(events') = Head(events)
  PROVE  /\ Misfits' \subseteq Misfits /\ HandlerMisfits' \subseteq HandlerMisfits
         /\ Settled => Settled'
         /\ Dialling => Dialling'
<1>1. (Settled => Settled') /\ (Dialling => Dialling')
  BY DEF Settled, Dialling
<1>2. ASSUME NEW fr \in Frame, FrameFits(fr) PROVE FrameFits(fr)'
  BY <1>1, <1>2 DEF FrameFits
<1>3. ASSUME NEW hd \in Handler, HandlerFits(hd) PROVE HandlerFits(hd)'
  BY <1>1, <1>3 DEF HandlerFits
<1>4. Misfits' \subseteq Misfits
  BY <1>2 DEF Misfits, GuardFrame
<1>5. HandlerMisfits' \subseteq HandlerMisfits
  BY <1>3 DEF HandlerMisfits, GuardHandler
<1> QED BY <1>1, <1>4, <1>5

LEMMA FitsKept ==
  ASSUME ClientInv, FitInv,
         UNCHANGED <<st, sockOpen, chain>>, TimedOut => TimedOut', ctimer.canceled => ctimer'.canceled,
         op.read = 0 /\ st # "started" => op'.read = 0,
         Head(events') = Head(events), events' = <<>> => events = <<>>,
         NoneOf(todo', Misfits), NoneOf(ioq', HandlerMisfits),
         op'.dial = op.dial, op.write = 0 => op'.write = 0, op'.close = op.close
  PROVE  FitInv'
<1>1. /\ Misfits' \subseteq Misfits /\ HandlerMisfits' \subseteq HandlerMisfits
      /\ Settled => Settled'
      /\ Dialling => Dialling'
  BY FitsMonotone
<1>2. NoneOf(todo', Misfits') /\ NoneOf(ioq', HandlerMisfits')
  BY <1>1, FewerMarks
<1>3. OpFits'
  BY <1>1 DEF FitInv, OpFits
<1> QED BY <1>1, <1>2, <1>3 DEF FitInv

LEMMA PushFits ==
  ASSUME ClientInv, ClientInv', FitInv, UNCHANGED <<st, sockOpen, chain, ctimer, op>>,
         NEW ev \in Event, NEW fs \in Seq(Frame), NoneOf(fs, Misfits), NoneOf(ioq', HandlerMisfits), Push(ev, fs)
  PROVE  FitInv'
<1>1. events \in Seq(Event) /\ events' = Append(events, ev)
  BY DEF ClientInv, TypeOK, Push
<1>2. CASE events = <<>>
  <2>1. PICK x \in Frame : x = Run
    BY MakeFrame DEF Run
  <2>2. todo' = <<x>> \o fs /\ <<x>> \in Seq(Frame) /\ x.f = "run"
    BY <1>2, <2>1 DEF Push, Run
  <2>3. ~NoneOf(todo', {x})
    BY <2>2, ConcatMarks, SingleMarks
  <2>4. FrameFits(x)'
    BY <1>2, <2>2 DEF FrameFits, FitInv, Settled
  <2> QED BY <2>2, <2>3, <2>4, FrameFitsAll DEF HoldingFrame
<1>3. CASE events # <<>>
  <2>1. todo' = fs /\ Head(events') = Head(events) /\ events' # <<>>
    BY <1>1, <1>3, NoFrame DEF Push
  <2>2. TimedOut => TimedOut'
    BY DEF TimedOut
  <2> QED BY <2>1, <2>2, FitsKept
<1> QED BY <1>2, <1>3

\* A frame put on the stack is there.
LEMMA Placed ==
  ASSUME ClientInv, todo # <<>>, NEW fs \in Seq(Frame), NEW x, ~NoneOf(fs, {x}), Then(fs)
  PROVE  ~NoneOf(todo', {x})
<1>1. Tail(todo) \in Seq(Frame) /\ todo' = fs \o Tail(todo)
  BY TopFrame DEF Then
<1> QED BY <1>1, ConcatMarks

LEMMA Pair == ASSUME NEW S, NEW x \in S, NEW y \in S PROVE <<x>> \o <<y>> = <<x, y>>
<1>1. <<x>> \in Seq(S) /\ <<y>> \in Seq(S) /\ <<x, y>> \in Seq(S) /\ <<x>> \o <<y>> \in Seq(S)
  OBVIOUS
<1>2. Len(<<x>> \o <<y>>) = 2 /\ Len(<<x, y>>) = 2
  BY <1>1
<1>3. \A i \in 1..2 : (<<x>> \o <<y>>)[i] = <<x, y>>[i]
  BY <1>1
<1> QED BY <1>1, <1>2, <1>3, SeqEqual

LEMMA OnlyFrame == ASSUME NEW x \in Frame PROVE <<x>> \in Seq(Frame) /\ ~NoneOf(<<x>>, {x})
  BY SingleMarks

\* The same for a stack that ends with its holder.
LEMMA LastFrame ==
  ASSUME NEW x \in Frame, NEW fs \in Seq(Frame)
  PROVE  fs \o <<x>> \in Seq(Frame) /\ ~NoneOf(fs \o <<x>>, {x})
<1> DEFINE t == <<x>>
<1>1. t \in Seq(Frame) /\ ~NoneOf(t, {x})
  BY OnlyFrame
<1> HIDE DEF t
<1>2. fs \o t \in Seq(Frame) /\ ~NoneOf(fs \o t, {x})
  BY <1>1, ConcatMarks
<1> QED BY <1>2 DEF t

LEMMA HandlePushFits == ASSUME ClientInv, ClientInv', FitInv, HandlePush PROVE FitInv'
<1>1. ioq # <<>> /\ Head(ioq).h = "push" /\ ioq' = Tail(ioq) /\ Push(Head(ioq).ev, <<>>)
  BY DEF HandlePush, Ready, Handled
<1>2. Head(ioq).ev \in Event
  BY <1>1, FirstHandler, HandlerKinds
<1>3. NoneOf(ioq', HandlerMisfits) /\ NoneOf(<<>>, Misfits) /\ <<>> \in Seq(Frame)
  <2>1. ioq \in Seq(Handler)
    BY DEF ClientInv, TypeOK
  <2> QED BY <1>1, <2>1, FirstMark, EmptyMarks, NoFrame DEF FitInv
<1>4. UNCHANGED <<st, sockOpen, chain, ctimer, op>>
  BY DEF HandlePush, timers
<1> QED BY <1>1, <1>2, <1>3, <1>4, PushFits

LEMMA NextEventFits == ASSUME ClientInv, ClientInv', FitInv, NextEvent PROVE FitInv'
<1>1. todo # <<>> /\ Head(todo).f = "release" /\ events' = Tail(events)
      /\ Then(IF Len(events) > 1 THEN <<Run>> ELSE <<>>)
      /\ UNCHANGED <<st, sockOpen, op, ctimer>>
  BY DEF NextEvent, Top, timers
<1>2. Settled /\ events # <<>>
  BY <1>1, TopFits DEF FrameFits, HoldingFrame
<1>3. Settled'
  BY <1>1, <1>2 DEF Settled
<1>4. CASE Len(events) > 1
  <2>1. PICK x \in Frame : x = Run
    BY MakeFrame DEF Run
  <2>2. Then(<<x>>) /\ x.f = "run"
    BY <1>1, <1>4, <2>1 DEF Run
  <2>3. FrameFits(x)'
    BY <1>3, <2>2 DEF FrameFits
  <2>4. ~NoneOf(todo', {x})
    BY <1>1, <2>2, OnlyFrame, Placed
  <2> QED BY <2>2, <2>3, <2>4, FrameFitsAll DEF HoldingFrame
<1>5. CASE ~(Len(events) > 1)
  <2>1. events \in Seq(Event)
    BY DEF ClientInv, TypeOK
  <2>2. events' = <<>>
    BY <1>1, <1>2, <1>5, <2>1
  <2> QED BY <1>3, <2>2, IdleFits
<1> QED BY <1>4, <1>5

\* The guard is about to be given back.
LEMMA ReleaseFits ==
  ASSUME ClientInv, ClientInv', todo # <<>>, NEW fs \in Seq(Frame), Then(fs \o <<Release>>), Settled'
  PROVE  FitInv'
<1>1. PICK x \in Frame : x = Release
  BY MakeFrame DEF Release
<1>2. Then(fs \o <<x>>) /\ x.f = "release"
  BY <1>1 DEF Release
<1>3. ~NoneOf(todo', {x})
  BY <1>2, LastFrame, Placed
<1>4. FrameFits(x)'
  BY <1>2 DEF FrameFits
<1> QED BY <1>2, <1>3, <1>4, FrameFitsAll DEF HoldingFrame

LEMMA ReleasedFits == ASSUME ClientInv, ClientInv', todo # <<>>, Then(<<Release>>), Settled' PROVE FitInv'
<1>1. <<>> \o <<Release>> = <<Release>> /\ <<>> \in Seq(Frame)
  BY ReleaseFrames, NoFrame
<1> QED BY <1>1, ReleaseFits

LEMMA StartConnectFits ==
  ASSUME ClientInv, ClientInv', FitInv, NEW e \in {"connect", "reconnect"}, RunNow(e), st = "stopped",
         NEW c \in Caller \cup {"reconnect"}, StartConnect(c), events' = events,
         c = IF e = "reconnect" THEN "reconnect" ELSE Head(events).by
  PROVE  FitInv'
<1>1. Settled /\ OpFree(op)
  BY RunEvent, TopFits DEF FrameFits
<1>2. op \in OpRecord /\ op' = [op EXCEPT !.dial = "resolve"] /\ st' = "starting" /\ chain' = c
  BY DEF StartConnect, ClientInv, TypeOK, OpRecord
<1>3. op'.dial = "resolve" /\ op'.read = 0 /\ op'.write = 0 /\ op'.close = "no"
  BY <1>1, <1>2 DEF OpRecord, Settled, OpFree
<1>4. Dialling'
  <2>1. e = "connect" => c # "reconnect"
    BY RunEvent, EventKinds DEF Caller
  <2> QED BY <1>2, <1>3, <2>1, RunEvent DEF Dialling
<1> QED BY <1>3, <1>4, OpFitsAll DEF OpFits, OpFree

LEMMA RunConnectFits == ASSUME ClientInv, ClientInv', FitInv, RunConnect PROVE FitInv'
<1>1. RunNow("connect") /\ Head(events).by \in Caller
  BY RunEvent, EventKinds DEF RunConnect
<1>2. CASE st = "stopped"
  BY <1>1, <1>2, StartConnectFits DEF RunConnect
<1>3. CASE st # "stopped"
  <2>1. Settled /\ todo # <<>>
    BY <1>1, RunEvent, TopFits DEF FrameFits
  <2>2. Settled'
    BY <1>3, <2>1 DEF Settled, RunConnect
  <2>3. StartReturns(Head(events).by, "already_started") \in Seq(Frame)
    BY <1>1, StartReturnsFrames
  <2> QED BY <1>3, <2>1, <2>2, <2>3, ReleaseFits DEF RunConnect
<1> QED BY <1>2, <1>3

LEMMA RunReconnectFits == ASSUME ClientInv, ClientInv', FitInv, RunReconnect PROVE FitInv'
<1>1. RunNow("reconnect") /\ events' = events
  BY DEF RunReconnect
<1>2. CASE ~Canceled(Head(events).id) /\ st = "stopped"
  <2>1. StartConnect("reconnect")
    BY <1>2 DEF RunReconnect
  <2> QED BY <1>1, <1>2, <2>1, StartConnectFits
<1>3. CASE ~(~Canceled(Head(events).id) /\ st = "stopped")
  <2>1. Settled /\ todo # <<>>
    BY <1>1, RunEvent, TopFits DEF FrameFits
  <2>2. Settled' /\ Then(<<Release>>)
    BY <1>3, <2>1 DEF Settled, RunReconnect
  <2> QED BY <2>1, <2>2, ReleasedFits
<1> QED BY <1>2, <1>3

LEMMA RunSendFits == ASSUME ClientInv, ClientInv', FitInv, RunSend PROVE FitInv'
<1>1. Settled /\ OpFree(op)
  BY RunEvent, TopFits DEF FrameFits, RunSend
<1>2. op \in OpRecord /\ ioq \in Seq(Handler)
  BY DEF ClientInv, TypeOK, OpRecord
<1>3. CASE sockOpen
  <2>1. op' = [op EXCEPT !.write = @ + 1] /\ UNCHANGED <<st, sockOpen, ctimer>>
    BY <1>3 DEF RunSend, timers
  <2>2. op'.dial = "none" /\ op'.close = "no" /\ op'.write = 1 /\ op'.read = op.read
    BY <1>1, <1>2, <2>1 DEF OpFree, OpRecord
  <2>3. Settled'
    BY <1>1, <2>1, <2>2 DEF Settled
  <2> QED BY <2>2, <2>3, OpFitsAll DEF OpFits, OpFree
<1>4. CASE ~sockOpen
  <2>1. PICK x \in Handler : x = [h |-> "written", ok |-> FALSE]
    BY MakeHandler
  <2>2. ioq' = Append(ioq, x) /\ x.h = "written" /\ UNCHANGED <<st, sockOpen, ctimer, op>>
    BY <1>4, <2>1 DEF RunSend, timers
  <2>3. ~NoneOf(ioq', {x})
    BY <1>2, <2>2, PutMark
  <2>4. HandlerFits(x)'
    BY <1>1, <2>2 DEF HandlerFits, Settled
  <2> QED BY <2>2, <2>3, <2>4, HandlerFitsAll DEF HoldingHandler
<1> QED BY <1>3, <1>4

LEMMA RunStopFits == ASSUME ClientInv, ClientInv', FitInv, RunStop PROVE FitInv'
<1> DEFINE by == Head(events).by
<1>1. Settled /\ todo # <<>> /\ by \in Caller
  BY RunEvent, TopFits, EventKinds DEF FrameFits, RunStop
<1>2. /\ DisconnectInPlace(by, <<[f |-> "stopReturns", by |-> by]>>, <<>>)
      /\ UNCHANGED <<sockOpen, ctimer, op>>
  BY DEF RunStop
<1>3. st \in State
  BY DEF ClientInv, TypeOK
<1>4. CASE Connected
  <2>1. PICK x \in Frame : x = Disconnecting(by)
    BY <1>1, <1>3, MakeFrame DEF Disconnecting
  <2>2. Then(<<x>> \o <<>>) /\ st' = "stopping" /\ x.f = "disconnect" /\ x.old = st
    BY <1>2, <1>4, <2>1 DEF DisconnectInPlace, Disconnecting
  <2>3. Then(<<x>>) /\ x.old = "started"
    BY <1>1, <1>4, <2>2, NoFrame, OnlyFrame DEF Settled, Connected
  <2>4. FrameFits(x)'
    BY <2>2, <2>3 DEF FrameFits
  <2> QED BY <1>1, <2>2, <2>3, <2>4, OnlyFrame, Placed, FrameFitsAll DEF HoldingFrame
<1>5. CASE ~Connected
  <2>1. PICK x \in Frame : x = [f |-> "stopReturns", by |-> by]
    BY <1>1, MakeFrame
  <2>2. Then(<<x>> \o <<>>) /\ st' = st /\ x.f = "stopReturns"
    BY <1>2, <1>5, <2>1 DEF DisconnectInPlace
  <2>3. Then(<<x>>)
    BY <2>2, NoFrame, OnlyFrame
  <2>4. FrameFits(x)'
    BY <1>1, <1>2, <2>2 DEF FrameFits, Settled
  <2> QED BY <1>1, <2>2, <2>3, <2>4, OnlyFrame, Placed, FrameFitsAll DEF HoldingFrame
<1> QED BY <1>4, <1>5

LEMMA SetStopPromiseFits == ASSUME ClientInv, ClientInv', FitInv, SetStopPromise PROVE FitInv'
<1>1. todo # <<>> /\ Settled
  BY TopFits DEF SetStopPromise, Top, FrameFits, HoldingFrame
<1>2. /\ UNCHANGED <<st, sockOpen, op>> /\ Then(<<Release>>)
      /\ ctimer' = [ctimer EXCEPT !.waiting = FALSE, !.canceled = TRUE]
  BY DEF SetStopPromise, CancelConnectTimer
<1>3. ctimer'.canceled
  BY <1>2 DEF ClientInv, TypeOK
<1>4. Settled'
  BY <1>1, <1>2, <1>3 DEF Settled
<1> QED BY <1>1, <1>2, <1>4, ReleasedFits

LEMMA RunDisconnectFits ==
  ASSUME ClientInv, ClientInv', FitInv, RunDisconnect, st = "stopping", Head(events).old = "started"
  PROVE  FitInv'
<1>1. todo # <<>> /\ st' = st /\ Then(<<[f |-> "disconnect", old |-> Head(events).old, by |-> "none"]>>)
  BY RunEvent DEF RunDisconnect
<1>2. PICK x \in Frame : x = [f |-> "disconnect", old |-> "started", by |-> "none"]
  BY MakeFrame DEF State
<1>3. Then(<<x>>) /\ x.f = "disconnect" /\ x.old = "started"
  BY <1>1, <1>2
<1>4. FrameFits(x)'
  BY <1>1, <1>3 DEF FrameFits
<1> QED BY <1>1, <1>3, <1>4, OnlyFrame, Placed, FrameFitsAll DEF HoldingFrame

\* A handler of the dial goes on to the end of it.
LEMMA DoneFits ==
  ASSUME ClientInv, ClientInv', NEW ec \in Failure \cup {"ok"}, Done(ec), Dialling', ec = "ok" => (sockOpen \/ TimedOut)'
  PROVE  FitInv'
<1>1. PICK x \in Frame : x = [f |-> "done", ec |-> ec]
  BY MakeFrame
<1>2. todo' = <<x>> /\ x.f = "done" /\ x.ec = ec
  BY <1>1 DEF Done
<1>3. FrameFits(x)'
  BY <1>2 DEF FrameFits
<1> QED BY <1>2, <1>3, OnlyFrame, FrameFitsAll DEF HoldingFrame

LEMMA PostConnectFits ==
  ASSUME ClientInv, ClientInv', NEW n \in Nat, NEW ec \in Failure, PostConnect(n, ec) \/ (n = 1 /\ PostConnect(n, "ok")),
         Dialling, OpFree(op), UNCHANGED <<st, chain, events>>
  PROVE  FitInv'
<1>1. op \in OpRecord /\ Endpoints \in Nat \ {0}
  BY ClientAssumption DEF ClientInv, TypeOK, OpRecord
<1>2. CASE n > Endpoints
  <2>1. Done(ec) /\ op' = op /\ ec \in Failure \cup {"ok"} /\ ec # "ok"
    BY <1>1, <1>2 DEF PostConnect, Failure
  <2>2. Dialling'
    BY <2>1 DEF Dialling
  <2> QED BY <2>1, <2>2, DoneFits
<1>3. CASE ~(n > Endpoints)
  <2>1. op' = [op EXCEPT !.dial = "connect", !.ep = n] /\ sockOpen' = TRUE
    BY <1>3 DEF PostConnect
  <2>2. op'.dial = "connect" /\ op'.read = op.read /\ op'.write = 0 /\ op'.close = "no"
    BY <1>1, <2>1 DEF OpRecord, OpFree
  <2>3. Dialling'
    BY <2>2 DEF Dialling
  <2> QED BY <2>1, <2>2, <2>3, OpFitsAll DEF OpFits, OpFree
<1> QED BY <1>2, <1>3

LEMMA HandleResolvedFits == ASSUME ClientInv, ClientInv', FitInv, HandleResolved PROVE FitInv'
<1>1. Dialling /\ OpFree(op)
  BY FirstFits DEF HandleResolved, Ready, HandlerFits, HoldingHandler
<1>2. UNCHANGED <<st, chain, events>>
  BY DEF HandleResolved
<1>3. Head(ioq).ec \in Failure \cup {"ok"}
  BY FirstHandler, HandlerKinds DEF HandleResolved, Ready
<1>4. CASE PostConnect(1, "ok")
  BY <1>1, <1>2, <1>4, PostConnectFits DEF Failure
<1>5. ASSUME NEW ec \in Failure, Done(ec), op' = op PROVE FitInv'
  <2>1. Dialling' /\ ec # "ok"
    BY <1>1, <1>2, <1>5 DEF Dialling, Failure
  <2> QED BY <1>5, <2>1, DoneFits
<1> QED BY <1>3, <1>4, <1>5 DEF HandleResolved, Failure

LEMMA PostUpgradeFits ==
  ASSUME ClientInv, ClientInv', Ready("connected"), PostUpgrade, Dialling, OpFree(op),
         UNCHANGED <<st, chain, events>>
  PROVE  FitInv'
<1>1. op \in OpRecord /\ ioq # <<>> /\ Tail(ioq) \in Seq(Handler)
  BY FirstHandler DEF ClientInv, TypeOK, OpRecord, Ready
<1>2. CASE sockOpen
  <2>1. op' = [op EXCEPT !.dial = "upgrade"] /\ sockOpen'
    BY <1>2 DEF PostUpgrade
  <2>2. op'.dial = "upgrade" /\ op'.read = op.read /\ op'.write = 0 /\ op'.close = "no"
    BY <1>1, <2>1 DEF OpRecord, OpFree
  <2>3. Dialling'
    BY <2>2 DEF Dialling
  <2> QED BY <2>1, <2>2, <2>3, OpFitsAll DEF OpFits, OpFree
<1>3. CASE ~sockOpen
  <2>1. PICK x \in Handler : x = [h |-> "upgraded", ec |-> "aborted"]
    BY MakeHandler DEF Failure
  <2>2. ioq' = Append(Tail(ioq), x) /\ x.h = "upgraded" /\ x.ec = "aborted" /\ op' = op
    BY <1>3, <2>1 DEF PostUpgrade
  <2>3. ~NoneOf(ioq', {x})
    BY <1>1, <2>2, PutMark
  <2>4. HandlerFits(x)'
    BY <2>2 DEF HandlerFits, Dialling
  <2> QED BY <2>2, <2>3, <2>4, HandlerFitsAll DEF HoldingHandler
<1> QED BY <1>2, <1>3

LEMMA HandleConnectedFits == ASSUME ClientInv, ClientInv', FitInv, HandleConnected PROVE FitInv'
<1> DEFINE ec == Head(ioq).ec
<1>1. Dialling /\ OpFree(op) /\ (ec = "ok" => sockOpen \/ TimedOut)
  BY FirstFits DEF HandleConnected, Ready, HandlerFits, HoldingHandler
<1>2. UNCHANGED <<st, chain, events, ctimer>>
  BY DEF HandleConnected, timers
<1>3. ec \in Failure \cup {"ok"} /\ op.ep + 1 \in Nat
  <2>1. op.ep \in 1..Endpoints /\ Endpoints \in Nat
    BY ClientAssumption DEF ClientInv, TypeOK
  <2>2. ioq # <<>> /\ Head(ioq).h = "connected"
    BY DEF HandleConnected, Ready
  <2> QED BY <2>1, <2>2, FirstHandler, HandlerKinds
<1>4. CASE PostConnect(op.ep + 1, "refused")
  BY <1>1, <1>2, <1>3, <1>4, PostConnectFits DEF Failure
<1>5. CASE PostUpgrade
  BY <1>1, <1>2, <1>5, PostUpgradeFits DEF HandleConnected
<1>6. CASE Done(ec) /\ UNCHANGED <<op, sockOpen>>
  <2>1. Dialling' /\ (ec = "ok" => (sockOpen \/ TimedOut)')
    BY <1>1, <1>2, <1>6 DEF Dialling, TimedOut
  <2> QED BY <1>3, <1>6, <2>1, DoneFits
<1> QED BY <1>4, <1>5, <1>6 DEF HandleConnected

LEMMA HandleUpgradedFits == ASSUME ClientInv, ClientInv', FitInv, HandleUpgraded PROVE FitInv'
<1> DEFINE ec == Head(ioq).ec
<1>1. Dialling /\ (ec = "ok" => sockOpen \/ TimedOut)
  BY FirstFits DEF HandleUpgraded, Ready, HandlerFits, HoldingHandler
<1>2. ec \in Failure \cup {"ok"}
  BY FirstHandler, HandlerKinds DEF HandleUpgraded, Ready
<1>3. Dialling' /\ (ec = "ok" => (sockOpen \/ TimedOut)') /\ Done(ec)
  BY <1>1 DEF HandleUpgraded, Dialling, TimedOut, timers
<1> QED BY <1>2, <1>3, DoneFits

LEMMA DoneConnectFits == ASSUME ClientInv, ClientInv', FitInv, DoneConnect PROVE FitInv'
<1>1. todo # <<>> /\ Head(todo).f = "done" /\ Head(todo).ec \in Failure \cup {"ok"}
  BY TopFrame, FrameKinds DEF DoneConnect, Top
<1>2. Dialling /\ (Head(todo).ec = "ok" => sockOpen \/ TimedOut)
  BY <1>1, TopFits DEF FrameFits, HoldingFrame
<1>3. PICK ec \in Failure \cup {"ok"} :
          /\ Then(<<[f |-> "notifyConnect", ec |-> ec], [f |-> "afterConnect", ec |-> ec]>>)
          /\ ec = "ok" => sockOpen
          /\ st' = IF ec = "ok" THEN "started" ELSE st
  BY <1>1, <1>2 DEF DoneConnect, Failure, TimedOut
<1>4. UNCHANGED <<sockOpen, op, chain, events>>
  BY DEF DoneConnect
<1>5. PICK y \in Frame : y = [f |-> "notifyConnect", ec |-> ec]
  BY MakeFrame
<1>6. PICK x \in Frame : x = [f |-> "afterConnect", ec |-> ec]
  BY MakeFrame
<1>7. x.f = "afterConnect" /\ x.ec = ec /\ Then(<<y>> \o <<x>>)
  <2>1. <<y>> \o <<x>> = <<y, x>>
    BY Pair
  <2> QED BY <1>3, <1>5, <1>6, <2>1
<1>8. FrameFits(x)'
  BY <1>2, <1>3, <1>4, <1>7 DEF FrameFits, Dialling
<1>9. ~NoneOf(todo', {x})
  BY <1>1, <1>7, OnlyFrame, LastFrame, Placed
<1> QED BY <1>7, <1>8, <1>9, FrameFitsAll DEF HoldingFrame

LEMMA NotifyConnectFits == ASSUME ClientInv, FitInv, Stacked(todo), NotifyConnect PROVE FitInv'
<1>1. todo # <<>> /\ Head(todo).f = "notifyConnect" /\ Then(<<>>) /\ UNCHANGED <<st, sockOpen, chain, ctimer, op, ioq>>
  BY DEF NotifyConnect, Top, timers
<1>2. todo \in Seq(Frame) /\ events \in Seq(Event)
  BY DEF ClientInv, TypeOK
<1>3. todo' = Tail(todo) /\ NoneOf(todo', Misfits)
  BY <1>1, <1>2, TopFrame, NoFrame, FirstMark DEF Then, FitInv
<1>4. events # <<>>
  <2>1. Tail(todo) # <<>> /\ Head(Tail(todo)).f = "afterConnect"
    BY <1>1, <1>2, FollowedTail DEF ClientInv
  <2>2. Tail(todo) \in Seq(Frame) /\ Head(Tail(todo)) \in GuardFrame
    BY <1>1, <2>1, TopFrame, FirstMark DEF GuardFrame, HoldingFrame
  <2>3. ~NoneOf(Tail(todo), GuardFrame)
    BY <2>1, <2>2, FirstMark
  <2> QED BY <1>1, <2>3, TopFrame DEF Guarded, Unheld, HoldingFrame
<1>5. Head(events') = Head(events) /\ events' # <<>>
  BY <1>2, <1>4 DEF NotifyConnect
<1>6. TimedOut => TimedOut'
  BY <1>1 DEF TimedOut
<1> QED BY <1>1, <1>3, <1>5, <1>6, FitsKept DEF FitInv

LEMMA AfterConnectFits == ASSUME ClientInv, ClientInv', FitInv, AfterConnect PROVE FitInv'
<1>1. todo # <<>> /\ Head(todo).f = "afterConnect"
      /\ (IF Head(todo).ec = "ok" THEN st = "started" /\ sockOpen ELSE Dialling)
      /\ events # <<>>
  BY TopFits DEF AfterConnect, Top, FrameFits, HoldingFrame
<1>2. /\ ctimer' = [ctimer EXCEPT !.waiting = FALSE, !.canceled = TRUE]
      /\ UNCHANGED <<sockOpen, chain, events>>
  BY DEF AfterConnect, CancelConnectTimer
<1>3. ctimer'.canceled /\ TypeOK /\ st \in State
  BY <1>2 DEF ClientInv, TypeOK
<1>4. CASE Head(todo).ec = "ok"
  <2>1. Then(ChainReturns("ok") \o <<Release>>) /\ st' = "started" /\ sockOpen'
    BY <1>1, <1>2, <1>4 DEF AfterConnect
  <2>2. Settled'
    BY <1>3, <2>1 DEF Settled
  <2> QED BY <1>1, <1>3, <2>1, <2>2, ChainReturnsFrames, ReleaseFits
<1>5. CASE Head(todo).ec # "ok"
  <2>1. Dialling /\ DisconnectInPlace("none", <<Release>>, ChainReturns("failed"))
    BY <1>1, <1>5 DEF AfterConnect
  <2>2. PICK x \in Frame : x = Disconnecting("none")
    BY <1>3, MakeFrame DEF Disconnecting
  <2>3. Then(<<x>> \o ChainReturns("failed")) /\ st' = "stopping" /\ x.f = "disconnect" /\ x.old = st
    BY <2>1, <2>2 DEF DisconnectInPlace, Disconnecting, Dialling, Connected
  <2>4. FrameFits(x)'
    BY <1>2, <2>1, <2>3 DEF FrameFits, Dialling
  <2>5. ChainReturns("failed") \in Seq(Frame) /\ <<x>> \in Seq(Frame) /\ ~NoneOf(<<x>>, {x})
    BY <1>3, ChainReturnsFrames, OnlyFrame
  <2> DEFINE one == <<x>>
             two == ChainReturns("failed")
             fs  == one \o two
  <2>6. fs \in Seq(Frame) /\ ~NoneOf(fs, {x})
    <3>1. one \in Seq(Frame) /\ two \in Seq(Frame) /\ ~NoneOf(one, {x})
      BY <2>5
    <3> HIDE DEF one, two
    <3> QED BY <3>1, ConcatMarks
  <2>7. Then(fs)
    BY <2>3
  <2> HIDE DEF fs
  <2> QED BY <1>1, <2>3, <2>4, <2>6, <2>7, Placed, FrameFitsAll DEF HoldingFrame
<1> QED BY <1>4, <1>5

LEMMA SetStartPromiseFits == ASSUME ClientInv, FitInv, SetStartPromise PROVE FitInv'
<1>1. todo # <<>> /\ Then(<<>>) /\ UNCHANGED <<st, sockOpen, chain, ctimer, op, ioq, events>>
  BY DEF SetStartPromise, Top, timers
<1>2. todo' = Tail(todo) /\ todo \in Seq(Frame)
  BY <1>1, TopFrame, NoFrame DEF Then, ClientInv, TypeOK
<1>3. NoneOf(todo', Misfits) /\ (TimedOut => TimedOut')
  BY <1>1, <1>2, FirstMark DEF FitInv, TimedOut
<1> QED BY <1>1, <1>3, FitsKept DEF FitInv

LEMMA DisconnectFits == ASSUME ClientInv, ClientInv', FitInv, Disconnect PROVE FitInv'
<1>1. todo # <<>> /\ Head(todo).f = "disconnect" /\ Head(todo).by \in Caller \cup {"none"}
  BY TopFrame, FrameKinds DEF Disconnect, Top
<1>2. st = "stopping" /\ OpFree(op)
  BY <1>1, TopFits DEF FrameFits, HoldingFrame
<1>3. st' = "stopped"
  BY <1>2 DEF Disconnect
<1>4. CASE op.ws
  <2>1. op' = [op EXCEPT !.close = Head(todo).by] /\ op \in OpRecord
    BY <1>4 DEF Disconnect, ClientInv, TypeOK, OpRecord
  <2>2. op'.close # "no" /\ op'.dial = "none" /\ op'.write = 0
    BY <1>1, <1>2, <2>1 DEF OpRecord, OpFree, Caller
  <2> QED BY <1>3, <2>2, OpFitsAll DEF OpFits, OpFree
<1>5. CASE ~op.ws
  <2>1. PICK x \in Frame : x = [f |-> "disconnected", by |-> Head(todo).by]
    BY <1>1, MakeFrame
  <2>2. Then(<<x>>) /\ x.f = "disconnected"
    BY <1>5, <2>1 DEF Disconnect
  <2>3. FrameFits(x)'
    BY <1>3, <2>2 DEF FrameFits
  <2> QED BY <1>1, <2>2, <2>3, OnlyFrame, Placed, FrameFitsAll DEF HoldingFrame
<1> QED BY <1>4, <1>5

LEMMA HandleClosedFits == ASSUME ClientInv, ClientInv', FitInv, HandleClosed PROVE FitInv'
<1>1. ioq # <<>> /\ Head(ioq).h = "closed"
  BY DEF HandleClosed, Ready
<1>2. st = "stopped" /\ Head(ioq).by \in Caller \cup {"none"}
  BY <1>1, FirstFits, FirstHandler, HandlerKinds DEF HandlerFits, HoldingHandler
<1>3. PICK x \in Frame : x = [f |-> "disconnected", by |-> Head(ioq).by]
  BY <1>2, MakeFrame
<1>4. todo' = <<x>> /\ x.f = "disconnected" /\ st' = "stopped"
  BY <1>2, <1>3 DEF HandleClosed
<1>5. FrameFits(x)'
  BY <1>4 DEF FrameFits
<1> QED BY <1>4, <1>5, OnlyFrame, FrameFitsAll DEF HoldingFrame

LEMMA HandleDisconnectFits == ASSUME ClientInv, ClientInv', FitInv, HandleDisconnect PROVE FitInv'
<1>1. todo # <<>> /\ Head(todo).f = "disconnected" /\ Head(todo).by \in Caller \cup {"none"}
  BY TopFrame, FrameKinds DEF HandleDisconnect, Top
<1>2. st = "stopped" /\ st' = st /\ sockOpen' = FALSE /\ op' = Aborted
  BY <1>1, TopFits DEF FrameFits, HoldingFrame, HandleDisconnect
<1>3. op'.read = 0
  BY <1>2 DEF Aborted, ClientInv, TypeOK
<1>4. Settled'
  BY <1>2, <1>3 DEF Settled
<1>5. CASE Head(todo).by = "none"
  BY <1>1, <1>4, <1>5, ReleasedFits DEF HandleDisconnect
<1>6. CASE Head(todo).by # "none"
  <2>1. PICK x \in Frame : x = [f |-> "stopReturns", by |-> Head(todo).by]
    BY <1>1, <1>6, MakeFrame
  <2>2. Then(<<x>>) /\ x.f = "stopReturns"
    BY <1>6, <2>1 DEF HandleDisconnect
  <2>3. FrameFits(x)'
    BY <1>4, <2>2 DEF FrameFits
  <2> QED BY <1>1, <2>2, <2>3, OnlyFrame, Placed, FrameFitsAll DEF HoldingFrame
<1> QED BY <1>5, <1>6

\* The handlers of what was aborted.
LEMMA AbortedWriteIsThere ==
  ASSUME TypeOK, op.write # 0, NEW x, x = [h |-> "written", ok |-> FALSE] PROVE ~NoneOf(AbortedWrites, {x})
<1>1. op.write \in Nat
  BY DEF TypeOK
<1>2. Len(AbortedWrites) = op.write
  BY <1>1, MakeHandler, Repeated DEF AbortedWrites
<1>3. 1 \in 1..Len(AbortedWrites) /\ AbortedWrites[1] = x
  BY <1>1, <1>2 DEF AbortedWrites
<1> QED BY <1>3 DEF NoneOf

LEMMA AbortedFit ==
  ASSUME TypeOK, op.write = 0
  PROVE  NoneOf(AbortedReads, GuardHandler) /\ NoneOf(AbortedWrites, GuardHandler)
  BY AbortedHandlers

LEMMA HandleDisconnectTimerFits == ASSUME ClientInv, ClientInv', FitInv, HandleDisconnectTimer PROVE FitInv'
<1>1. /\ ioq # <<>> /\ Head(ioq).h = "dtimer"
      /\ UNCHANGED <<st, sockOpen, chain, ctimer, events, todo>>
      /\ \/ ioq' = Tail(ioq) /\ op' = op
         \/ ioq' = Tail(ioq) \o AbortedReads \o AbortedWrites /\ op' = Aborted
  BY DEF HandleDisconnectTimer, Ready, Handled, timers
<1>2. ioq \in Seq(Handler) /\ Tail(ioq) \in Seq(Handler) /\ NoneOf(Tail(ioq), HandlerMisfits) /\ TypeOK
  BY <1>1, FirstMark DEF ClientInv, TypeOK, FitInv
<1>3. AbortedReads \in Seq(Handler) /\ AbortedWrites \in Seq(Handler)
  BY <1>2, AbortedHandlers
<1> DEFINE q == Tail(ioq) \o AbortedReads
           r == q \o AbortedWrites
<1>4. q \in Seq(Handler)
  BY <1>2, <1>3
<1>5. /\ op'.dial = op.dial /\ op'.close = op.close /\ (op.read = 0 => op'.read = 0) /\ (op.write = 0 => op'.write = 0)
      /\ TimedOut => TimedOut'
  BY <1>1, <1>2, AbortedOp DEF TimedOut
<1>6. CASE ioq' = Tail(ioq)
  BY <1>1, <1>2, <1>5, <1>6, FitsKept DEF FitInv
<1>7. CASE ioq' = r /\ op.write = 0
  <2>1. HandlerMisfits \subseteq GuardHandler
    BY DEF HandlerMisfits
  <2>2. NoneOf(AbortedReads, HandlerMisfits) /\ NoneOf(AbortedWrites, HandlerMisfits)
    BY <1>2, <1>7, <2>1, AbortedFit, FewerMarks
  <2>3. NoneOf(q, HandlerMisfits)
    BY <1>2, <1>3, <2>2, ConcatMarks
  <2> HIDE DEF q
  <2>4. NoneOf(ioq', HandlerMisfits)
    BY <1>3, <1>4, <1>7, <2>2, <2>3, ConcatMarks
  <2> QED BY <1>1, <1>5, <2>4, FitsKept DEF FitInv
<1>8. CASE ioq' = r /\ op.write # 0
  <2>1. Settled
    BY <1>8 DEF FitInv, OpFits
  <2>2. Settled'
    BY <1>1, <1>5, <2>1 DEF Settled
  <2>3. PICK x \in Handler : x = [h |-> "written", ok |-> FALSE]
    BY MakeHandler
  <2>4. ~NoneOf(AbortedWrites, {x})
    BY <1>2, <1>8, <2>3, AbortedWriteIsThere
  <2> HIDE DEF q
  <2>5. ~NoneOf(ioq', {x})
    BY <1>3, <1>4, <1>8, <2>4, ConcatMarks
  <2>6. x.h = "written"
    BY <2>3
  <2>7. HandlerFits(x)'
    BY <2>2, <2>6 DEF HandlerFits
  <2> QED BY <2>5, <2>6, <2>7, HandlerFitsAll DEF HoldingHandler
<1> QED BY <1>1, <1>6, <1>7, <1>8

LEMMA CloseSocketFits ==
  ASSUME ClientInv, ClientInv', FitInv, Ready("ctimer"), CloseSocket, TimedOut', ~ctimer.canceled,
         UNCHANGED <<st, chain, events, todo>>
  PROVE  FitInv'
<1>1. TypeOK /\ op \in OpRecord /\ ioq \in Seq(Handler) /\ ioq # <<>> /\ todo' = <<>>
  BY DEF ClientInv, TypeOK, OpRecord, Ready
<1>2. Tail(ioq) \in Seq(Handler) /\ NoneOf(Tail(ioq), HandlerMisfits)
  BY <1>1, FirstMark DEF FitInv
<1>3. /\ op'.read = 0 /\ op'.write = 0 /\ op'.close = op.close /\ sockOpen' = FALSE
      /\ op'.dial = IF op.dial \in {"connect", "upgrade"} THEN "none" ELSE op.dial
  BY <1>1 DEF CloseSocket, Aborted, OpRecord
<1>4. (Settled => Settled') /\ (Dialling => Dialling')
  BY <1>3 DEF Settled, Dialling
<1> DEFINE R == AbortedReads
           D == AbortedDial
           W == AbortedWrites
<1>5. R \in Seq(Handler) /\ D \in Seq(Handler) /\ W \in Seq(Handler)
  BY <1>1, AbortedHandlers
<1>6. ioq' = Tail(ioq) \o R \o D \o W
  BY DEF CloseSocket
<1> DEFINE q == Tail(ioq) \o R
           r == q \o D
<1>7. q \in Seq(Handler) /\ r \in Seq(Handler)
  BY <1>2, <1>5
<1>8. ASSUME NEW x \in Handler, ~NoneOf(D, {x}) \/ ~NoneOf(W, {x}) PROVE ~NoneOf(ioq', {x})
  <2> HIDE DEF R, D, W
  <2>1. ~NoneOf(D, {x}) => ~NoneOf(r, {x})
    <3> HIDE DEF q
    <3> QED BY <1>5, <1>7, ConcatMarks
  <2> HIDE DEF r
  <2>2. ioq' = r \o W
    BY <1>6 DEF r
  <2> QED BY <1>5, <1>7, <1>8, <2>1, <2>2, ConcatMarks
<1>9. CASE op.dial \in {"connect", "upgrade"}
  <2>1. PICK x \in Handler : x = IF op.dial = "connect" THEN [h |-> "connected", ec |-> "aborted"]
                                 ELSE [h |-> "upgraded", ec |-> "aborted"]
    BY MakeHandler DEF Failure
  <2>2. x.h \in {"connected", "upgraded"} /\ x.ec = "aborted" /\ D = <<x>>
    BY <1>9, <2>1 DEF AbortedDial
  <2>3. ~NoneOf(D, {x})
    BY <2>2, SingleMarks
  <2>4. Dialling'
    BY <1>4, <1>9 DEF FitInv, OpFits
  <2>5. HandlerFits(x)'
    BY <2>2, <2>4 DEF HandlerFits
  <2> QED BY <1>8, <2>2, <2>3, <2>5, HandlerFitsAll DEF HoldingHandler
<1>10. CASE op.write # 0
  <2>1. PICK x \in Handler : x = [h |-> "written", ok |-> FALSE]
    BY MakeHandler
  <2>2. ~NoneOf(W, {x})
    BY <1>1, <1>10, <2>1, AbortedWriteIsThere
  <2>3. Settled' /\ x.h = "written"
    BY <1>4, <1>10, <2>1 DEF FitInv, OpFits
  <2>4. HandlerFits(x)'
    BY <2>3 DEF HandlerFits
  <2> QED BY <1>8, <2>2, <2>3, <2>4, HandlerFitsAll DEF HoldingHandler
<1>11. CASE op.dial \notin {"connect", "upgrade"} /\ op.write = 0
  <2>1. ASSUME NEW hd \in Handler, HandlerFits(hd) PROVE HandlerFits(hd)'
    BY <1>4, <2>1 DEF HandlerFits
  <2>2. HandlerMisfits' \subseteq HandlerMisfits /\ HandlerMisfits \subseteq GuardHandler
    BY <2>1 DEF HandlerMisfits, GuardHandler
  <2>3. NoneOf(R, GuardHandler) /\ NoneOf(D, GuardHandler) /\ NoneOf(W, GuardHandler)
    BY <1>1, <1>11, AbortedHandlers
  <2> HIDE DEF R, D, W
  <2>4. NoneOf(R, HandlerMisfits) /\ NoneOf(D, HandlerMisfits) /\ NoneOf(W, HandlerMisfits)
    BY <2>2, <2>3, FewerMarks
  <2>5. NoneOf(q, HandlerMisfits)
    BY <1>2, <1>5, <2>4, ConcatMarks
  <2>6. NoneOf(r, HandlerMisfits)
    <3> HIDE DEF q
    <3> QED BY <1>5, <1>7, <2>4, <2>5, ConcatMarks
  <2> HIDE DEF r
  <2>7. NoneOf(ioq', HandlerMisfits)
    <3>1. ioq' = r \o W
      BY <1>6 DEF r
    <3> QED BY <1>5, <1>7, <2>4, <2>6, <3>1, ConcatMarks
  <2>8. NoneOf(ioq', HandlerMisfits') /\ NoneOf(todo', Misfits')
    BY <1>1, <2>2, <2>7, FewerMarks, EmptyMarks
  <2>9. OpFits'
    BY <1>3, <1>4, <1>11 DEF FitInv, OpFits
  <2> QED BY <1>4, <2>8, <2>9 DEF FitInv
<1> QED BY <1>9, <1>10, <1>11

LEMMA HandleConnectTimerFits == ASSUME ClientInv, ClientInv', FitInv, HandleConnectTimer PROVE FitInv'
<1>1. ioq # <<>> /\ Ready("ctimer") /\ UNCHANGED <<st, chain, events, todo>>
  BY DEF HandleConnectTimer, Ready
<1>2. CASE CloseSocket /\ ~ctimer.canceled /\ TimedOut'
  BY <1>1, <1>2, CloseSocketFits
<1>3. CASE /\ ioq' = Tail(ioq) /\ UNCHANGED <<sockOpen, op>>
           /\ TimedOut => TimedOut'
           /\ ctimer.canceled => ctimer'.canceled
  <2>1. NoneOf(ioq', HandlerMisfits)
    BY <1>1, <1>3, FirstMark DEF ClientInv, TypeOK, FitInv
  <2> QED BY <1>1, <1>3, <2>1, FitsKept DEF FitInv
<1>4. ctimer \in [id : Nat, waiting : BOOLEAN, canceled : BOOLEAN]
  BY DEF ClientInv, TypeOK, Attempt
<1>5. CASE Head(ioq).id # ctimer.id
  BY <1>3, <1>5 DEF HandleConnectTimer, Handled, TimedOut
<1>6. CASE Head(ioq).id = ctimer.id
  <2>1. ctimer'.id = 0 /\ ctimer'.canceled = ctimer.canceled
    BY <1>4, <1>6 DEF HandleConnectTimer
  <2> QED BY <1>2, <1>3, <1>6, <2>1 DEF HandleConnectTimer, Handled, TimedOut
<1> QED BY <1>5, <1>6

LEMMA HandleReconnectTimerFits == ASSUME ClientInv, ClientInv', FitInv, HandleReconnectTimer PROVE FitInv'
<1>1. ioq # <<>> /\ Head(ioq).h = "rtimer" /\ ioq' = Tail(ioq) /\ UNCHANGED <<st, sockOpen, chain, ctimer, op>>
  BY DEF HandleReconnectTimer, Ready, Handled
<1>2. NoneOf(ioq', HandlerMisfits) /\ NoneOf(<<>>, Misfits) /\ <<>> \in Seq(Frame) /\ Head(ioq).id \in Nat
  <2>1. ioq \in Seq(Handler)
    BY DEF ClientInv, TypeOK
  <2> QED BY <1>1, <2>1, FirstHandler, HandlerKinds, FirstMark, EmptyMarks, NoFrame DEF FitInv
<1>3. CASE Push([e |-> "reconnect", id |-> Head(ioq).id], <<>>)
  <2>1. PICK ev \in Event : ev = [e |-> "reconnect", id |-> Head(ioq).id]
    BY <1>2, MakeEvent
  <2> QED BY <1>1, <1>2, <1>3, <2>1, PushFits
<1>4. CASE UNCHANGED <<events, todo>>
  <2>1. TimedOut => TimedOut'
    BY <1>1 DEF TimedOut
  <2> QED BY <1>1, <1>2, <1>4, <2>1, FitsKept DEF FitInv
<1> QED BY <1>3, <1>4 DEF HandleReconnectTimer

LEMMA HandleWrittenFits == ASSUME ClientInv, ClientInv', FitInv, HandleWritten PROVE FitInv'
<1>1. ioq # <<>> /\ Head(ioq).h = "written" /\ todo = <<>> /\ UNCHANGED <<sockOpen, ctimer, op>>
  BY DEF HandleWritten, Ready
<1>2. Settled /\ events # <<>>
  BY <1>1, FirstFits DEF HandlerFits, HoldingHandler
<1>3. PICK x \in Frame : x = Release
  BY MakeFrame DEF Release
<1>4. todo' = <<x>> /\ (st' = "stopping" \/ st' = st)
  <2>1. <<>> \o <<x>> = <<x>>
    BY NoFrame, OnlyFrame
  <2> QED BY <1>2, <1>3, <2>1 DEF HandleWritten, DisconnectQueued, Push
<1>5. Settled'
  BY <1>1, <1>2, <1>4 DEF Settled
<1>6. FrameFits(x)' /\ x.f = "release"
  BY <1>3, <1>5 DEF FrameFits, Release
<1> QED BY <1>4, <1>6, OnlyFrame, FrameFitsAll DEF HoldingFrame

LEMMA HandleReadFits == ASSUME ClientInv, ClientInv', FitInv, HandleRead \/ HandleControl PROVE FitInv'
<1>1. ioq # <<>> /\ Head(ioq).h \in {"read", "control"} /\ ioq' = Tail(ioq) /\ todo = <<>> /\ UNCHANGED <<sockOpen, chain, ctimer, op>>
  BY DEF HandleRead, HandleControl, Ready, Handled, timers
<1>2. NoneOf(ioq', HandlerMisfits)
  <2>1. ioq \in Seq(Handler)
    BY DEF ClientInv, TypeOK
  <2> QED BY <1>1, <2>1, FirstMark DEF FitInv
<1>3. TimedOut => TimedOut'
  BY <1>1 DEF TimedOut
<1>4. CASE UNCHANGED <<st, events>> /\ (todo' = todo \/ todo' = <<[f |-> "recv"], [f |-> "postRecv"]>>)
  <2>1. NoneOf(todo', GuardFrame)
    BY <1>1, <1>4, ReceivingFrames, EmptyMarks
  <2>2. NoneOf(todo', Misfits)
    BY <2>1, FewerMarks DEF Misfits
  <2> QED BY <1>1, <1>2, <1>3, <1>4, <2>2, FitsKept DEF FitInv
<1>5. CASE st = "started" /\ DisconnectQueued(<<>>)
  <2>1. st' = "stopping" /\ Push([e |-> "disconnect", old |-> st], <<>>)
    BY <1>5 DEF DisconnectQueued, Connected
  <2>2. Settled'
    BY <2>1 DEF Settled
  <2>3. CASE events = <<>>
    <3>1. PICK x \in Frame : x = Run
      BY MakeFrame DEF Run
    <3>2. todo' = <<x>> /\ x.f = "run"
      <4>1. <<x>> \o <<>> = <<x>>
        BY NoFrame, OnlyFrame
      <4> QED BY <2>1, <2>3, <3>1, <4>1 DEF Push, Run
    <3>3. FrameFits(x)'
      BY <2>2, <3>2 DEF FrameFits
    <3> QED BY <3>2, <3>3, OnlyFrame, FrameFitsAll DEF HoldingFrame
  <2>4. CASE events # <<>>
    <3>1. todo' = <<>> /\ events' # <<>>
      <4>1. events \in Seq(Event) /\ events' = Append(events, [e |-> "disconnect", old |-> st])
        BY <2>1 DEF ClientInv, TypeOK, Push
      <4>2. [e |-> "disconnect", old |-> st] \in Event
        BY <1>5, MakeEvent DEF State
      <4> QED BY <2>1, <2>4, <4>1, <4>2, NoFrame DEF Push
    <3>2. ASSUME NEW hd \in Handler, HandlerFits(hd), hd.h \in HoldingHandler PROVE HandlerFits(hd)'
      BY <1>5, <2>2, <3>2 DEF HandlerFits, Dialling
    <3>3. HandlerMisfits' \subseteq HandlerMisfits
      BY <3>2 DEF HandlerMisfits, GuardHandler
    <3>4. NoneOf(ioq', HandlerMisfits') /\ NoneOf(todo', Misfits')
      BY <1>2, <3>1, <3>3, FewerMarks, EmptyMarks
    <3>5. OpFits'
      BY <1>1, <1>5, <2>2 DEF FitInv, OpFits, Dialling
    <3> QED BY <3>1, <3>4, <3>5 DEF FitInv
  <2> QED BY <2>3, <2>4
<1> QED BY <1>4, <1>5 DEF HandleRead, HandleControl

LEMMA CallbackFits == ASSUME ClientInv, ClientInv', FitInv, Recv \/ StartInCallback PROVE FitInv'
<1>1. todo # <<>> /\ UNCHANGED <<st, sockOpen, chain, ctimer, op, ioq>>
  BY DEF Recv, StartInCallback, Top, timers
<1>2. todo \in Seq(Frame) /\ Tail(todo) \in Seq(Frame) /\ NoneOf(todo, Misfits) /\ NoneOf(Tail(todo), Misfits)
      /\ NoneOf(ioq', HandlerMisfits)
  <2>1. todo \in Seq(Frame) /\ NoneOf(todo, Misfits) /\ NoneOf(ioq, HandlerMisfits)
    BY DEF ClientInv, TypeOK, FitInv
  <2> QED BY <1>1, <2>1, FirstMark
<1>3. CASE Recv
  <2>1. CASE Push([e |-> "stop", by |-> "io"], Tail(todo))
    <3>1. [e |-> "stop", by |-> "io"] \in Event
      BY MakeEvent DEF Caller
    <3> QED BY <1>1, <1>2, <2>1, <3>1, PushFits
  <2>2. CASE Then(<<>>) /\ UNCHANGED events
    <3>1. todo' = Tail(todo) /\ (TimedOut => TimedOut')
      BY <1>1, <1>2, <2>2, NoFrame DEF Then, TimedOut
    <3> QED BY <1>1, <1>2, <2>2, <3>1, FitsKept DEF FitInv
  <2> QED BY <1>3, <2>1, <2>2 DEF Recv
<1>4. CASE StartInCallback
  <2>1. starts + 1 \in 1..MaxStarts
    BY <1>4, ClientAssumption DEF StartInCallback, ClientInv, TypeOK
  <2>2. [e |-> "connect", by |-> "io", to |-> starts + 1] \in Event
    BY <2>1, MakeEvent DEF Caller
  <2>3. Push([e |-> "connect", by |-> "io", to |-> starts + 1], todo)
    BY <1>4 DEF StartInCallback
  <2> QED BY <1>1, <1>2, <2>2, <2>3, PushFits
<1> QED BY <1>3, <1>4

LEMMA PostRecvFits == ASSUME ClientInv, ClientInv', FitInv, PostRecv PROVE FitInv'
<1>1. todo # <<>> /\ UNCHANGED <<sockOpen, chain, ctimer, ioq>>
  BY DEF PostRecv, Top
<1>2. st = "started" => sockOpen
  BY StartedIsOpen
<1>3. todo \in Seq(Frame) /\ NoneOf(todo, Misfits) /\ op \in OpRecord
  BY DEF ClientInv, TypeOK, FitInv, OpRecord
<1>4. Then(<<>>) /\ UNCHANGED <<st, events>> /\ (op' = op \/ (st = "started" /\ PostRead))
  BY <1>2 DEF PostRecv, IsStarted
<1>5. todo' = Tail(todo) /\ NoneOf(todo', Misfits) /\ (TimedOut => TimedOut')
  BY <1>1, <1>3, <1>4, FirstMark, NoFrame DEF Then, TimedOut
<1>6. /\ op'.dial = op.dial /\ op'.write = op.write /\ op'.close = op.close
      /\ op.read = 0 /\ st # "started" => op'.read = 0
  BY <1>3, <1>4 DEF PostRead, OpRecord
<1> QED BY <1>1, <1>4, <1>5, <1>6, FitsKept DEF FitInv

LEMMA OtherThreadsFit ==
  ASSUME ClientInv, ClientInv', FitInv,
         GameThread \/ Calls \/ Clock \/ UNCHANGED vars
  PROVE  FitInv'
<1>1. /\ UNCHANGED <<st, sockOpen, chain, events, todo, op>>
      /\ ctimer'.id = ctimer.id /\ ctimer'.canceled = ctimer.canceled
  <2>1. ctimer \in [id : Nat, waiting : BOOLEAN, canceled : BOOLEAN]
    BY DEF ClientInv, TypeOK, Attempt
  <2>2. CASE ConnectTimerExpires
    BY <2>1, <2>2 DEF ConnectTimerExpires
  <2>3. CASE GameThread \/ Calls \/ ReconnectDelayExpires \/ DisconnectTick \/ UNCHANGED vars
    BY <2>3 DEF GameThread, Calls, StartReturned, StopPool, StopReturned, Start, Stop, ReconnectDelayExpires,
       DisconnectTick, io, quiet, vars, timers
  <2> QED BY <2>2, <2>3 DEF Clock
<1>2. TimedOut => TimedOut'
  BY <1>1 DEF TimedOut
<1>3. NoneOf(ioq', HandlerMisfits)
  <2>1. ioq \in Seq(Handler) /\ NoneOf(ioq, HandlerMisfits)
    BY DEF ClientInv, TypeOK, FitInv
  <2>2. ASSUME NEW hd \in Handler, hd.h \notin HoldingHandler, ioq' = Append(ioq, hd) PROVE NoneOf(ioq', HandlerMisfits)
    <3>1. hd \notin HandlerMisfits
      BY <2>2 DEF HandlerMisfits, GuardHandler
    <3> QED BY <2>1, <2>2, <3>1, PutMark
  <2>3. CASE ioq' = ioq
    BY <2>1, <2>3
  <2>4. CASE ConnectTimerExpires
    <3>1. PICK hd \in Handler : hd = [h |-> "ctimer", id |-> ctimer.id, expired |-> TRUE]
      BY MakeHandler DEF ClientInv, TypeOK, Attempt
    <3> QED BY <2>2, <2>4, <3>1 DEF ConnectTimerExpires, Complete, HoldingHandler
  <2>5. CASE ReconnectDelayExpires
    <3>1. PICK hd \in Handler : hd = [h |-> "rtimer", id |-> rtimer.id, expired |-> TRUE]
      BY MakeHandler DEF ClientInv, TypeOK, Attempt
    <3> QED BY <2>2, <2>5, <3>1 DEF ReconnectDelayExpires, Complete, HoldingHandler
  <2>6. CASE DisconnectTick
    <3>1. PICK hd \in Handler : hd = [h |-> "dtimer", id |-> dtimer]
      BY MakeHandler DEF ClientInv, TypeOK, Attempt
    <3> QED BY <2>2, <2>6, <3>1 DEF DisconnectTick, Complete, HoldingHandler
  <2>7. CASE Start
    <3>1. starts + 1 \in 1..MaxStarts
      BY <2>7, ClientAssumption DEF Start, ClientInv, TypeOK
    <3>2. [e |-> "connect", by |-> "game", to |-> starts + 1] \in Event
      BY <3>1, MakeEvent DEF Caller
    <3>3. PICK hd \in Handler : hd = [h |-> "push", ev |-> [e |-> "connect", by |-> "game", to |-> starts + 1]]
      BY <3>2, MakeHandler
    <3> QED BY <2>2, <2>7, <3>3 DEF Start, Posted, HoldingHandler
  <2>8. CASE Stop
    <3>1. [e |-> "stop", by |-> "game"] \in Event
      BY MakeEvent DEF Caller
    <3>2. PICK hd \in Handler : hd = [h |-> "push", ev |-> [e |-> "stop", by |-> "game"]]
      BY <3>1, MakeHandler
    <3> QED BY <2>2, <2>8, <3>2 DEF Stop, Posted, HoldingHandler
  <2>9. CASE GameThread \/ UNCHANGED vars
    BY <2>3, <2>9 DEF GameThread, StartReturned, StopPool, StopReturned, vars
  <2> QED BY <2>4, <2>5, <2>6, <2>7, <2>8, <2>9 DEF Calls, Clock
<1> QED BY <1>1, <1>2, <1>3, FitsKept DEF FitInv

LEMMA NetworkFits == ASSUME ClientInv, ClientInv', FitInv, Network PROVE FitInv'
<1>1. op \in OpRecord /\ ioq \in Seq(Handler) /\ NoneOf(ioq, HandlerMisfits) /\ TypeOK
  BY DEF ClientInv, TypeOK, OpRecord, FitInv
<1>2. UNCHANGED <<st, sockOpen, chain, events, todo, ctimer>>
  BY DEF Network, NetResolve, NetConnect, NetUpgrade, NetWrite, NetRead, NetClose, NetCloseFrame, quiet, io, timers
<1>3. ASSUME NEW x \in Handler, x.h \in HoldingHandler, ioq' = Append(ioq, x), HandlerFits(x)' PROVE FitInv'
  BY <1>1, <1>3, PutMark, HandlerFitsAll
<1>4. CASE NetResolve \/ NetConnect \/ NetUpgrade
  <2>1. /\ op.dial # "none" /\ (NetConnect \/ NetUpgrade => op.dial \in {"connect", "upgrade"})
        /\ op'.read = op.read
    BY <1>1, <1>4 DEF NetResolve, NetConnect, NetUpgrade, OpRecord
  <2>2. Dialling /\ (NetConnect \/ NetUpgrade => sockOpen)
    BY <2>1 DEF FitInv, OpFits
  <2>3. PICK h \in {"resolved", "connected", "upgraded"}, ec \in {"ok", "refused"} :
            ioq' = Append(ioq, [h |-> h, ec |-> ec]) /\ (h # "resolved" => NetConnect \/ NetUpgrade)
    BY <1>4 DEF NetResolve, NetConnect, NetUpgrade, Complete
  <2>4. PICK x \in Handler : x = [h |-> h, ec |-> ec]
    BY MakeHandler DEF Failure
  <2>5. x.h = h /\ ioq' = Append(ioq, x)
    BY <2>3, <2>4
  <2>6. HandlerFits(x)'
    BY <1>2, <2>1, <2>2, <2>3, <2>5 DEF HandlerFits, Dialling
  <2> QED BY <1>3, <2>5, <2>6 DEF HoldingHandler
<1>5. CASE NetWrite
  <2>1. PICK ok \in BOOLEAN : ioq' = Append(ioq, [h |-> "written", ok |-> ok])
    BY <1>5 DEF NetWrite, Complete
  <2>2. PICK x \in Handler : x = [h |-> "written", ok |-> ok]
    BY MakeHandler
  <2>3. x.h = "written" /\ ioq' = Append(ioq, x)
    BY <2>1, <2>2
  <2>4. Settled /\ op'.read = op.read
    BY <1>1, <1>5 DEF NetWrite, FitInv, OpFits, OpRecord
  <2>5. HandlerFits(x)'
    BY <1>2, <2>3, <2>4 DEF HandlerFits, Settled
  <2> QED BY <1>3, <2>3, <2>5 DEF HoldingHandler
<1>6. CASE NetRead
  <2>1. PICK ok \in BOOLEAN : ioq' = Append(ioq, [h |-> "read", ok |-> ok, on |-> op.on])
    BY <1>6 DEF NetRead, Complete
  <2>2. PICK hd \in Handler : hd = [h |-> "read", ok |-> ok, on |-> op.on]
    BY <1>1, MakeHandler DEF OpRecord, Attempt
  <2>3. hd \notin HandlerMisfits
    BY <2>2 DEF HandlerMisfits, GuardHandler, HoldingHandler
  <2>4. NoneOf(ioq', HandlerMisfits)
    BY <1>1, <2>1, <2>2, <2>3, PutMark
  <2>5. op.read # 0 /\ op'.dial = op.dial /\ op'.write = op.write /\ op'.close = op.close
    BY <1>1, <1>6 DEF NetRead, OpRecord
  <2>6. TimedOut => TimedOut'
    BY <1>2 DEF TimedOut
  <2> QED BY <1>2, <2>4, <2>5, <2>6, FitsKept DEF FitInv
<1>7. CASE NetClose
  <2>1. op.close # "no" /\ ioq' = ioq \o AbortedReads \o <<[h |-> "closed", by |-> op.close]>>
    BY <1>7 DEF NetClose
  <2>2. st = "stopped"
    BY <2>1 DEF FitInv, OpFits
  <2>3. PICK x \in Handler : x = [h |-> "closed", by |-> op.close]
    BY <1>1, <2>1, MakeHandler DEF OpRecord
  <2> DEFINE q == ioq \o AbortedReads
             t == <<x>>
  <2>4. q \in Seq(Handler) /\ t \in Seq(Handler) /\ ioq' = q \o t /\ x.h = "closed"
    BY <1>1, <2>1, <2>3, AbortedHandlers
  <2>5. ~NoneOf(t, {x})
    BY SingleMarks
  <2> HIDE DEF q, t
  <2>6. ~NoneOf(ioq', {x})
    BY <2>4, <2>5, ConcatMarks
  <2>7. HandlerFits(x)'
    BY <1>2, <2>2, <2>4 DEF HandlerFits
  <2> QED BY <2>4, <2>6, <2>7, HandlerFitsAll DEF HoldingHandler
<1>8. CASE NetCloseFrame
  <2>1. PICK hd \in Handler : hd = [h |-> "control"]
    BY MakeHandler
  <2>2. ioq' = Append(ioq, hd) /\ op' = op
    BY <1>8, <2>1 DEF NetCloseFrame, Complete, io
  <2>3. hd \notin HandlerMisfits
    BY <2>1 DEF HandlerMisfits, GuardHandler, HoldingHandler
  <2>4. NoneOf(ioq', HandlerMisfits)
    BY <1>1, <2>2, <2>3, PutMark
  <2>5. TimedOut => TimedOut'
    BY <1>2 DEF TimedOut
  <2> QED BY <1>2, <2>2, <2>4, <2>5, FitsKept DEF FitInv
<1> QED BY <1>4, <1>5, <1>6, <1>7, <1>8 DEF Network

----------------------------------------------------------------------------
(* What a step leaves on the stack. *)

Passed(by) ==
    \/ by = "none"
    \/ RunStop /\ by = Head(events).by
    \/ todo # <<>> /\ Head(todo).f \in {"disconnect", "disconnected"} /\ by = Head(todo).by
    \/ HandleClosed /\ by = Head(ioq).by

Put(fr) ==
    /\ fr.f = "done" => HandleResolved \/ HandleConnected \/ HandleUpgraded
    /\ fr.f \in {"notifyConnect", "afterConnect"} => DoneConnect /\ (fr.ec = "ok" => st' = "started")
    /\ fr.f = "disconnect" =>
        \/ RunDisconnect /\ fr.old = Head(events).old
        \/ (RunStop \/ AfterConnect) /\ Connected /\ fr.old = st
    /\ fr.f \in {"recv", "postRecv"} => HandleRead /\ IsStarted /\ Head(ioq).ok
    /\ fr.f = "startReturns" =>
        (RunConnect /\ fr.by = Head(events).by) \/ (AfterConnect /\ fr.by = chain)
    /\ fr.f \in {"disconnect", "disconnected", "stopReturns"} => Passed(fr.by)

Unput == {fr \in Frame : ~Put(fr)}

Restacked ==
    \E gs \in Seq(Frame) :
        /\ NoneOf(gs, Unput)
        /\ \/ todo' = gs \o todo
           \/ todo # <<>> /\ todo' = gs \o Tail(todo)

LEMMA PutOne == ASSUME NEW fr \in Frame, Put(fr) PROVE <<fr>> \in Seq(Frame) /\ NoneOf(<<fr>>, Unput)
  BY SingleMarks DEF Unput

LEMMA PutPlain ==
  /\ <<>> \in Seq(Frame) /\ NoneOf(<<>>, Unput)
  /\ <<Run>> \in Seq(Frame) /\ NoneOf(<<Run>>, Unput)
  /\ <<Release>> \in Seq(Frame) /\ NoneOf(<<Release>>, Unput)
<1>1. ASSUME NEW fr \in Frame, fr.f \in {"run", "release"}
      PROVE  <<fr>> \in Seq(Frame) /\ NoneOf(<<fr>>, Unput)
  <2>1. Put(fr)
    BY <1>1 DEF Put
  <2> QED BY <2>1, PutOne
<1>2. Run \in Frame /\ Release \in Frame /\ Run.f = "run" /\ Release.f = "release"
  BY MakeFrame DEF Run, Release
<1> QED BY <1>1, <1>2, EmptyMarks

LEMMA PutReturns ==
  ASSUME TypeOK, NEW v \in {"ok", "failed", "already_started"}
  PROVE  /\ \A by \in Caller : RunConnect /\ by = Head(events).by =>
                /\ StartReturns(by, v) \o <<Release>> \in Seq(Frame)
                /\ NoneOf(StartReturns(by, v) \o <<Release>>, Unput)
         /\ AfterConnect =>
                /\ ChainReturns(v) \in Seq(Frame) /\ NoneOf(ChainReturns(v), Unput)
                /\ ChainReturns(v) \o <<Release>> \in Seq(Frame) /\ NoneOf(ChainReturns(v) \o <<Release>>, Unput)
<1>1. ASSUME NEW by \in Caller, (RunConnect /\ by = Head(events).by) \/ (AfterConnect /\ by = chain)
      PROVE  StartReturns(by, v) \in Seq(Frame) /\ NoneOf(StartReturns(by, v), Unput)
  <2> DEFINE fr == [f |-> "startReturns", by |-> by, value |-> v]
  <2>1. fr \in Frame
    BY MakeFrame
  <2>2. Put(fr)
    BY <1>1 DEF Put
  <2>3. StartReturns(by, v) = <<fr>>
    BY DEF StartReturns
  <2> HIDE DEF fr
  <2> QED BY <2>1, <2>2, <2>3, PutOne
<1>2. AfterConnect => ChainReturns(v) \in Seq(Frame) /\ NoneOf(ChainReturns(v), Unput)
  BY <1>1, PutPlain DEF ChainReturns, TypeOK
<1>3. ASSUME NEW s \in Seq(Frame), NoneOf(s, Unput)
      PROVE  s \o <<Release>> \in Seq(Frame) /\ NoneOf(s \o <<Release>>, Unput)
  <2> DEFINE t == <<Release>>
  <2>1. t \in Seq(Frame) /\ NoneOf(t, Unput)
    BY PutPlain
  <2> HIDE DEF t
  <2>2. s \o t \in Seq(Frame) /\ NoneOf(s \o t, Unput)
    BY <1>3, <2>1, ConcatMarks
  <2> QED BY <2>2 DEF t
<1> QED BY <1>1, <1>2, <1>3

LEMMA PutThen ==
  ASSUME todo # <<>>, NEW gs \in Seq(Frame), NoneOf(gs, Unput), Then(gs) PROVE Restacked
  BY DEF Restacked, Then

LEMMA StackAssociates ==
  ASSUME NEW a \in Seq(Frame), NEW b \in Seq(Frame), NEW c \in Seq(Frame)
  PROVE  a \o (b \o c) = (a \o b) \o c
  BY ConcatAssociative

\* An event pushed puts at most a run on the stack.
LEMMA PutPush ==
  ASSUME ClientInv, NEW ev, NEW gs \in Seq(Frame), NoneOf(gs, Unput), NEW s \in Seq(Frame), NEW fs, fs = gs \o s,
         Push(ev, fs), s = todo \/ (todo # <<>> /\ s = Tail(todo))
  PROVE  Restacked
<1> DEFINE rs == IF events = <<>> THEN <<Run>> ELSE <<>>
<1>1. rs \in Seq(Frame) /\ NoneOf(rs, Unput)
  BY PutPlain
<1>2. todo' = rs \o fs
  BY DEF Push
<1> HIDE DEF rs
<1>3. rs \o gs \in Seq(Frame) /\ NoneOf(rs \o gs, Unput)
  BY <1>1, ConcatMarks
<1>4. rs \o (gs \o s) = (rs \o gs) \o s
  BY <1>1, StackAssociates
<1>5. todo' = (rs \o gs) \o s
  BY <1>2, <1>4
<1> QED BY <1>3, <1>5 DEF Restacked

LEMMA PutQueued ==
  ASSUME ClientInv, NEW gs \in Seq(Frame), NoneOf(gs, Unput), NEW s \in Seq(Frame), NEW fs, fs = gs \o s,
         DisconnectQueued(fs), s = todo \/ (todo # <<>> /\ s = Tail(todo))
  PROVE  Restacked
<1>1. \/ Push([e |-> "disconnect", old |-> st], fs)
      \/ todo' = fs
  BY DEF DisconnectQueued
<1> QED BY <1>1, PutPush DEF Restacked

LEMMA PutInPlace ==
  ASSUME ClientInv, todo # <<>>, RunStop \/ AfterConnect,
         NEW by \in Caller \cup {"none"}, NEW otherwise \in Seq(Frame), NEW fs \in Seq(Frame),
         NoneOf(otherwise, Unput), NoneOf(fs, Unput), DisconnectInPlace(by, otherwise, fs), Passed(by)
  PROVE  Restacked
<1> DEFINE gs == IF Connected THEN <<Disconnecting(by)>> ELSE otherwise
<1>1. /\ Disconnecting(by) \in Frame /\ Disconnecting(by).f = "disconnect" /\ Disconnecting(by).old = st
      /\ Disconnecting(by).by = by
  BY MakeFrame DEF Disconnecting, ClientInv, TypeOK
<1>2. Connected => Put(Disconnecting(by))
  BY <1>1 DEF Put
<1>3. gs \in Seq(Frame) /\ NoneOf(gs, Unput)
  BY <1>1, <1>2, PutOne
<1>4. Then(gs \o fs)
  BY DEF DisconnectInPlace
<1> HIDE DEF gs
<1>5. gs \o fs \in Seq(Frame) /\ NoneOf(gs \o fs, Unput)
  BY <1>3, ConcatMarks
<1> QED BY <1>4, <1>5, PutThen

LEMMA FramesPut == ASSUME ClientInv, [Next]_vars PROVE Restacked
<1>1. TypeOK /\ todo \in Seq(Frame)
  BY DEF ClientInv, TypeOK
<1>2. ASSUME todo' = todo PROVE Restacked
  BY <1>1, <1>2, PutPlain, NoFrame DEF Restacked
<1>3. ASSUME NEW gs \in Seq(Frame), NoneOf(gs, Unput), todo = <<>>, todo' = gs PROVE Restacked
  <2>1. gs = gs \o todo
    BY <1>3, NoFrame
  <2> QED BY <1>3, <2>1 DEF Restacked
<1>4. ASSUME NEW h, Ready(h) PROVE ioq # <<>> /\ Head(ioq) \in Handler /\ todo = <<>> /\ todo \in Seq(Frame)
  BY <1>1, <1>4, FirstHandler DEF Ready
<1>5. ASSUME NEW h, Ready(h), NEW ev, Push(ev, <<>>) PROVE Restacked
  BY <1>4, <1>5, PutPlain, NoFrame, PutPush
<1>6. ASSUME NEW h, Ready(h), DisconnectQueued(<<>>) \/ DisconnectQueued(<<Release>>) PROVE Restacked
  BY <1>4, <1>6, PutPlain, NoFrame, PutQueued
<1>7. CASE HandlePush
  BY <1>5, <1>7 DEF HandlePush
<1>8. CASE NextEvent \/ SetStartPromise \/ SetStopPromise
  <2>1. PICK fs \in {<<>>, <<Run>>, <<Release>>} : Then(fs)
    BY <1>8 DEF NextEvent, SetStartPromise, SetStopPromise
  <2>2. todo # <<>>
    BY <1>8 DEF NextEvent, SetStartPromise, SetStopPromise, Top
  <2> QED BY <2>1, <2>2, PutPlain, PutThen
<1>9. CASE RunConnect \/ RunReconnect \/ RunSend \/ RunDisconnect
  <2>1. todo # <<>> /\ events # <<>> /\ Head(events) \in Event
    BY <1>9, RunEvent DEF RunConnect, RunReconnect, RunSend, RunDisconnect
  <2>2. CASE RunConnect
    <3>1. Head(events).by \in Caller
      BY <2>1, <2>2, RunEvent, EventKinds DEF RunConnect
    <3>2. Then(<<>>) \/ Then(StartReturns(Head(events).by, "already_started") \o <<Release>>)
      BY <2>2 DEF RunConnect, StartConnect
    <3> QED BY <1>1, <2>1, <2>2, <3>1, <3>2, PutPlain, PutReturns, PutThen
  <2>3. CASE RunReconnect
    BY <2>1, <2>3, PutPlain, PutThen DEF RunReconnect, StartConnect
  <2>4. CASE RunSend
    BY <2>1, <2>4, PutPlain, PutThen DEF RunSend
  <2>5. CASE RunDisconnect
    <3> DEFINE fr == [f |-> "disconnect", old |-> Head(events).old, by |-> "none"]
    <3>1. Head(events).old \in State
      BY <2>1, <2>5, RunEvent, EventKinds DEF RunDisconnect
    <3>2. fr \in Frame /\ Then(<<fr>>)
      BY <2>5, <3>1, MakeFrame DEF RunDisconnect
    <3>3. Put(fr)
      BY <2>5 DEF Put, Passed
    <3> HIDE DEF fr
    <3> QED BY <2>1, <3>2, <3>3, PutOne, PutThen
  <2> QED BY <1>9, <2>2, <2>3, <2>4, <2>5
<1>10. CASE RunStop
  <2> DEFINE by == Head(events).by
             fr == [f |-> "stopReturns", by |-> by]
  <2>1. todo # <<>> /\ by \in Caller
    BY <1>10, RunEvent, EventKinds DEF RunStop
  <2>2. Passed(by) /\ fr \in Frame /\ Put(fr)
    BY <1>10, <2>1, MakeFrame DEF Put, Passed
  <2>3. DisconnectInPlace(by, <<fr>>, <<>>)
    BY <1>10 DEF RunStop
  <2> HIDE DEF fr, by
  <2>4. <<fr>> \in Seq(Frame) /\ NoneOf(<<fr>>, Unput)
    BY <2>2, PutOne
  <2> QED BY <1>10, <2>1, <2>2, <2>3, <2>4, PutPlain, PutInPlace
<1>11. CASE Disconnect
  <2> DEFINE fr == [f |-> "disconnected", by |-> Head(todo).by]
  <2>1. todo # <<>> /\ Head(todo).f = "disconnect" /\ Head(todo).by \in Caller \cup {"none"}
    BY <1>11, TopFrame, FrameKinds DEF Disconnect, Top
  <2>2. fr \in Frame /\ Put(fr)
    BY <2>1, MakeFrame DEF Put, Passed
  <2>3. Then(<<>>) \/ Then(<<fr>>)
    BY <1>11 DEF Disconnect
  <2> HIDE DEF fr
  <2> QED BY <2>1, <2>2, <2>3, PutPlain, PutOne, PutThen
<1>12. CASE HandleClosed
  <2> DEFINE fr == [f |-> "disconnected", by |-> Head(ioq).by]
  <2>1. Head(ioq).by \in Caller \cup {"none"}
    BY <1>4, <1>12, HandlerKinds DEF HandleClosed, Ready
  <2>2. fr \in Frame /\ todo' = <<fr>> /\ todo = <<>>
    BY <1>12, <2>1, MakeFrame DEF HandleClosed, Ready
  <2>3. Put(fr)
    BY <1>12 DEF Put, Passed
  <2> HIDE DEF fr
  <2> QED BY <1>3, <2>2, <2>3, PutOne
<1>13. CASE HandleDisconnect
  <2> DEFINE fr == [f |-> "stopReturns", by |-> Head(todo).by]
  <2>1. todo # <<>> /\ Head(todo).f = "disconnected" /\ Head(todo).by \in Caller \cup {"none"}
    BY <1>13, TopFrame, FrameKinds DEF HandleDisconnect, Top
  <2>2. CASE Head(todo).by = "none"
    <3>1. Then(<<Release>>)
      BY <1>13, <2>2 DEF HandleDisconnect
    <3> QED BY <2>1, <3>1, PutPlain, PutThen
  <2>3. CASE Head(todo).by # "none"
    <3>1. fr \in Frame /\ Then(<<fr>>)
      BY <1>13, <2>1, <2>3, MakeFrame DEF HandleDisconnect
    <3>2. Put(fr)
      BY <2>1 DEF Put, Passed
    <3> HIDE DEF fr
    <3> QED BY <2>1, <3>1, <3>2, PutOne, PutThen
  <2> QED BY <2>2, <2>3
<1>14. CASE HandleResolved \/ HandleConnected \/ HandleUpgraded
  <2>1. todo = <<>> /\ Head(ioq).ec \in Failure \cup {"ok"}
    BY <1>4, <1>14, HandlerKinds DEF HandleResolved, HandleConnected, HandleUpgraded, Ready
  <2>2. \/ \E ec \in Failure \cup {"ok"} : todo' = <<[f |-> "done", ec |-> ec]>>
        \/ todo' = <<>>
    BY <1>14, <2>1 DEF HandleResolved, HandleConnected, HandleUpgraded, PostConnect, PostUpgrade, Done, Failure
  <2>3. ASSUME NEW ec \in Failure \cup {"ok"}, todo' = <<[f |-> "done", ec |-> ec]>> PROVE Restacked
    <3> DEFINE fr == [f |-> "done", ec |-> ec]
    <3>1. fr \in Frame
      BY MakeFrame
    <3>2. Put(fr)
      BY <1>14 DEF Put
    <3>3. todo' = <<fr>>
      BY <2>3
    <3> HIDE DEF fr
    <3> QED BY <1>3, <2>1, <3>1, <3>2, <3>3, PutOne
  <2> QED BY <1>3, <2>1, <2>2, <2>3, PutPlain
<1>15. CASE DoneConnect
  <2>1. todo # <<>> /\ Head(todo).ec \in Failure \cup {"ok"}
    BY <1>15, TopFrame, FrameKinds DEF DoneConnect, Top
  <2>2. PICK ec \in Failure \cup {"ok"} :
          /\ Then(<<[f |-> "notifyConnect", ec |-> ec], [f |-> "afterConnect", ec |-> ec]>>)
          /\ ec = "ok" => st' = "started"
    BY <1>15, <2>1 DEF DoneConnect, Failure
  <2> DEFINE n == [f |-> "notifyConnect", ec |-> ec]
             a == [f |-> "afterConnect", ec |-> ec]
  <2>3. n \in Frame /\ a \in Frame
    BY MakeFrame
  <2>4. Put(n) /\ Put(a)
    BY <1>15, <2>2 DEF Put
  <2>5. Then(<<n, a>>)
    BY <2>2
  <2> HIDE DEF n, a
  <2>6. <<n>> \o <<a>> = <<n, a>>
    BY <2>3, Pair
  <2>7. <<n>> \in Seq(Frame) /\ <<a>> \in Seq(Frame) /\ NoneOf(<<n>>, Unput) /\ NoneOf(<<a>>, Unput)
    BY <2>3, <2>4, PutOne
  <2>8. <<n>> \o <<a>> \in Seq(Frame) /\ NoneOf(<<n>> \o <<a>>, Unput)
    <3>1. <<n>> \o <<a>> \in Seq(Frame)
      BY <2>7, ConcatProperties
    <3> QED BY <2>7, <3>1, ConcatMarks
  <2> QED BY <2>1, <2>5, <2>6, <2>8, PutThen
<1>16. CASE NotifyConnect
  <2>1. todo # <<>> /\ Then(<<>>)
    BY <1>16 DEF NotifyConnect, Top
  <2> QED BY <2>1, PutPlain, PutThen
<1>17. CASE AfterConnect
  <2>1. todo # <<>>
    BY <1>17 DEF AfterConnect, Top
  <2>2. CASE Then(ChainReturns("ok") \o <<Release>>)
    BY <1>1, <1>17, <2>1, <2>2, PutReturns, PutThen
  <2>3. CASE DisconnectInPlace("none", <<Release>>, ChainReturns("failed"))
    <3>1. Passed("none")
      BY DEF Passed
    <3> QED BY <1>1, <1>17, <2>1, <2>3, <3>1, PutReturns, PutPlain, PutInPlace
  <2> QED BY <1>17, <2>2, <2>3 DEF AfterConnect
<1>18. CASE HandleReconnectTimer
  <2>1. todo' = todo \/ \E ev : Push(ev, <<>>)
    BY <1>18 DEF HandleReconnectTimer
  <2> QED BY <1>2, <1>5, <1>18, <2>1 DEF HandleReconnectTimer
<1>19. CASE HandleWritten
  <2>1. Ready("written") /\ (DisconnectQueued(<<Release>>) \/ todo' = <<Release>>)
    BY <1>19 DEF HandleWritten
  <2> QED BY <1>3, <1>4, <1>6, <2>1, PutPlain
<1>20. CASE HandleRead
  <2>1. CASE todo' = <<[f |-> "recv"], [f |-> "postRecv"]>> /\ IsStarted /\ Head(ioq).ok
    <3> DEFINE n == [f |-> "recv"]
               a == [f |-> "postRecv"]
    <3>1. n \in Frame /\ a \in Frame /\ n.f = "recv"
      BY MakeFrame
    <3>2. Put(n) /\ Put(a)
      BY <1>20, <2>1 DEF Put
    <3>3. todo' = <<n, a>>
      BY <2>1
    <3> HIDE DEF n, a
    <3>4. <<n>> \o <<a>> = <<n, a>>
      BY <3>1, Pair
    <3>5. <<n>> \in Seq(Frame) /\ <<a>> \in Seq(Frame) /\ NoneOf(<<n>>, Unput) /\ NoneOf(<<a>>, Unput)
      BY <3>1, <3>2, PutOne
    <3>6. <<n>> \o <<a>> \in Seq(Frame) /\ NoneOf(<<n>> \o <<a>>, Unput)
      <4>1. <<n>> \o <<a>> \in Seq(Frame)
        BY <3>5, ConcatProperties
      <4> QED BY <3>5, <4>1, ConcatMarks
    <3> QED BY <1>3, <1>4, <1>20, <3>3, <3>4, <3>6 DEF HandleRead
  <2> QED BY <1>2, <1>6, <1>20, <2>1 DEF HandleRead
<1>21. CASE Recv \/ StartInCallback \/ PostRecv
  <2>1. todo # <<>>
    BY <1>21 DEF Recv, StartInCallback, PostRecv, Top
  <2>2. /\ Tail(todo) \in Seq(Frame) /\ <<>> \in Seq(Frame) /\ NoneOf(<<>>, Unput)
        /\ Tail(todo) = <<>> \o Tail(todo) /\ todo = <<>> \o todo
    BY <1>1, <2>1, TopFrame, NoFrame, PutPlain
  <2>3. CASE Recv
    <3>1. \/ Push([e |-> "stop", by |-> "io"], Tail(todo))
          \/ Then(<<>>)
      BY <2>3 DEF Recv
    <3> QED BY <2>1, <2>2, <3>1, PutPush, PutThen
  <2>4. CASE StartInCallback
    BY <1>1, <2>2, <2>4, PutPush DEF StartInCallback
  <2>5. CASE PostRecv
    <3>1. Then(<<>>) \/ DisconnectQueued(Tail(todo))
      BY <2>5 DEF PostRecv
    <3> QED BY <2>1, <2>2, <3>1, PutQueued, PutThen
  <2> QED BY <1>21, <2>3, <2>4, <2>5
<1>22. CASE HandleDisconnectTimer \/ HandleConnectTimer \/ GameThread \/ Calls \/ Clock \/ Network \/ UNCHANGED vars
  <2>1. todo' = todo
    BY <1>22 DEF HandleDisconnectTimer, HandleConnectTimer, GameThread, Calls, Clock, Network, StartReturned, StopPool,
       StopReturned, Start, Stop, ConnectTimerExpires, ReconnectDelayExpires, DisconnectTick, NetResolve, NetConnect,
       NetUpgrade, NetClose, NetCloseFrame, NetWrite, NetRead, io, quiet, vars
  <2> QED BY <1>2, <2>1
<1>23. CASE HandleControl
  BY <1>2, <1>6, <1>23 DEF HandleControl
<1> QED BY <1>7, <1>8, <1>9, <1>10, <1>11, <1>12, <1>13, <1>14, <1>15, <1>16, <1>17, <1>18, <1>19, <1>20, <1>21, <1>22, <1>23
        DEF Next, IoThread, IoInternal, IoCallback

\* A mark comes with a frame that is put, and goes with the one on top.
LEMMA FramesKept ==
  ASSUME ClientInv, [Next]_vars, NEW H
  PROVE  /\ NoneOf(todo, H) /\ (\A fr \in Frame : Put(fr) => fr \notin H) => NoneOf(todo', H)
         /\ NoneOf(todo', H) => NoneOf(todo, H) \/ (todo # <<>> /\ Head(todo) \in H)
<1>1. todo \in Seq(Frame)
  BY DEF ClientInv, TypeOK
<1>2. PICK gs \in Seq(Frame) : /\ NoneOf(gs, Unput)
                               /\ \/ todo' = gs \o todo
                                  \/ todo # <<>> /\ todo' = gs \o Tail(todo)
  BY FramesPut DEF Restacked
<1>3. ASSUME \A fr \in Frame : Put(fr) => fr \notin H PROVE NoneOf(gs, H)
  <2>1. \A i \in 1..Len(gs) : gs[i] \in Frame
    OBVIOUS
  <2> QED BY <1>2, <1>3, <2>1 DEF NoneOf, Unput
<1>4. todo # <<>> => /\ Tail(todo) \in Seq(Frame)
                     /\ NoneOf(todo, H) <=> Head(todo) \notin H /\ NoneOf(Tail(todo), H)
  BY <1>1, FirstMark
<1>5. \A t \in Seq(Frame) : NoneOf(gs \o t, H) <=> NoneOf(gs, H) /\ NoneOf(t, H)
  BY ConcatMarks
<1>6. CASE todo' = gs \o todo
  BY <1>1, <1>3, <1>5, <1>6
<1>7. CASE todo # <<>> /\ todo' = gs \o Tail(todo)
  BY <1>3, <1>4, <1>5, <1>7
<1> QED BY <1>2, <1>6, <1>7

----------------------------------------------------------------------------
(* Who may act on the frame on top. *)

LEMMA TopActs ==
  ASSUME [Next]_vars, todo # <<>>
  PROVE  /\ Head(todo).f = "run" =>
                \/ RunConnect \/ RunReconnect \/ RunSend \/ RunStop \/ RunDisconnect
                \/ UNCHANGED <<todo, events, st, linked>>
         /\ Head(todo).f = "disconnect" => Disconnect \/ UNCHANGED <<todo, events, st, linked>>
         /\ Head(todo).f = "done" => DoneConnect \/ UNCHANGED <<todo, events, st, linked>>
         /\ Head(todo).f = "notifyConnect" => NotifyConnect \/ UNCHANGED <<todo, events, st, linked>>
         /\ Head(todo).f = "afterConnect" => AfterConnect \/ UNCHANGED <<todo, events, st, linked>>
         /\ Head(todo).f = "postRecv" => PostRecv \/ UNCHANGED <<todo, events, st, linked>>
<1>1. CASE \/ HandlePush \/ HandleResolved \/ HandleConnected \/ HandleUpgraded \/ HandleClosed \/ HandleDisconnectTimer
           \/ HandleConnectTimer \/ HandleReconnectTimer \/ HandleWritten \/ HandleControl \/ HandleRead
  BY <1>1 DEF HandlePush, HandleResolved, HandleConnected, HandleUpgraded, HandleClosed, HandleDisconnectTimer,
     HandleConnectTimer, HandleReconnectTimer, HandleWritten, HandleControl, HandleRead, Ready
<1>2. CASE GameThread \/ Calls \/ Clock \/ Network \/ UNCHANGED vars
  BY <1>2 DEF GameThread, Calls, Clock, Network, StartReturned, StopPool,
     StopReturned, Start, Stop, ConnectTimerExpires, ReconnectDelayExpires, DisconnectTick, NetResolve, NetConnect,
     NetUpgrade, NetClose, NetCloseFrame, NetWrite, NetRead, io, quiet, vars
<1>3. CASE \/ NextEvent \/ RunConnect \/ RunReconnect \/ RunSend \/ RunStop \/ RunDisconnect
           \/ DoneConnect \/ AfterConnect \/ SetStartPromise \/ SetStopPromise \/ Disconnect \/ HandleDisconnect
           \/ PostRecv \/ IoCallback
  BY <1>3 DEF NextEvent, RunConnect, RunReconnect, RunSend, RunStop, RunDisconnect, RunNow,
     DoneConnect, AfterConnect, SetStartPromise, SetStopPromise, Disconnect, HandleDisconnect,
     PostRecv, IoCallback, NotifyConnect, Recv, StartInCallback, Top
<1> QED BY <1>1, <1>2, <1>3 DEF Next, IoThread, IoInternal

----------------------------------------------------------------------------
(* Of a connection that ends one disconnect event waits, and no other does. *)

LEMMA WaitingNow ==
  /\ Waiting(events, todo) = IF Running THEN Tail(events) ELSE events
  /\ Waiting(events', todo') = IF Running' THEN Tail(events') ELSE events'
  BY RunningNow, RunningNext DEF Waiting

LEMMA WaitingStep ==
  ASSUME ClientInv, ClientInv', [Next]_vars
  PROVE  /\ Waiting(events, todo) \in Seq(Event)
         /\ \/ /\ Waiting(events', todo') = Waiting(events, todo)
               /\ events' = events \/ (events # <<>> /\ events' = Tail(events))
            \/ \E ev \in Event : /\ events' = Append(events, ev)
                                 /\ Waiting(events', todo') = Append(Waiting(events, todo), ev)
            \/ /\ events # <<>> /\ Waiting(events, todo) = events
               /\ events' = events /\ Waiting(events', todo') = Tail(events)
               /\ todo # <<>> /\ Head(todo).f = "run" /\ NoRun(todo')
<1>1. events \in Seq(Event) /\ todo \in Seq(Frame)
  BY DEF ClientInv, TypeOK
<1>2. CASE UNCHANGED <<events, Running>>
  BY <1>1, <1>2, WaitingNow DEF Running
<1>3. CASE Serial!Submit
  <2>1. PICK ev \in Event : events' = Append(events, ev)
    BY <1>3 DEF Serial!Submit
  <2>2. Running' = Running
    BY <1>3 DEF Serial!Submit
  <2>3. Running => Tail(Append(events, ev)) = Append(Tail(events), ev)
    <3>1. Running => events # <<>>
      BY DEF Running
    <3> QED BY <1>1, <3>1
  <2> QED BY <1>1, <2>1, <2>2, <2>3, WaitingNow
<1>4. CASE Serial!Begin
  <2>1. events # <<>> /\ ~Running /\ Running' /\ events' = events
    BY <1>4 DEF Serial!Begin
  <2>2. Waiting(events, todo) = events /\ Waiting(events', todo') = Tail(events)
    BY <2>1, WaitingNow
  <2>3. NoRun(todo') /\ ~NoRun(todo)
    BY <2>1, RunningNow, RunningNext
  <2>4. todo # <<>> /\ Head(todo) = Run
    BY <2>3, FramesKept DEF NoRun
  <2> QED BY <1>1, <2>1, <2>2, <2>3, <2>4 DEF Run
<1>5. CASE Serial!Finish
  <2>1. Running /\ ~Running' /\ events' = Tail(events)
    BY <1>5 DEF Serial!Finish
  <2>2. events # <<>>
    BY <2>1 DEF Running
  <2> QED BY <1>1, <2>1, <2>2, WaitingNow
<1> QED BY <1>2, <1>3, <1>4, <1>5, SerialStep DEF Serial!Next, Serial!view

\* An event that is put in the queue while the connection does not end is no end.
LEMMA NotEnding ==
  ASSUME ClientInv, PushInv, [Next]_vars, NEW ev \in Event, events' = Append(events, ev), ev \in Ending
  PROVE  st = "started" /\ st' = "stopping" /\ ev = [e |-> "disconnect", old |-> "started"]
<1>1. ev.e = "disconnect" /\ ev.old = "started" /\ st = "started" /\ st' = "stopping"
  BY QueuedBy DEF Ending, Queued
<1>2. ev = [e |-> "disconnect", old |-> "started"]
  BY <1>1 DEF Event
<1> QED BY <1>1, <1>2

LEMMA WaitingKept ==
  ASSUME ClientInv, ClientInv', PushInv, [Next]_vars, st # "started" \/ st' # "stopping"
  PROVE  /\ NoneOf(Waiting(events, todo), Ending) => NoneOf(Waiting(events', todo'), Ending)
         /\ OneOf(Waiting(events, todo), Ending) /\ ~RunDisconnect => OneOf(Waiting(events', todo'), Ending)
<1> DEFINE w == Waiting(events, todo)
           v == Waiting(events', todo')
<1>1. w \in Seq(Event)
  BY WaitingStep
<1> HIDE DEF w, v
<1>2. CASE v = w
  BY <1>2 DEF w, v
<1>3. ASSUME NEW ev \in Event, events' = Append(events, ev), v = Append(w, ev)
      PROVE  (NoneOf(w, Ending) => NoneOf(v, Ending)) /\ (OneOf(w, Ending) => OneOf(v, Ending))
  BY <1>1, <1>3, NotEnding, PutMark
<1>4. ASSUME events # <<>>, w = events, v = Tail(events), todo # <<>>, Head(todo).f = "run", NoRun(todo')
      PROVE  (NoneOf(w, Ending) => NoneOf(v, Ending)) /\ (OneOf(w, Ending) /\ ~RunDisconnect => OneOf(v, Ending))
  <2>1. /\ NoneOf(w, Ending) => NoneOf(v, Ending)
        /\ OneOf(w, Ending) => IF Head(events) \in Ending THEN NoneOf(v, Ending) ELSE OneOf(v, Ending)
    BY <1>1, <1>4, FirstMark
  <2>2. ~RunDisconnect => Head(events) \notin Ending
    <3>1. \/ RunConnect \/ RunReconnect \/ RunSend \/ RunStop \/ RunDisconnect
          \/ todo' = todo
      BY <1>4, TopActs
    <3>2. todo' # todo
      <4>1. todo \in Seq(Frame) /\ Head(todo) \in Frame
        BY <1>4, TopFrame DEF ClientInv, TypeOK
      <4>2. Head(todo) = Run
        BY <1>4, <4>1 DEF Frame, Run
      <4>3. ~NoRun(todo)
        BY <1>4, <4>1, <4>2, FirstMark DEF NoRun
      <4> QED BY <1>4, <4>3
    <3> QED BY <3>1, <3>2 DEF RunConnect, RunReconnect, RunSend, RunStop, RunNow, Ending
  <2> QED BY <2>1, <2>2
<1> QED BY <1>2, <1>3, <1>4, WaitingStep DEF w, v

\* The connection begins to end: either its event is put in the queue ...
LEMMA EndQueued ==
  ASSUME ClientInv, PushInv, FitInv, [Next]_vars, st = "started", st' = "stopping",
         HandleWritten \/ HandleControl \/ HandleRead \/ PostRecv
  PROVE  events' = Append(events, [e |-> "disconnect", old |-> "started"]) /\ NoneOf(todo', EndFrame)
<1>1. events' = Append(events, [e |-> "disconnect", old |-> st])
  BY DEF HandleWritten, HandleControl, HandleRead, PostRecv, DisconnectQueued, Push
<1>2. NoneOf(todo, EndFrame)
  <2>1. \A fr \in EndFrame : fr \in Misfits
    BY DEF EndFrame, Misfits, GuardFrame, HoldingFrame, FrameFits
  <2> QED BY <2>1, FewerMarks DEF FitInv
<1>3. \A fr \in Frame : Put(fr) => fr \notin EndFrame
  BY DEF Put, EndFrame, HandleWritten, HandleControl, HandleRead, PostRecv, RunDisconnect, RunStop, AfterConnect,
     RunNow, Top, Ready
<1> QED BY <1>1, <1>2, <1>3, FramesKept

\* ... or it is at the front of the queue and the connection ends at once.
LEMMA EndInPlace ==
  ASSUME ClientInv, RunStop \/ AfterConnect, st # "stopping", st' = "stopping"
  PROVE  events' = events /\ ~NoneOf(todo', EndFrame) /\ Connected
<1>1. /\ todo # <<>>
      /\ \E by \in Caller \cup {"none"}, fs \in Seq(Frame) : \E otherwise : DisconnectInPlace(by, otherwise, fs)
  <2>1. CASE RunStop
    <3>1. Head(events).by \in Caller /\ todo # <<>>
      BY <2>1, RunEvent, EventKinds DEF RunStop
    <3>2. DisconnectInPlace(Head(events).by, <<[f |-> "stopReturns", by |-> Head(events).by]>>, <<>>)
      BY <2>1 DEF RunStop
    <3>3. <<>> \in Seq(Frame)
      BY NoFrame
    <3> QED BY <3>1, <3>2, <3>3
  <2>2. CASE AfterConnect
    <3>1. DisconnectInPlace("none", <<Release>>, ChainReturns("failed")) /\ todo # <<>>
      BY <2>2 DEF AfterConnect, Top
    <3>2. ChainReturns("failed") \in Seq(Frame)
      BY StackedReturns DEF ClientInv
    <3> QED BY <3>1, <3>2
  <2> QED BY <2>1, <2>2
<1>2. PICK by \in Caller \cup {"none"}, fs \in Seq(Frame) : Connected /\ Then(<<Disconnecting(by)>> \o fs)
  BY <1>1 DEF DisconnectInPlace
<1>3. PICK x \in Frame : x = Disconnecting(by)
  BY MakeFrame DEF Disconnecting, ClientInv, TypeOK
<1>4. x \in EndFrame
  BY <1>3 DEF Disconnecting, EndFrame
<1>5. ~NoneOf(<<x>>, EndFrame) /\ <<x>> \in Seq(Frame)
  BY <1>4, SingleMarks
<1> DEFINE t == <<x>>
<1>6. todo' = t \o fs \o Tail(todo) /\ Tail(todo) \in Seq(Frame)
  BY <1>1, <1>2, <1>3, TopFrame DEF Then
<1>7. t \in Seq(Frame) /\ ~NoneOf(t, EndFrame)
  BY <1>5
<1> HIDE DEF t
<1>8. t \o fs \in Seq(Frame) /\ ~NoneOf(t \o fs, EndFrame)
  BY <1>7, ConcatMarks
<1>9. ~NoneOf(t \o fs \o Tail(todo), EndFrame)
  BY <1>6, <1>8, ConcatMarks
<1>10. events' = events
  BY DEF RunStop, AfterConnect
<1> QED BY <1>2, <1>6, <1>9, <1>10

\* No other step begins or finishes an end.
LEMMA WhoStops ==
  ASSUME ClientInv, [Next]_vars
  PROVE  /\ st # "stopping" /\ st' = "stopping" =>
                \/ RunStop \/ AfterConnect
                \/ st = "started" /\ (HandleWritten \/ HandleControl \/ HandleRead \/ PostRecv)
         /\ st = "stopping" /\ st' # "stopping" => Disconnect
         /\ st = "started" /\ st' # "started" => st' = "stopping"
         /\ st # "started" /\ st' = "started" => DoneConnect /\ st = "starting"
         /\ st # "starting" /\ st' = "starting" => st = "stopped" /\ (RunConnect \/ RunReconnect)
         /\ st # "stopped" /\ st' = "stopped" => st = "stopping"
<1>1. CASE \/ HandlePush \/ NextEvent \/ RunSend \/ RunDisconnect \/ HandleResolved \/ HandleConnected
           \/ HandleUpgraded \/ SetStartPromise \/ SetStopPromise \/ HandleClosed \/ HandleDisconnect
           \/ HandleDisconnectTimer \/ HandleConnectTimer \/ HandleReconnectTimer \/ IoCallback
  BY <1>1 DEF HandlePush, NextEvent, RunSend, RunDisconnect, HandleResolved, HandleConnected,
     HandleUpgraded, SetStartPromise, SetStopPromise, HandleClosed, HandleDisconnect, HandleDisconnectTimer,
     HandleConnectTimer, HandleReconnectTimer, IoCallback, NotifyConnect, Recv, StartInCallback
<1>2. CASE GameThread \/ Calls \/ Clock \/ Network \/ UNCHANGED vars
  BY <1>2 DEF GameThread, Calls, Clock, Network, StartReturned, StopPool,
     StopReturned, Start, Stop, ConnectTimerExpires, ReconnectDelayExpires, DisconnectTick, NetResolve, NetConnect,
     NetUpgrade, NetClose, NetCloseFrame, NetWrite, NetRead, io, quiet, vars
<1>3. CASE RunConnect \/ RunReconnect
  BY <1>3 DEF RunConnect, RunReconnect, StartConnect
<1>4. CASE DoneConnect
  BY <1>4 DEF DoneConnect
<1>5. CASE Disconnect
  BY <1>5 DEF Disconnect
<1>6. CASE RunStop \/ AfterConnect \/ HandleWritten \/ HandleControl \/ HandleRead \/ PostRecv
  BY <1>6 DEF RunStop, AfterConnect, HandleWritten, HandleControl, HandleRead, PostRecv, DisconnectInPlace, DisconnectQueued, Connected
<1> QED BY <1>1, <1>2, <1>3, <1>4, <1>5, <1>6 DEF Next, IoThread, IoInternal

LEMMA RunDisconnectEnds ==
  ASSUME ClientInv, EndInv, RunDisconnect
  PROVE  st = "stopping" /\ NoneOf(todo, EndFrame) /\ Head(events).old = "started"
<1>1. todo # <<>> /\ Head(todo).f = "run" /\ events # <<>> /\ Head(events) \in Event /\ Head(events).e = "disconnect"
  BY RunEvent DEF RunDisconnect
<1>2. todo \in Seq(Frame) /\ Head(todo) \in Frame /\ events \in Seq(Event)
  BY <1>1, TopFrame DEF ClientInv, TypeOK
<1>3. Waiting(events, todo) = events
  <2>1. Head(todo) = Run
    BY <1>1, <1>2 DEF Frame, Run
  <2>2. ~NoRun(todo)
    BY <1>1, <1>2, <2>1, FirstMark DEF NoRun
  <2> QED BY <2>2 DEF Waiting
<1>4. ~NoneOf(events, Ending)
  BY <1>1, <1>2, FirstMark DEF Ending
<1>5. st = "stopping" /\ NoneOf(todo, EndFrame)
  BY <1>3, <1>4 DEF EndInv, Ends
<1>6. Head(events) \notin Ended
  BY <1>1, <1>2, FirstMark DEF EndInv
<1> QED BY <1>1, <1>5, <1>6 DEF Ended

LEMMA EndsKept == ASSUME ClientInv, ClientInv', PushInv, FitInv, EndInv, [Next]_vars PROVE Ends'
<1> DEFINE w == Waiting(events, todo)
           v == Waiting(events', todo')
<1>1. w \in Seq(Event) /\ events \in Seq(Event)
  BY WaitingStep DEF ClientInv, TypeOK
<1>2. \A fr \in Frame : Put(fr) /\ fr \in EndFrame => RunDisconnect \/ RunStop \/ AfterConnect
  BY DEF Put, EndFrame
<1>3. NoneOf(w, Ending) /\ (st # "started" \/ st' # "stopping") => NoneOf(v, Ending)
  BY WaitingKept
<1>4. Ends /\ (Ends' <=> IF st' = "stopping" /\ NoneOf(todo', EndFrame) THEN OneOf(v, Ending) ELSE NoneOf(v, Ending))
  BY DEF EndInv, Ends
<1>5. CASE RunDisconnect
  <2>1. st = "stopping" /\ NoneOf(todo, EndFrame)
    BY <1>5, RunDisconnectEnds
  <2>2. OneOf(w, Ending) /\ w = events /\ Head(events) \in Ending /\ events # <<>>
    <3>1. todo # <<>> /\ Head(todo).f = "run" /\ events # <<>> /\ Head(events) \in Event /\ Head(events).e = "disconnect"
      BY <1>5, RunEvent DEF RunDisconnect
    <3>2. Head(todo) = Run
      BY <3>1, TopFrame DEF Frame, Run
    <3>3. ~NoRun(todo)
      BY <3>1, <3>2, FirstMark DEF NoRun, ClientInv, TypeOK
    <3> QED BY <1>4, <2>1, <3>1, <3>3 DEF Ends, Waiting, Ending
  <2>3. PICK x \in Frame : x = [f |-> "disconnect", old |-> "started", by |-> "none"]
    BY MakeFrame DEF State
  <2>4. Then(<<x>>) /\ x \in EndFrame /\ events' = events /\ todo # <<>>
    BY <1>5, <2>3, RunDisconnectEnds, RunEvent DEF RunDisconnect, EndFrame
  <2>5. ~NoneOf(todo', EndFrame)
    <3>1. ~NoneOf(todo', {x})
      BY <2>4, OnlyFrame, Placed
    <3> QED BY <2>4, <3>1, FewerMarks
  <2>6. NoneOf(v, Ending)
    <3>1. NoRun(todo')
      <4>1. Tail(todo) \in Seq(Frame) /\ NoneOf(Tail(todo), GuardFrame)
        BY <2>4, <1>5, RunEvent, TopFrame DEF RunDisconnect, Unheld
      <4>2. NoRun(<<x>>) /\ <<x>> \in Seq(Frame)
        BY <2>3, NoRunFrames
      <4> QED BY <2>4, <4>1, <4>2, UnheldNoRun, NoRunFrames DEF Then
    <3>2. v = Tail(events)
      BY <2>2, <2>4, <3>1 DEF Waiting
    <3> QED BY <1>1, <2>2, <3>2, FirstMark
  <2> QED BY <1>4, <2>5, <2>6
<1>6. CASE st # "stopping" /\ st' = "stopping"
  <2>1. NoneOf(w, Ending)
    BY <1>4, <1>6 DEF Ends
  <2>2. CASE RunStop \/ AfterConnect
    <3>1. events' = events /\ ~NoneOf(todo', EndFrame)
      BY <1>6, <2>2, EndInPlace
    <3>2. v = w \/ (v = Tail(w) /\ w # <<>>)
      <4>1. ASSUME NEW ev \in Event, events' = Append(events, ev) PROVE FALSE
        <5>1. Len(events') = Len(events) + 1 /\ Len(events) \in Nat
          BY <1>1, <4>1
        <5> QED BY <3>1, <5>1
      <4> QED BY <4>1, WaitingStep
    <3>3. NoneOf(v, Ending)
      <4>1. CASE v = w
        BY <2>1, <4>1
      <4>2. CASE v = Tail(w) /\ w # <<>>
        BY <1>1, <2>1, <4>2, FirstMark
      <4> QED BY <3>2, <4>1, <4>2
    <3> QED BY <1>4, <3>1, <3>3
  <2>3. CASE (HandleWritten \/ HandleControl \/ HandleRead \/ PostRecv) /\ st = "started"
    <3> DEFINE ev == [e |-> "disconnect", old |-> "started"]
    <3>1. events' = Append(events, ev) /\ NoneOf(todo', EndFrame)
      BY <1>6, <2>3, EndQueued
    <3>2. ev \in Event /\ ev \in Ending
      BY MakeEvent DEF State, Ending
    <3> HIDE DEF ev
    <3>3. v = Append(w, ev)
      <4>1. events' # events /\ (events # <<>> => events' # Tail(events))
        <5>1. Len(events') = Len(events) + 1 /\ Len(events) \in Nat
          BY <1>1, <3>1, <3>2
        <5>2. events # <<>> => Len(Tail(events)) = Len(events) - 1
          BY <1>1
        <5> QED BY <5>1, <5>2
      <4>2. PICK y \in Event : events' = Append(events, y) /\ v = Append(w, y)
        BY <4>1, WaitingStep
      <4>3. \A y2 \in Event : Append(events, y2)[Len(events) + 1] = y2
        BY <1>1, AppendProperties
      <4> QED BY <3>1, <3>2, <4>2, <4>3
    <3>4. OneOf(v, Ending)
      BY <1>1, <2>1, <3>2, <3>3, PutMark
    <3> QED BY <1>4, <1>6, <3>1, <3>4
  <2>4. (HandleWritten \/ HandleControl \/ HandleRead \/ PostRecv) => st = "started"
    BY <1>6 DEF HandleWritten, HandleControl, HandleRead, PostRecv, IsStarted
  <2> QED BY <1>6, <2>2, <2>3, <2>4, WhoStops
<1>7. CASE st = "stopping" /\ st' # "stopping"
  <2>1. Disconnect
    BY <1>7, WhoStops
  <2>2. ~NoneOf(todo, EndFrame)
    <3>1. todo # <<>> /\ Head(todo).f = "disconnect"
      BY <2>1 DEF Disconnect, Top
    <3>2. todo \in Seq(Frame) /\ Head(todo) \in EndFrame
      BY <3>1, TopFrame DEF EndFrame, ClientInv, TypeOK
    <3> QED BY <3>1, <3>2, FirstMark
  <2> QED BY <1>3, <1>4, <1>7, <2>2 DEF Ends
<1>8. CASE st # "stopping" /\ st' # "stopping"
  BY <1>3, <1>4, <1>8 DEF Ends
<1>9. CASE st = "stopping" /\ st' = "stopping" /\ ~RunDisconnect
  <2>1. NoneOf(todo', EndFrame) <=> NoneOf(todo, EndFrame)
    <3>1. ASSUME NEW fr \in Frame, Put(fr) PROVE fr \notin EndFrame
      BY <1>9, <3>1 DEF Put, EndFrame, Connected
    <3>2. ASSUME NoneOf(todo', EndFrame), todo # <<>>, Head(todo) \in EndFrame PROVE FALSE
      <4>1. todo' # todo
        <5>1. todo \in Seq(Frame)
          BY DEF ClientInv, TypeOK
        <5> QED BY <3>2, <5>1, FirstMark
      <4>2. Disconnect
        BY <3>2, <4>1, TopActs DEF EndFrame
      <4> QED BY <1>9, <4>2 DEF Disconnect
    <3> QED BY <3>1, <3>2, FramesKept
  <2>2. OneOf(w, Ending) => OneOf(v, Ending)
    BY <1>9, WaitingKept
  <2> QED BY <1>3, <1>4, <1>9, <2>1, <2>2 DEF Ends
<1> QED BY <1>5, <1>6, <1>7, <1>8, <1>9

LEMMA EndKept == ASSUME ClientInv, ClientInv', PushInv, FitInv, EndInv, [Next]_vars PROVE EndInv'
<1>1. NoneOf(events', Ended)
  <2>1. \A ev \in Event : Queued(ev) => ev \notin Ended
    BY DEF Queued, Ended
  <2> QED BY <2>1, EventKept DEF EndInv
<1> QED BY <1>1, EndsKept DEF EndInv

----------------------------------------------------------------------------
(* A connection in use has a socket. *)

LEMMA FitKept ==
  ASSUME ClientInv, ClientInv', Stacked(todo), EndInv, FitInv, [Next]_vars PROVE FitInv'
<1>1. CASE RunDisconnect
  BY <1>1, RunDisconnectEnds, RunDisconnectFits
<1>2. CASE (IoInternal \/ Disconnect) /\ ~RunDisconnect
  BY <1>2, HandlePushFits, NextEventFits, RunConnectFits, RunReconnectFits, RunSendFits, RunStopFits,
     HandleResolvedFits, HandleConnectedFits, HandleUpgradedFits, DoneConnectFits, AfterConnectFits,
     SetStartPromiseFits, SetStopPromiseFits, DisconnectFits, HandleClosedFits, HandleDisconnectFits,
     HandleDisconnectTimerFits, HandleConnectTimerFits, HandleReconnectTimerFits, HandleWrittenFits,
     HandleReadFits, PostRecvFits DEF IoInternal
<1>3. CASE IoCallback
  BY <1>3, NotifyConnectFits, CallbackFits DEF IoCallback
<1>4. CASE GameThread \/ Calls \/ Clock \/ Network \/ UNCHANGED vars
  BY <1>4, OtherThreadsFit, NetworkFits
<1> QED BY <1>1, <1>2, <1>3, <1>4 DEF Next, IoThread

PhaseInv == ClientInv /\ Stacked(todo) /\ PushInv /\ EndInv /\ FitInv

LEMMA PhaseInductive == Spec => []PhaseInv
<1>1. Init => PhaseInv
  <2> SUFFICES ASSUME Init PROVE PhaseInv
    OBVIOUS
  <2>1. ClientInv
    BY InitInv
  <2>2. Stacked(todo) /\ PushInv
    BY EmptyMarks DEF Init, Stacked, PushInv
  <2>3. EndInv
    BY EmptyMarks DEF Init, EndInv, Ends, Waiting
  <2>4. FitInv
    BY EmptyMarks DEF Init, FitInv, OpFits, Settled
  <2> QED BY <2>1, <2>2, <2>3, <2>4 DEF PhaseInv
<1>2. PhaseInv /\ [Next]_vars => PhaseInv'
  <2> SUFFICES ASSUME PhaseInv, [Next]_vars PROVE PhaseInv'
    OBVIOUS
  <2>1. ClientInv'
    BY NextInv DEF PhaseInv
  <2>2. Stacked(todo')
    BY StackedKept DEF PhaseInv
  <2>3. PushInv'
    BY PushKept DEF PhaseInv
  <2>4. EndInv'
    BY <2>1, EndKept DEF PhaseInv
  <2>5. FitInv'
    BY <2>1, FitKept DEF PhaseInv
  <2> QED BY <2>1, <2>2, <2>3, <2>4, <2>5 DEF PhaseInv, Stacked
<1> QED BY <1>1, <1>2, PTL DEF Spec

\* A client that is started has an open socket: neither a connect timer that
\* comes late nor the disconnect of an earlier connection closes it
\* (connect_timeout_cp.hpp, tcp_client.hpp _handle_disconnect).
THEOREM ConnectionHasSocket == Spec => []StartedHasSocket
<1>1. PhaseInv => StartedHasSocket
  BY StartedIsOpen DEF PhaseInv, StartedHasSocket
<1> QED BY <1>1, PhaseInductive, PTL

----------------------------------------------------------------------------
(* A connection has one reader: a pending read, one that has completed, or  *)
(* the frame that posts the next.                                           *)

LEMMA OneIsSome ==
  /\ \A s, H : OneOf(s, H) => ~NoneOf(s, H)
  /\ ReadInv => (OneReader(todo, ioq, op) <=> ~NoReader(todo, ioq, op))
  BY DEF OneOf, NoneOf, ReadInv, OneReader, NoReader

LEMMA OpReads ==
  ASSUME ClientInv, [Next]_vars
  PROVE  /\ ~AfterConnect /\ ~PostRecv => op'.read <= op.read /\ op'.on = op.on
         /\ op'.dial \in {"connect", "upgrade"} => op'.dial = op.dial \/ HandleResolved \/ HandleConnected
         /\ op'.close \in {op.close, "no"} \/ (Disconnect /\ op'.close = Head(todo).by)
<1>1. op \in OpRecord /\ op.read \in Nat
  BY DEF ClientInv, TypeOK, OpRecord
<1>2. CASE op' = op
  BY <1>1, <1>2
<1>3. CASE \/ HandlePush \/ NextEvent \/ RunStop \/ RunDisconnect \/ HandleUpgraded \/ DoneConnect
           \/ SetStartPromise \/ SetStopPromise \/ HandleClosed \/ HandleReconnectTimer \/ HandleWritten \/ HandleControl \/ HandleRead
           \/ IoCallback \/ GameThread \/ Calls \/ Clock \/ UNCHANGED vars
  BY <1>2, <1>3 DEF HandlePush, NextEvent, RunStop, RunDisconnect, HandleUpgraded, DoneConnect,
     SetStartPromise, SetStopPromise, HandleClosed, HandleReconnectTimer, HandleWritten, HandleControl, HandleRead,
     IoCallback, NotifyConnect, Recv, StartInCallback, GameThread, StartReturned, StopPool, StopReturned,
     Calls, Start, Stop, Clock, ConnectTimerExpires, ReconnectDelayExpires, DisconnectTick, io, vars
<1>4. CASE RunConnect \/ RunReconnect \/ RunSend \/ Disconnect
  <2>1. \/ op' = op
        \/ op' = [op EXCEPT !.dial = "resolve"]
        \/ op' = [op EXCEPT !.write = @ + 1]
        \/ Disconnect /\ op' = [op EXCEPT !.close = Head(todo).by]
    BY <1>4 DEF RunConnect, RunReconnect, StartConnect, RunSend, Disconnect
  <2> QED BY <1>1, <2>1 DEF OpRecord
<1>5. CASE HandleResolved \/ HandleConnected
  <2>1. \/ op' = op
        \/ \E n : op' = [op EXCEPT !.dial = "connect", !.ep = n]
        \/ op' = [op EXCEPT !.dial = "upgrade"]
    BY <1>5 DEF HandleResolved, HandleConnected, PostConnect, PostUpgrade
  <2>2. op'.read = op.read /\ op'.on = op.on /\ op'.close = op.close
    BY <1>1, <2>1 DEF OpRecord
  <2> QED BY <1>1, <1>5, <2>2
<1>6. CASE AfterConnect \/ PostRecv
  <2>1. op' = op \/ op' = [op EXCEPT !.read = @ + 1, !.on = attempt]
    BY <1>6 DEF AfterConnect, PostRecv, PostRead
  <2> QED BY <1>1, <1>6, <2>1 DEF OpRecord
<1>7. CASE HandleDisconnect \/ HandleDisconnectTimer \/ HandleConnectTimer
  <2>1. \/ op' = op
        \/ op' = Aborted
        \/ op' = [Aborted EXCEPT !.dial = IF @ \in {"connect", "upgrade"} THEN "none" ELSE @]
    BY <1>7 DEF HandleDisconnect, HandleDisconnectTimer, HandleConnectTimer, CloseSocket
  <2>2. /\ Aborted \in OpRecord /\ Aborted.read = 0 /\ Aborted.on = op.on
        /\ Aborted.dial = op.dial /\ Aborted.close = op.close
    BY <1>1, AbortedType DEF Aborted, ClientInv, OpRecord
  <2> QED BY <1>1, <2>1, <2>2 DEF OpRecord
<1>8. CASE NetResolve \/ NetConnect \/ NetUpgrade \/ NetClose \/ NetWrite
  <2>1. CASE NetResolve
    BY <1>1, <2>1 DEF NetResolve, OpRecord
  <2>2. CASE NetConnect
    BY <1>1, <2>2 DEF NetConnect, OpRecord
  <2>3. CASE NetUpgrade
    BY <1>1, <2>3 DEF NetUpgrade, OpRecord
  <2>4. CASE NetClose
    BY <1>1, <2>4 DEF NetClose, OpRecord
  <2>5. CASE NetWrite
    BY <1>1, <2>5 DEF NetWrite, OpRecord
  <2> QED BY <1>8, <2>1, <2>2, <2>3, <2>4, <2>5
<1>9. CASE NetRead
  BY <1>1, <1>9 DEF NetRead, OpRecord
<1>10. CASE NetCloseFrame
  BY <1>2, <1>10 DEF NetCloseFrame, io
<1> QED BY <1>3, <1>4, <1>5, <1>6, <1>7, <1>8, <1>9, <1>10 DEF Next, IoThread, IoInternal, Network

\* Most steps move the reader at most from the operation to the queue.
LEMMA ReaderStays ==
  ASSUME ClientInv, ClientInv', [Next]_vars, ~HandleRead, ~PostRecv, ~AfterConnect
  PROVE  /\ NoReader(todo, ioq, op) => NoReader(todo', ioq', op')
         /\ OneReader(todo, ioq, op) => OneReader(todo', ioq', op')
<1>1. op.read \in Nat /\ op'.read \in Nat /\ op'.read <= op.read
  BY OpReads DEF ClientInv, TypeOK
<1>2. /\ todo \in Seq(Frame) /\ ioq \in Seq(Handler)
      /\ todo # <<>> => Tail(todo) \in Seq(Frame) /\ Head(todo) \in Frame
  BY TopFrame DEF ClientInv, TypeOK
<1>3. PICK gs \in Seq(Frame) : /\ NoneOf(gs, Unput)
                               /\ \/ todo' = gs \o todo
                                  \/ todo # <<>> /\ todo' = gs \o Tail(todo)
  BY FramesPut DEF Restacked
<1>4. NoneOf(gs, ReadFrame)
  <2>1. \A fr \in ReadFrame : fr \in Unput
    BY DEF ReadFrame, Unput, Put
  <2> QED BY <1>3, <2>1 DEF NoneOf
<1>5. NoneOf(todo, ReadFrame) => NoneOf(todo', ReadFrame)
  <2>1. \A fr \in Frame : Put(fr) => fr \notin ReadFrame
    BY DEF ReadFrame, Put
  <2> QED BY <2>1, FramesKept
<1>6. ASSUME OneOf(todo, ReadFrame) PROVE OneOf(todo', ReadFrame)
  <2>1. CASE todo' = todo
    BY <1>6, <2>1
  <2>2. CASE todo' = gs \o todo
    BY <1>2, <1>4, <1>6, <2>2, ConcatMarks
  <2>3. CASE todo # <<>> /\ todo' = gs \o Tail(todo) /\ todo' # todo
    <3>1. Head(todo) \notin ReadFrame
      BY <2>3, TopActs DEF ReadFrame
    <3>2. OneOf(Tail(todo), ReadFrame)
      BY <1>2, <1>6, <2>3, <3>1, FirstMark
    <3> QED BY <1>2, <1>4, <2>3, <3>2, ConcatMarks
  <2> QED BY <1>3, <2>1, <2>2, <2>3
<1>7. PICK q, hs \in Seq(Handler) : Left(q) /\ Added(hs) /\ ioq' = q \o hs
  BY HandlersAdded DEF Rehandled
<1>8. op'.read = op.read => NoneOf(hs, ReadHandler)
  <2>1. op'.read = op.read => \A hd \in ReadHandler : hd \in Unmade
    BY <1>1 DEF ReadHandler, Unmade, Made
  <2> QED BY <1>7, <2>1 DEF NoneOf, Added
<1>9. NoneOf(ioq, ReadHandler) => NoneOf(q, ReadHandler)
  BY <1>2, <1>7, FirstMark DEF Left
<1>10. OneOf(ioq, ReadHandler) => OneOf(q, ReadHandler)
  <2>1. CASE q = ioq
    BY <2>1
  <2>2. CASE ioq # <<>> /\ q = Tail(ioq) /\ Head(ioq).h # "read"
    BY <1>2, <2>2, FirstMark DEF ReadHandler
  <2> QED BY <1>7, <2>1, <2>2 DEF Left
<1>11. ASSUME NoReader(todo, ioq, op) PROVE NoReader(todo', ioq', op')
  <2>1. NoneOf(ioq', ReadHandler)
    BY <1>1, <1>7, <1>8, <1>9, <1>11, ConcatMarks DEF NoReader
  <2> QED BY <1>1, <1>5, <1>11, <2>1 DEF NoReader
<1>12. ASSUME OneReader(todo, ioq, op) PROVE OneReader(todo', ioq', op')
  <2>0. /\ NoneOf(q, ReadHandler) /\ NoneOf(hs, ReadHandler) => NoneOf(q \o hs, ReadHandler)
        /\ OneOf(q, ReadHandler) /\ NoneOf(hs, ReadHandler) => OneOf(q \o hs, ReadHandler)
        /\ NoneOf(q, ReadHandler) /\ OneOf(hs, ReadHandler) => OneOf(q \o hs, ReadHandler)
    BY <1>7, ConcatMarks
  <2>1. CASE OneOf(todo, ReadFrame) /\ NoneOf(ioq, ReadHandler) /\ op.read = 0
    <3>1. op'.read = 0
      BY <1>1, <2>1
    <3>2. NoneOf(ioq', ReadHandler)
      BY <1>7, <1>8, <1>9, <2>0, <2>1, <3>1
    <3> QED BY <1>6, <2>1, <3>1, <3>2 DEF OneReader
  <2>2. CASE NoneOf(todo, ReadFrame) /\ OneOf(ioq, ReadHandler) /\ op.read = 0
    <3>1. op'.read = 0
      BY <1>1, <2>2
    <3>2. OneOf(ioq', ReadHandler)
      BY <1>7, <1>8, <1>10, <2>0, <2>2, <3>1
    <3> QED BY <1>5, <2>2, <3>1, <3>2 DEF OneReader
  <2>3. CASE NoneOf(todo, ReadFrame) /\ NoneOf(ioq, ReadHandler) /\ op.read = 1
    <3>1. CASE op'.read = 1
      <4>1. NoneOf(ioq', ReadHandler)
        BY <1>7, <1>8, <1>9, <2>0, <2>3, <3>1
      <4> QED BY <1>5, <2>3, <3>1, <4>1 DEF OneReader
    <3>2. CASE op'.read = 0
      <4>1. OneOf(hs, ReadHandler)
        BY <1>7, <2>3, <3>2 DEF Added
      <4>2. OneOf(ioq', ReadHandler)
        BY <1>7, <1>9, <2>0, <2>3, <4>1
      <4> QED BY <1>5, <2>3, <3>2, <4>2 DEF OneReader
    <3> QED BY <1>1, <2>3, <3>1, <3>2
  <2> QED BY <1>12, <2>1, <2>2, <2>3 DEF OneReader
<1> QED BY <1>11, <1>12

\* As long as there is a reader no connection is in the making.
LEMMA ReaderBars ==
  ASSUME PhaseInv, ReadInv, ~NoReader(todo, ioq, op)
  PROVE  ~HandleResolved /\ ~HandleConnected /\ ~HandleUpgraded /\ ~DoneConnect /\ ~NotifyConnect /\ ~AfterConnect
<1>1. NoneOf(todo, ConnectFrame) /\ NoneOf(ioq, Joined)
  BY DEF ReadInv
<1>2. todo \in Seq(Frame) /\ ioq \in Seq(Handler) /\ ClientInv /\ FitInv
  BY DEF PhaseInv, ClientInv, TypeOK
<1>3. ASSUME todo # <<>>, Head(todo).f \in {"done", "notifyConnect", "afterConnect"} PROVE FALSE
  BY <1>1, <1>2, <1>3, FirstMark DEF ConnectFrame
<1>4. ASSUME ioq # <<>>, Head(ioq).h \in {"connected", "upgraded"} PROVE FALSE
  BY <1>1, <1>2, <1>4, FirstMark DEF Joined
<1>5. ASSUME Ready("resolved") PROVE FALSE
  <2>1. todo = <<>> /\ ioq # <<>> /\ Head(ioq).h = "resolved"
    BY <1>5 DEF Ready
  <2>2. op.read = 0
    BY <1>2, <2>1, FirstFits DEF HandlerFits, Dialling, HoldingHandler
  <2>3. NoneOf(ioq, ReadHandler)
    <3>1. 1 \in 1..Len(ioq) /\ ioq[1].h = "resolved"
      BY <1>2, <2>1
    <3>2. \A j \in 1..Len(ioq) : ioq[j].h # "read"
      BY <3>1 DEF ReadInv, ReadsFirst
    <3> QED BY <3>2 DEF NoneOf, ReadHandler
  <2> QED BY <2>1, <2>2, <2>3, EmptyMarks DEF NoReader
<1> QED BY <1>3, <1>4, <1>5 DEF HandleResolved, HandleConnected, HandleUpgraded, DoneConnect, NotifyConnect, AfterConnect,
        Top, Ready

\* The first read is over when its handler runs: it goes to the receive callback,
\* and to the next read.
LEMMA HandleReadReads ==
  ASSUME ClientInv, ClientInv', ReadInv, HandleRead
  PROVE  \/ OneReader(todo', ioq', op')
         \/ NoReader(todo', ioq', op') /\ st' # "started"
<1>1. /\ todo = <<>> /\ ioq # <<>> /\ ioq' = Tail(ioq) /\ op' = op /\ sockOpen' = sockOpen
      /\ Head(ioq).h = "read" /\ ioq \in Seq(Handler)
  BY DEF HandleRead, Ready, Handled, ClientInv, TypeOK
<1>2. Head(ioq) \in ReadHandler
  BY <1>1, FirstHandler DEF ReadHandler
<1>3. NoneOf(Tail(ioq), ReadHandler) /\ op.read = 0
  <2>1. ~NoneOf(ioq, ReadHandler)
    BY <1>1, <1>2, FirstMark
  <2>2. OneOf(ioq, ReadHandler) /\ op.read = 0
    BY <2>1 DEF ReadInv, NoReader, OneReader
  <2> QED BY <1>1, <1>2, <2>2, FirstMark
<1>4. CASE todo' = <<[f |-> "recv"], [f |-> "postRecv"]>>
  <2> DEFINE rv == [f |-> "recv"]
             pr == [f |-> "postRecv"]
             a  == <<rv>>
             b  == <<pr>>
  <2>1. rv \in Frame /\ pr \in Frame /\ rv \notin ReadFrame /\ pr \in ReadFrame
    BY MakeFrame DEF ReadFrame
  <2>2. todo' = a \o b
    BY <1>4
  <2> HIDE DEF rv, pr
  <2>3. a \in Seq(Frame) /\ b \in Seq(Frame) /\ NoneOf(a, ReadFrame) /\ OneOf(b, ReadFrame)
    BY <2>1, SingleMarks
  <2> HIDE DEF a, b
  <2>4. OneOf(todo', ReadFrame)
    BY <2>2, <2>3, ConcatMarks
  <2> QED BY <1>1, <1>3, <2>4 DEF OneReader
<1>5. CASE DisconnectQueued(<<>>) /\ st = "started"
  <2>1. st' = "stopping" /\ (todo' = <<Run>> \o <<>> \/ todo' = <<>> \o <<>>)
    BY <1>5 DEF DisconnectQueued, Connected, Push
  <2>2. todo' = <<Run>> \/ todo' = <<>>
    BY <2>1
  <2>3. NoneOf(todo', ReadFrame)
    BY <2>2, SingleMarks, EmptyMarks DEF ReadFrame, Run
  <2> QED BY <1>1, <1>3, <2>1, <2>3 DEF NoReader
<1>6. CASE st # "started" /\ UNCHANGED <<st, todo>>
  <2>1. NoneOf(todo', ReadFrame)
    BY <1>1, <1>6, EmptyMarks
  <2> QED BY <1>1, <1>3, <1>6, <2>1 DEF NoReader
<1> QED BY <1>4, <1>5, <1>6 DEF HandleRead, IsStarted

LEMMA PostRecvReads ==
  ASSUME ClientInv, ClientInv', ReadInv, PostRecv
  PROVE  \/ OneReader(todo', ioq', op') /\ (st' = "started" => op'.on = attempt')
         \/ NoReader(todo', ioq', op') /\ st' # "started"
<1>1. /\ todo # <<>> /\ Head(todo).f = "postRecv" /\ ioq' = ioq /\ attempt' = attempt
      /\ todo \in Seq(Frame) /\ op \in OpRecord
  BY DEF PostRecv, Top, ClientInv, TypeOK, OpRecord
<1>2. Head(todo) \in ReadFrame
  BY <1>1, TopFrame DEF ReadFrame
<1>3. OneOf(todo, ReadFrame) /\ NoneOf(ioq, ReadHandler) /\ op.read = 0
  <2>1. ~NoneOf(todo, ReadFrame)
    BY <1>1, <1>2, FirstMark
  <2> QED BY <2>1 DEF ReadInv, NoReader, OneReader
<1>4. Tail(todo) \in Seq(Frame) /\ NoneOf(Tail(todo), ReadFrame) /\ <<>> \o Tail(todo) = Tail(todo)
  BY <1>1, <1>2, <1>3, FirstMark
<1>5. CASE PostRead /\ Then(<<>>)
  <2>1. op' = [op EXCEPT !.read = @ + 1, !.on = attempt] /\ todo' = Tail(todo)
    BY <1>4, <1>5 DEF PostRead, Then
  <2>2. op'.read = 1 /\ op'.on = attempt
    BY <1>1, <1>3, <2>1 DEF OpRecord
  <2> QED BY <1>1, <1>3, <1>4, <2>1, <2>2 DEF OneReader
<1>6. CASE st = "started" /\ DisconnectQueued(Tail(todo)) /\ op' = op
  <2>1. st' = "stopping" /\ (todo' = <<Run>> \o Tail(todo) \/ todo' = <<>> \o Tail(todo))
    BY <1>6 DEF DisconnectQueued, Connected, Push
  <2> DEFINE r == <<Run>>
  <2>2. r \in Seq(Frame) /\ NoneOf(r, ReadFrame)
    BY MakeFrame, SingleMarks DEF ReadFrame, Run
  <2>3. todo' = r \o Tail(todo) \/ todo' = Tail(todo)
    BY <1>4, <2>1
  <2>5. NoneOf(r \o Tail(todo), ReadFrame)
    <3> HIDE DEF r
    <3> QED BY <1>4, <2>2, ConcatMarks
  <2>4. NoneOf(todo', ReadFrame)
    BY <1>4, <2>3, <2>5
  <2> QED BY <1>1, <1>3, <1>6, <2>1, <2>4 DEF NoReader
<1>7. CASE st # "started" /\ Then(<<>>) /\ UNCHANGED <<op, st>>
  <2>1. todo' = Tail(todo)
    BY <1>4, <1>7 DEF Then
  <2> QED BY <1>1, <1>3, <1>4, <1>7, <2>1 DEF NoReader
<1> QED BY <1>5, <1>6, <1>7 DEF PostRecv, IsStarted

\* A connection that is made begins to read, and has no frame left that makes it.
LEMMA AfterConnectReads ==
  ASSUME PhaseInv, ClientInv', ReadInv, AfterConnect
  PROVE  /\ NoneOf(todo', ConnectFrame) /\ NoneOf(ioq', Joined) /\ op'.dial = "none"
         /\ \/ OneReader(todo', ioq', op') /\ op'.on = attempt'
            \/ NoReader(todo', ioq', op') /\ st' # "started"
<1>1. /\ ClientInv /\ FitInv /\ Stacked(todo) /\ TypeOK /\ todo # <<>> /\ Head(todo).f = "afterConnect" /\ attempt' = attempt
      /\ todo \in Seq(Frame) /\ ioq \in Seq(Handler) /\ op \in OpRecord
  BY DEF AfterConnect, Top, PhaseInv, ClientInv, TypeOK, OpRecord
<1>2. FrameFits(Head(todo)) /\ OpFree(op) /\ Tail(todo) = <<>>
  BY <1>1, TopFits, StackTop DEF HoldingFrame
<1>3. NoneOf(ioq, Joined)
  <2>1. NoneOf(ioq, GuardHandler)
    BY <1>1, TopFrame DEF HoldingFrame, Unheld
  <2> QED BY <2>1, FewerMarks DEF NoneOf, Joined, GuardHandler, HoldingHandler
<1>4. NoReader(todo, ioq, op)
  <2>1. Head(todo) \in ConnectFrame
    BY <1>1, TopFrame DEF ConnectFrame
  <2>2. ~NoneOf(todo, ConnectFrame)
    BY <1>1, <2>1, FirstMark
  <2> QED BY <2>2 DEF ReadInv
<1>5. NoneOf(ioq', Joined) /\ NoneOf(ioq', ReadHandler)
  <2> DEFINE tm == [h |-> "ctimer", id |-> ctimer.id, expired |-> FALSE]
  <2>1. ioq' = ioq \/ ioq' = Append(ioq, tm)
    BY DEF AfterConnect, CancelConnectTimer
  <2>2. tm \in Handler /\ tm \notin Joined /\ tm \notin ReadHandler
    BY <1>1, MakeHandler DEF TypeOK, Attempt, Joined, ReadHandler
  <2> HIDE DEF tm
  <2>3. NoneOf(ioq, ReadHandler)
    BY <1>4 DEF NoReader
  <2>4. NoneOf(Append(ioq, tm), Joined)
    BY <1>1, <1>3, <2>2, PutMark
  <2>5. NoneOf(Append(ioq, tm), ReadHandler)
    BY <1>1, <2>2, <2>3, PutMark
  <2> QED BY <1>3, <2>1, <2>3, <2>4, <2>5
<1>6. NoneOf(todo', ReadFrame)
  <2>1. \A fr \in Frame : Put(fr) => fr \notin ReadFrame
    BY <1>1 DEF Put, ReadFrame, HandleRead, Ready
  <2>2. [Next]_vars /\ NoneOf(todo, ReadFrame)
    BY <1>4 DEF Next, IoThread, IoInternal, NoReader
  <2> QED BY <1>1, <2>1, <2>2, FramesKept
<1>7. NoneOf(todo', ConnectFrame)
  <2>1. CASE Then(ChainReturns("ok") \o <<Release>>)
    BY <1>1, <2>1, StackedThen, StackedReturns
  <2>2. CASE DisconnectInPlace("none", <<Release>>, ChainReturns("failed"))
    BY <1>1, <2>2, StackedInPlace, StackedReturns, PlainFrames
  <2> QED BY <2>1, <2>2 DEF AfterConnect
<1>8. op.dial = "none" /\ op.read = 0
  BY <1>2, <1>4 DEF OpFree, NoReader
<1>9. CASE Head(todo).ec = "ok" /\ st = "started"
  <2>1. op' = [op EXCEPT !.read = @ + 1, !.on = attempt]
    BY <1>9 DEF AfterConnect, PostRead
  <2>2. op'.read = 1 /\ op'.on = attempt /\ op'.dial = "none"
    BY <1>1, <1>8, <2>1 DEF OpRecord
  <2>3. OneReader(todo', ioq', op')
    BY <1>5, <1>6, <2>2 DEF OneReader
  <2> QED BY <1>1, <1>5, <1>7, <2>2, <2>3
<1>10. CASE ~(Head(todo).ec = "ok" /\ st = "started")
  <2>1. op' = op /\ DisconnectInPlace("none", <<Release>>, ChainReturns("failed"))
    BY <1>10 DEF AfterConnect
  <2>2. st = "starting"
    BY <1>1, <1>2, <1>10 DEF FrameFits, Dialling
  <2>3. st' = "stopping"
    BY <2>1, <2>2 DEF DisconnectInPlace, Connected
  <2>4. NoReader(todo', ioq', op')
    BY <1>5, <1>6, <1>8, <2>1 DEF NoReader
  <2> QED BY <1>5, <1>7, <1>8, <2>1, <2>3, <2>4
<1> QED BY <1>9, <1>10

LEMMA ReaderStep ==
  ASSUME PhaseInv, ClientInv', ReadInv, [Next]_vars
  PROVE  /\ NoReader(todo', ioq', op') \/ OneReader(todo', ioq', op')
         /\ NoReader(todo, ioq, op) => NoReader(todo', ioq', op') \/ AfterConnect
         /\ ~NoReader(todo, ioq, op) /\ NoReader(todo', ioq', op') => st' # "started"
<1>1. ClientInv /\ todo \in Seq(Frame) /\ ioq \in Seq(Handler)
  BY DEF PhaseInv, ClientInv, TypeOK
<1>2. \A s, q, o : ~(OneReader(s, q, o) /\ NoReader(s, q, o))
  BY OneIsSome DEF OneReader, NoReader
<1>3. CASE HandleRead
  <2>1. ~NoReader(todo, ioq, op)
    BY <1>1, <1>3, FirstMark DEF HandleRead, Ready, NoReader, ReadHandler
  <2> QED BY <1>1, <1>2, <1>3, <2>1, HandleReadReads
<1>4. CASE PostRecv
  <2>1. ~NoReader(todo, ioq, op)
    BY <1>1, <1>4, FirstMark DEF PostRecv, Top, NoReader, ReadFrame
  <2> QED BY <1>1, <1>2, <1>4, <2>1, PostRecvReads
<1>5. CASE AfterConnect
  <2>1. NoReader(todo, ioq, op)
    BY <1>5, ReaderBars
  <2> QED BY <1>5, <2>1, AfterConnectReads
<1>6. CASE ~HandleRead /\ ~PostRecv /\ ~AfterConnect
  <2>1. NoReader(todo, ioq, op) \/ OneReader(todo, ioq, op)
    BY DEF ReadInv
  <2> QED BY <1>1, <1>2, <1>6, <2>1, ReaderStays
<1> QED BY <1>3, <1>4, <1>5, <1>6

Resolved == {hd \in Handler : hd.h = "resolved"}

LEMMA ReadsFirstKept ==
  ASSUME ClientInv, FitInv, ReadsFirst(ioq), [Next]_vars PROVE ReadsFirst(ioq')
<1>1. PICK q, hs \in Seq(Handler) : Left(q) /\ Added(hs) /\ ioq' = q \o hs
  BY HandlersAdded DEF Rehandled
<1>2. ioq \in Seq(Handler) /\ op \in OpRecord
  BY DEF ClientInv, TypeOK, OpRecord
<1>3. ReadsFirst(q)
  <2>1. CASE q = ioq
    BY <2>1
  <2>2. CASE ioq # <<>> /\ q = Tail(ioq)
    <3>1. Len(q) = Len(ioq) - 1 /\ Len(ioq) \in Nat /\ \A i \in 1..Len(q) : q[i] = ioq[i + 1] /\ i + 1 \in 1..Len(ioq)
      BY <1>2, <2>2
    <3>2. ASSUME NEW i \in 1..Len(q), NEW j \in 1..Len(q), q[i].h = "resolved", q[j].h = "read" PROVE j < i
      <4>1. j + 1 < i + 1
        BY <3>1, <3>2 DEF ReadsFirst
      <4> QED BY <3>1, <4>1
    <3> QED BY <3>2 DEF ReadsFirst
  <2> QED BY <1>1, <2>1, <2>2 DEF Left
<1>4. /\ Len(ioq') = Len(q) + Len(hs) /\ Len(q) \in Nat /\ Len(hs) \in Nat
      /\ \A i \in 1..Len(ioq') : /\ i <= Len(q) => i \in 1..Len(q) /\ ioq'[i] = q[i]
                                 /\ i > Len(q) => i - Len(q) \in 1..Len(hs) /\ ioq'[i] = hs[i - Len(q)]
  BY <1>1, ConcatProperties
<1>5. \A i \in 1..Len(hs) : hs[i] \in Handler /\ Made(hs[i])
  BY <1>1 DEF Added, NoneOf, Unmade
<1>6. CASE \A j \in 1..Len(hs) : hs[j].h # "read"
  <2>1. ASSUME NEW i \in 1..Len(ioq'), NEW j \in 1..Len(ioq'), ioq'[i].h = "resolved", ioq'[j].h = "read" PROVE j < i
    <3>1. j <= Len(q)
      <4>1. ~(j > Len(q))
        <5>1. ASSUME j > Len(q) PROVE FALSE
          <6>1. j - Len(q) \in 1..Len(hs) /\ ioq'[j] = hs[j - Len(q)]
            BY <1>4, <2>1, <5>1
          <6> QED BY <1>6, <2>1, <6>1
        <5> QED BY <5>1
      <4>2. j \in Nat /\ Len(q) \in Nat
        BY <1>4, <2>1
      <4> QED BY <4>1, <4>2
    <3>2. CASE i <= Len(q)
      <4>1. i \in 1..Len(q) /\ ioq'[i] = q[i]
        BY <1>4, <2>1, <3>2
      <4>2. j \in 1..Len(q) /\ ioq'[j] = q[j]
        BY <1>4, <2>1, <3>1
      <4> QED BY <1>3, <2>1, <4>1, <4>2 DEF ReadsFirst
    <3> QED BY <1>4, <3>1, <3>2
  <2> QED BY <2>1 DEF ReadsFirst
<1>7. ASSUME NEW j \in 1..Len(hs), hs[j].h = "read" PROVE ReadsFirst(ioq')
  <2>1. op.read > 0 /\ op'.read < op.read
    BY <1>5, <1>7 DEF Made
  <2>2. ~NetResolve
    <3>1. ASSUME NetResolve PROVE FALSE
      <4>1. op' = [op EXCEPT !.dial = "none"]
        BY <3>1 DEF NetResolve
      <4>2. op'.read = op.read /\ op.read \in Nat
        BY <1>2, <4>1 DEF OpRecord
      <4> QED BY <2>1, <4>2
    <3> QED BY <3>1
  <2>3. \A hd \in Resolved : HandlerFits(hd) => op.read = 0
    BY DEF Resolved, HandlerFits, Dialling
  <2>4. \A hd \in Resolved : hd \in HandlerMisfits
    BY <2>1, <2>3 DEF HandlerMisfits, Resolved, GuardHandler, HoldingHandler
  <2>5. NoneOf(ioq, Resolved)
    BY <2>4 DEF FitInv, NoneOf
  <2>6. \A hd \in Handler : Made(hd) => hd \notin Resolved
    BY <2>2 DEF Made, Resolved
  <2>7. NoneOf(ioq', Resolved)
    BY <2>5, <2>6, QueueKept
  <2>8. \A i \in 1..Len(ioq') : ioq'[i] \in Handler
    BY <1>1, <1>4
  <2> QED BY <2>7, <2>8 DEF ReadsFirst, NoneOf, Resolved
<1> QED BY <1>6, <1>7

LEMMA AttemptKept ==
  ASSUME [Next]_vars PROVE attempt' = attempt \/ (st' = "starting" /\ (RunConnect \/ RunReconnect))
<1>1. CASE IoInternal \/ IoCallback \/ Disconnect
  BY <1>1 DEF IoInternal, IoCallback, HandlePush, NextEvent, RunConnect, RunReconnect, RunSend, RunStop, RunDisconnect,
     HandleResolved, HandleConnected, HandleUpgraded, DoneConnect, AfterConnect, SetStartPromise, SetStopPromise,
     Disconnect, HandleClosed, HandleDisconnect, HandleDisconnectTimer, HandleConnectTimer, HandleReconnectTimer,
     HandleWritten, HandleControl, HandleRead, PostRecv, NotifyConnect, Recv, StartInCallback, StartConnect
<1>2. CASE GameThread \/ Calls \/ Clock \/ Network \/ UNCHANGED vars
  BY <1>2 DEF GameThread, Calls, Clock, Network, StartReturned, StopPool, StopReturned, Start, Stop,
     ConnectTimerExpires, ReconnectDelayExpires, DisconnectTick, NetResolve, NetConnect, NetUpgrade, NetClose, NetCloseFrame,
     NetWrite, NetRead, io, quiet, vars
<1> QED BY <1>1, <1>2 DEF Next, IoThread

LEMMA DoneConnectPuts ==
  ASSUME ClientInv, DoneConnect
  PROVE  /\ ~NoneOf(todo', ConnectFrame)
         /\ st = "starting" /\ st' = "started" => ~NoneOf(todo', Announcement)
<1> DEFINE error == IF TimedOut THEN "timed_out" ELSE Head(todo).ec
           ec    == IF error = "ok" /\ st # "starting" THEN "aborted" ELSE error
           nc    == [f |-> "notifyConnect", ec |-> ec]
           ac    == [f |-> "afterConnect", ec |-> ec]
<1>1. todo # <<>> /\ Head(todo).f = "done" /\ todo' = <<nc, ac>> \o Tail(todo)
  BY DEF DoneConnect, Top, Then
<1>2. Head(todo) \in Frame /\ Tail(todo) \in Seq(Frame)
  BY <1>1, TopFrame
<1>3. ec \in Failure \cup {"ok"} /\ (st = "starting" /\ st' = "started" => ec = "ok")
  BY <1>1, <1>2, FrameKinds DEF Failure, DoneConnect
<1> HIDE DEF ec
<1>4. nc \in Frame /\ ac \in Frame /\ nc \in ConnectFrame /\ (ec = "ok" => nc \in Announcement)
  BY <1>3, MakeFrame DEF ConnectFrame, Announcement
<1> HIDE DEF nc, ac
<1> DEFINE s == <<nc, ac>>
<1>5. s \in Seq(Frame) /\ Len(s) = 2 /\ s[1] = nc
  BY <1>4
<1>6. ~NoneOf(s, ConnectFrame) /\ (ec = "ok" => ~NoneOf(s, Announcement))
  BY <1>4, <1>5 DEF NoneOf
<1>7. todo' = s \o Tail(todo)
  BY <1>1
<1> HIDE DEF s
<1> QED BY <1>2, <1>3, <1>5, <1>6, <1>7, ConcatMarks

LEMMA ReaderAlone ==
  ASSUME PhaseInv, ClientInv', ReadInv, [Next]_vars, ~NoReader(todo', ioq', op')
  PROVE  NoneOf(todo', ConnectFrame) /\ NoneOf(ioq', Joined) /\ op'.dial \notin {"connect", "upgrade"}
<1>1. CASE AfterConnect
  BY <1>1, AfterConnectReads
<1>2. CASE ~AfterConnect
  <2>1. ~NoReader(todo, ioq, op) /\ ClientInv /\ ioq \in Seq(Handler)
    BY <1>2, ReaderStep DEF PhaseInv, ClientInv, TypeOK
  <2>2. NoneOf(todo, ConnectFrame) /\ NoneOf(ioq, Joined) /\ op.dial \notin {"connect", "upgrade"}
    BY <2>1 DEF ReadInv
  <2>3. ~HandleResolved /\ ~HandleConnected /\ ~HandleUpgraded /\ ~DoneConnect
    BY <2>1, ReaderBars
  <2>4. \A fr \in Frame : Put(fr) => fr \notin ConnectFrame
    BY <2>3 DEF Put, ConnectFrame
  <2>5. ~Ready("connected")
    BY <2>1, <2>2, FirstMark DEF Ready, Joined
  <2>6. \A hd \in Handler : Made(hd) => hd \notin Joined
    BY <2>2, <2>5 DEF Made, Joined
  <2>7. op'.dial \notin {"connect", "upgrade"}
    BY <2>1, <2>2, <2>3, OpReads
  <2>8. NoneOf(todo', ConnectFrame)
    BY <2>1, <2>2, <2>4, FramesKept
  <2>9. NoneOf(ioq', Joined)
    BY <2>1, <2>2, <2>6, QueueKept
  <2> QED BY <2>7, <2>8, <2>9
<1> QED BY <1>1, <1>2

LEMMA StartedReads ==
  ASSUME PhaseInv, ClientInv', ReadInv, [Next]_vars, st' = "started", NoneOf(todo', ConnectFrame)
  PROVE  ~NoReader(todo', ioq', op')
<1>1. ClientInv /\ Stacked(todo) /\ todo \in Seq(Frame) /\ ~DoneConnect
  BY DoneConnectPuts DEF PhaseInv, ClientInv, TypeOK
<1>2. st = "started"
  BY <1>1, WhoStops
<1>3. CASE NoneOf(todo, ConnectFrame)
  BY <1>2, <1>3, ReaderStep DEF ReadInv
<1>4. CASE ~NoneOf(todo, ConnectFrame)
  <2>1. todo # <<>> /\ Head(todo) \in ConnectFrame
    BY <1>1, <1>4, FramesKept
  <2>2. Head(todo).f # "done"
    BY <1>1, <1>4, <2>1, TopActs
  <2>3. Head(todo).f # "notifyConnect"
    <3>1. ASSUME Head(todo).f = "notifyConnect" PROVE FALSE
      <4>1. Tail(todo) = <<[f |-> "afterConnect", ec |-> Head(todo).ec]>>
        BY <1>1, <2>1, <3>1, StackTop
      <4>2. NotifyConnect
        BY <1>4, <2>1, <3>1, TopActs
      <4>3. todo' = Tail(todo)
        BY <1>1, <2>1, <4>2, NoFrame, TopFrame DEF NotifyConnect, Then
      <4> DEFINE ac == [f |-> "afterConnect", ec |-> Head(todo).ec]
      <4>4. ac \in Frame /\ ac.f = "afterConnect"
        BY <1>1, <2>1, <3>1, TopFrame, FrameKinds, MakeFrame
      <4>5. ac \in ConnectFrame /\ todo' = <<ac>>
        BY <4>1, <4>3, <4>4 DEF ConnectFrame
      <4> HIDE DEF ac
      <4> QED BY <4>5, SingleMarks
    <3> QED BY <3>1
  <2>4. AfterConnect
    BY <1>4, <2>1, <2>2, <2>3, TopActs DEF ConnectFrame
  <2>5. OneReader(todo', ioq', op')
    BY <2>4, AfterConnectReads
  <2> QED BY <2>5, OneIsSome DEF OneReader, NoReader
<1> QED BY <1>3, <1>4

LEMMA ReadsFresh ==
  ASSUME PhaseInv, ClientInv', ReadInv, [Next]_vars, st' = "started"
  PROVE  NoneOf(ioq', OldRead') /\ (op'.read > 0 => op'.on = attempt')
<1>1. ClientInv /\ attempt' = attempt /\ OldRead' = OldRead /\ ioq \in Seq(Handler) /\ op.read \in Nat /\ op'.read \in Nat
  BY AttemptKept DEF PhaseInv, ClientInv, TypeOK, OldRead
<1>2. CASE st # "started"
  <2>1. DoneConnect
    BY <1>1, <1>2, WhoStops
  <2>2. NoReader(todo, ioq, op)
    BY <2>1, ReaderBars
  <2>3. ioq' = ioq /\ op' = op
    BY <2>1 DEF DoneConnect
  <2>4. OldRead \subseteq ReadHandler
    BY DEF OldRead
  <2> QED BY <1>1, <2>2, <2>3, <2>4, FewerMarks DEF NoReader
<1>3. CASE st = "started"
  <2>1. NoneOf(ioq, OldRead) /\ (op.read > 0 => op.on = attempt)
    BY <1>3 DEF ReadInv
  <2>2. \A hd \in Handler : Made(hd) => hd \notin OldRead
    BY <2>1 DEF Made, OldRead, ReadHandler
  <2>3. NoneOf(ioq', OldRead')
    BY <1>1, <2>1, <2>2, QueueKept
  <2>4. op'.read > 0 => op'.on = attempt'
    <3>1. CASE AfterConnect
      BY <3>1, AfterConnectReads DEF NoReader
    <3>2. CASE PostRecv
      BY <1>1, <3>2, PostRecvReads DEF NoReader
    <3> QED BY <1>1, <2>1, <3>1, <3>2, OpReads
  <2> QED BY <2>3, <2>4
<1> QED BY <1>2, <1>3

LEMMA ReadKept == ASSUME PhaseInv, ClientInv', ReadInv, [Next]_vars PROVE ReadInv'
<1>1. ClientInv /\ FitInv /\ ReadsFirst(ioq)
  BY DEF PhaseInv, ReadInv
<1>2. NoReader(todo', ioq', op') \/ OneReader(todo', ioq', op')
  BY ReaderStep
<1>3. ReadsFirst(ioq')
  BY <1>1, ReadsFirstKept
<1>4. \/ NoReader(todo', ioq', op')
      \/ NoneOf(todo', ConnectFrame) /\ NoneOf(ioq', Joined) /\ op'.dial \notin {"connect", "upgrade"}
  BY ReaderAlone
<1>5. st' = "started" /\ NoneOf(todo', ConnectFrame) => ~NoReader(todo', ioq', op')
  BY StartedReads
<1>6. st' = "started" => NoneOf(ioq', OldRead') /\ (op'.read > 0 => op'.on = attempt')
  BY ReadsFresh
<1> QED BY <1>2, <1>3, <1>4, <1>5, <1>6 DEF ReadInv

LEMMA ReadInductive == Spec => [](PhaseInv /\ ReadInv)
<1>1. Init => ReadInv
  BY EmptyMarks DEF Init, ReadInv, NoReader, ReadsFirst
<1>2. PhaseInv /\ PhaseInv' /\ ReadInv /\ [Next]_vars => ReadInv'
  BY ReadKept DEF PhaseInv
<1> QED BY <1>1, <1>2, PhaseInductive, PTL DEF Spec

\* A client never has two reads or two writes under way: of the write the guard
\* sees to it, of the read that its handler posts the next (http_recv_op.hpp)
\* and that no connection is made while the reader of the last one is there.
THEOREM OneReadOneWriteAtATime == Spec => []OneReadOneWrite
<1>1. PhaseInv /\ ReadInv => OneReadOneWrite
  <2> SUFFICES ASSUME PhaseInv, ReadInv PROVE OneReadOneWrite
    OBVIOUS
  <2>1. op.read <= 1
    BY DEF ReadInv, NoReader, OneReader
  <2>2. OpFree(op) \/ OpOne(op)
    BY DEF PhaseInv, ClientInv, Guarded, Unheld, Held
  <2>3. op.write <= 1
    BY <2>2 DEF OpFree, OpOne
  <2> QED BY <2>1, <2>3 DEF OneReadOneWrite
<1> QED BY <1>1, ReadInductive, PTL

\* A read that failed and is handled while the client is started belongs to the
\* connection that is in use, never to one before it: it disconnects no other.
THEOREM OldReadsDoNoHarm == Spec => []StaleReadHarmless
<1>1. PhaseInv /\ ReadInv => StaleReadHarmless
  <2> SUFFICES ASSUME PhaseInv, ReadInv, Ready("read"), st = "started" PROVE Head(ioq).on = attempt
    BY DEF StaleReadHarmless
  <2>1. ioq \in Seq(Handler) /\ ioq # <<>> /\ Head(ioq).h = "read" /\ NoneOf(ioq, OldRead)
    BY DEF PhaseInv, ClientInv, TypeOK, Ready, ReadInv
  <2>2. Head(ioq) \in Handler /\ Head(ioq) \notin OldRead
    BY <2>1, FirstMark
  <2> QED BY <2>1, <2>2 DEF OldRead, ReadHandler
<1> QED BY <1>1, ReadInductive, PTL

----------------------------------------------------------------------------
(* What the user has been told of the connection.                          *)

\* A frame that fits nowhere before the client stops is not on the stack.
LEMMA NoEndBefore ==
  ASSUME FitInv, st # "stopping" PROVE NoneOf(todo, EndFrame) /\ NoneOf(todo, Unlinked)
<1>1. EndFrame \subseteq Misfits
  BY DEF EndFrame, Misfits, GuardFrame, HoldingFrame, FrameFits
<1>2. Unlinked \subseteq EndFrame
  BY DEF Unlinked, EndFrame
<1> QED BY <1>1, <1>2, FewerMarks DEF FitInv

LEMMA NoAnnouncement ==
  /\ NoneOf(todo, ConnectFrame) => NoneOf(todo, Announcement)
  /\ NoneOf(todo', ConnectFrame) => NoneOf(todo', Announcement)
<1>1. Announcement \subseteq ConnectFrame
  BY DEF Announcement, ConnectFrame
<1> QED BY <1>1, FewerMarks

LEMMA NotifyConnectLinks == ASSUME PhaseInv, LinkInv, NotifyConnect PROVE LinkInv'
<1>1. /\ ClientInv /\ FitInv /\ Stacked(todo) /\ todo # <<>> /\ Head(todo).f = "notifyConnect"
      /\ todo \in Seq(Frame) /\ st' = st /\ linked \in BOOLEAN
  BY DEF NotifyConnect, Top, PhaseInv, ClientInv, TypeOK
<1>2. Head(todo) \in Frame /\ Head(todo).ec \in Failure \cup {"ok"} /\ Tail(todo) \in Seq(Frame)
  BY <1>1, TopFrame, FrameKinds
<1>3. PICK ac \in Frame : ac = [f |-> "afterConnect", ec |-> Head(todo).ec]
  BY <1>2, MakeFrame
<1>4. Tail(todo) = <<ac>> /\ todo' = <<ac>>
  BY <1>1, <1>2, <1>3, StackTop, NoFrame DEF NotifyConnect, Then
<1>5. FrameFits(ac)
  <2>1. ~NoneOf(<<ac>>, {ac})
    BY OnlyFrame
  <2>2. NoneOf(<<ac>>, Misfits)
    BY <1>1, <1>4, FirstMark DEF FitInv
  <2>3. ac \notin Misfits
    BY <2>2, SingleMarks
  <2> QED BY <1>3, <2>3 DEF Misfits, GuardFrame, HoldingFrame
<1>6. NoneOf(todo', Announcement) /\ NoneOf(todo', Unlinked)
  BY <1>3, <1>4, SingleMarks DEF Announcement, Unlinked
<1>7. linked' = (linked \/ (Head(todo).ec = "ok" /\ st # "stopped"))
  BY DEF NotifyConnect
<1>8. CASE Head(todo).ec = "ok"
  <2>1. st = "started"
    BY <1>3, <1>5, <1>8 DEF FrameFits
  <2> QED BY <1>1, <1>6, <1>7, <1>8, <2>1 DEF LinkInv
<1>9. CASE Head(todo).ec # "ok"
  <2>1. st = "starting"
    BY <1>3, <1>5, <1>9 DEF FrameFits, Dialling
  <2> QED BY <1>1, <1>6, <1>7, <1>9, <2>1 DEF LinkInv
<1> QED BY <1>8, <1>9

LEMMA DisconnectLinks == ASSUME PhaseInv, LinkInv, Disconnect PROVE LinkInv'
<1>1. /\ ClientInv /\ FitInv /\ todo # <<>> /\ Head(todo).f = "disconnect" /\ todo \in Seq(Frame) /\ linked \in BOOLEAN
  BY DEF Disconnect, Top, PhaseInv, ClientInv, TypeOK
<1>2. st = "stopping"
  BY <1>1, TopFits DEF FrameFits, HoldingFrame
<1>3. st' = "stopped" /\ linked' = (linked /\ Head(todo).old # "started")
  BY <1>2 DEF Disconnect
<1>4. Head(todo).old # "started" => ~linked
  <2>1. Head(todo).old # "started" => Head(todo) \in Unlinked
    BY <1>1, TopFrame DEF Unlinked
  <2> QED BY <1>1, <1>2, <2>1, FirstMark DEF LinkInv
<1> QED BY <1>3, <1>4 DEF LinkInv

LEMMA LinkedBy ==
  ASSUME [Next]_vars PROVE linked' = linked \/ NotifyConnect \/ Disconnect
<1>1. CASE IoInternal \/ IoCallback \/ Disconnect
  BY <1>1 DEF IoInternal, IoCallback, HandlePush, NextEvent, RunConnect, RunReconnect, RunSend, RunStop, RunDisconnect,
     HandleResolved, HandleConnected, HandleUpgraded, DoneConnect, AfterConnect, SetStartPromise, SetStopPromise,
     HandleClosed, HandleDisconnect, HandleDisconnectTimer, HandleConnectTimer, HandleReconnectTimer,
     HandleWritten, HandleControl, HandleRead, PostRecv, Recv, StartInCallback
<1>2. CASE GameThread \/ Calls \/ Clock \/ Network \/ UNCHANGED vars
  BY <1>2 DEF GameThread, Calls, Clock, Network, StartReturned, StopPool, StopReturned, Start, Stop,
     ConnectTimerExpires, ReconnectDelayExpires, DisconnectTick, NetResolve, NetConnect, NetUpgrade, NetClose, NetCloseFrame,
     NetWrite, NetRead, io, quiet, vars
<1> QED BY <1>1, <1>2 DEF Next, IoThread

\* The beginning of an end: what it finds announced, and what it puts on the stack.
LEMMA LinkedWhenStopping ==
  ASSUME PhaseInv, ClientInv', LinkInv, [Next]_vars, st # "stopping", st' = "stopping"
  PROVE  linked <=> NoneOf(todo', Unlinked)
<1>1. /\ ClientInv /\ FitInv /\ Stacked(todo) /\ PushInv /\ NoneOf(todo, EndFrame) /\ NoneOf(todo, Unlinked)
      /\ todo \in Seq(Frame)
  BY NoEndBefore DEF PhaseInv, ClientInv, TypeOK
<1>2. CASE RunStop
  <2>1. todo # <<>> /\ Head(todo).f = "run"
    BY <1>2 DEF RunStop, RunNow, Top
  <2>2. Settled
    BY <1>1, <2>1, TopFits DEF FrameFits, HoldingFrame
  <2>3. st = "started"
    BY <1>1, <1>2, <2>2, EndInPlace DEF Connected, Settled
  <2>4. NoneOf(todo, Announcement)
    BY <1>1, <2>1, StackTop, NoAnnouncement
  <2>5. \A fr \in Frame : Put(fr) => fr \notin Unlinked
    BY <1>2, <2>1, <2>3 DEF Put, Unlinked, RunStop, RunDisconnect, RunNow
  <2>6. NoneOf(todo', Unlinked)
    BY <1>1, <2>5, FramesKept
  <2> QED BY <2>3, <2>4, <2>6 DEF LinkInv
<1>3. CASE AfterConnect
  <2> DEFINE Kept == {fr \in EndFrame : fr.old = "started"}
  <2>1. todo # <<>> /\ Head(todo).f = "afterConnect"
    BY <1>3 DEF AfterConnect, Top
  <2>2. FrameFits(Head(todo))
    BY <1>1, <2>1, TopFits DEF HoldingFrame
  <2>3. st = "starting"
    BY <1>3, <2>1, <2>2 DEF FrameFits, Dialling, AfterConnect
  <2>4. \A fr \in Frame : Put(fr) => fr \notin Kept
    BY <2>1, <2>3 DEF Put, EndFrame, RunDisconnect, RunNow, Top
  <2>5. NoneOf(todo, Kept)
    BY <1>1, FewerMarks
  <2> HIDE DEF Kept
  <2>6. NoneOf(todo', Kept)
    BY <1>1, <2>4, <2>5, FramesKept
  <2>7. ~NoneOf(todo', EndFrame)
    BY <1>1, <1>3, EndInPlace
  <2>8. \A fr \in EndFrame : fr \in Kept \/ fr \in Unlinked
    BY DEF Kept, EndFrame, Unlinked
  <2>9. ~NoneOf(todo', Unlinked)
    BY <2>6, <2>7, <2>8 DEF NoneOf
  <2> QED BY <2>3, <2>9 DEF LinkInv
<1>4. CASE st = "started" /\ (HandleWritten \/ HandleControl \/ HandleRead \/ PostRecv)
  <2>1. NoneOf(todo', EndFrame)
    BY <1>1, <1>4, EndQueued
  <2>2. NoneOf(todo', Unlinked)
    <3>1. Unlinked \subseteq EndFrame
      BY DEF Unlinked, EndFrame
    <3> QED BY <2>1, <3>1, FewerMarks
  <2>3. NoneOf(todo, Announcement)
    <3>1. CASE todo = <<>>
      BY <3>1, EmptyMarks
    <3>2. CASE todo # <<>>
      <4>1. Head(todo).f = "postRecv"
        BY <1>4, <3>2 DEF HandleWritten, HandleControl, HandleRead, PostRecv, Ready, Top
      <4> QED BY <1>1, <3>2, <4>1, StackTop, NoAnnouncement
    <3> QED BY <3>1, <3>2
  <2> QED BY <1>4, <2>2, <2>3 DEF LinkInv
<1> QED BY <1>1, <1>2, <1>3, <1>4, WhoStops

LEMMA LinkKept == ASSUME PhaseInv, ClientInv', LinkInv, [Next]_vars PROVE LinkInv'
<1>1. /\ ClientInv /\ FitInv /\ EndInv /\ todo \in Seq(Frame) /\ st \in State /\ st' \in State
      /\ linked \in BOOLEAN /\ linked' \in BOOLEAN
  BY DEF PhaseInv, ClientInv, TypeOK
<1>2. CASE NotifyConnect \/ Disconnect
  BY <1>2, NotifyConnectLinks, DisconnectLinks
<1>3. CASE ~NotifyConnect /\ ~Disconnect
  <2>1. linked' = linked
    BY <1>3, LinkedBy
  <2>2. CASE st = "started" /\ st' = "started"
    <3>1. ~DoneConnect
      <4>1. ASSUME DoneConnect PROVE FALSE
        <5>1. todo # <<>> /\ Head(todo).f = "done"
          BY <4>1 DEF DoneConnect, Top
        <5> QED BY <1>1, <2>2, <5>1, TopFits DEF FrameFits, Dialling, HoldingFrame
      <4> QED BY <4>1
    <3>2. \A fr \in Frame : Put(fr) => fr \notin Announcement
      BY <3>1 DEF Put, Announcement
    <3>3. todo # <<>> /\ Head(todo) \in Announcement => todo' = todo
      BY <1>3, TopActs DEF Announcement
    <3>4. NoneOf(todo', Announcement) <=> NoneOf(todo, Announcement)
      BY <1>1, <3>2, <3>3, FramesKept
    <3> QED BY <2>1, <2>2, <3>4 DEF LinkInv
  <2>3. CASE st = "stopping" /\ st' = "stopping"
    <3>1. RunDisconnect => Head(events).old = "started"
      BY <1>1, RunDisconnectEnds
    <3>2. \A fr \in Frame : Put(fr) => fr \notin Unlinked
      BY <2>3, <3>1 DEF Put, Unlinked, Connected
    <3>3. todo # <<>> /\ Head(todo) \in Unlinked => todo' = todo
      BY <1>3, TopActs DEF Unlinked
    <3>4. NoneOf(todo', Unlinked) <=> NoneOf(todo, Unlinked)
      BY <1>1, <3>2, <3>3, FramesKept
    <3> QED BY <2>1, <2>3, <3>4 DEF LinkInv
  <2>4. CASE st # "stopping" /\ st' = "stopping"
    BY <2>1, <2>4, LinkedWhenStopping DEF LinkInv
  <2>5. CASE st # "started" /\ st' = "started"
    <3>1. DoneConnect /\ st = "starting"
      BY <1>1, <2>5, WhoStops
    <3>2. ~NoneOf(todo', Announcement)
      BY <1>1, <2>5, <3>1, DoneConnectPuts
    <3> QED BY <2>1, <2>5, <3>1, <3>2 DEF LinkInv
  <2>6. CASE st' \notin {"started", "stopping"}
    <3>1. st \notin {"started", "stopping"}
      BY <1>1, <1>3, <2>6, WhoStops
    <3> QED BY <2>1, <2>6, <3>1 DEF LinkInv
  <2> QED BY <2>2, <2>3, <2>4, <2>5, <2>6
<1> QED BY <1>2, <1>3

LEMMA LinkInductive == Spec => [](PhaseInv /\ LinkInv)
<1>1. Init => LinkInv
  BY DEF Init, LinkInv
<1>2. PhaseInv /\ PhaseInv' /\ LinkInv /\ [Next]_vars => LinkInv'
  BY LinkKept DEF PhaseInv
<1> QED BY <1>1, <1>2, PhaseInductive, PTL DEF Spec

\* The end of a connection in use is in the queue or on the stack as long as it
\* has not been told.
LEMMA EndIsPending ==
  ASSUME PhaseInv, st = "stopping" PROVE EndPending <=> NoneOf(todo, Unlinked)
<1>1. /\ ClientInv /\ FitInv /\ NoneOf(events, Ended) /\ Ends
      /\ todo \in Seq(Frame) /\ events \in Seq(Event)
  BY DEF PhaseInv, ClientInv, TypeOK, EndInv
<1>2. /\ \A i \in 1..Len(todo) : todo[i] \in Frame
      /\ \A i \in 1..Len(events) : events[i] \in Event
  BY <1>1
<1>3. CASE NoneOf(todo, EndFrame)
  <2>1. OneOf(Waiting(events, todo), Ending)
    BY <1>1, <1>3 DEF Ends
  <2>2. ~NoneOf(events, Ending)
    <3>1. ~NoneOf(Waiting(events, todo), Ending)
      BY <2>1, OneIsSome
    <3>2. CASE events = <<>>
      BY <3>1, <3>2 DEF Waiting
    <3>3. CASE events # <<>>
      BY <1>1, <3>1, <3>3, FirstMark DEF Waiting
    <3> QED BY <3>2, <3>3
  <2>3. PICK i \in 1..Len(events) : events[i] \in Ending
    BY <2>2 DEF NoneOf
  <2>4. events[i].e = "disconnect" /\ events[i].old = "started"
    BY <1>1, <1>2, <2>3 DEF NoneOf, Ending, Ended
  <2>5. EndPending
    BY <2>4 DEF EndPending
  <2>6. NoneOf(todo, Unlinked)
    <3>1. Unlinked \subseteq EndFrame
      BY DEF Unlinked, EndFrame
    <3> QED BY <1>3, <3>1, FewerMarks
  <2> QED BY <2>5, <2>6
<1>4. ASSUME NEW i \in 1..Len(todo), todo[i] \in EndFrame PROVE EndPending <=> NoneOf(todo, Unlinked)
  <2>1. todo[i] \in GuardFrame /\ todo[i].f = "disconnect"
    BY <1>2, <1>4 DEF EndFrame, GuardFrame, HoldingFrame
  <2>2. events # <<>> /\ \A j \in 1..Len(todo) : todo[j] \in GuardFrame => j = i
    BY <1>1, <2>1, FrameAlone DEF ClientInv
  <2>3. \A j \in 1..Len(todo) : todo[j].f = "disconnect" => j = i
    BY <1>2, <2>2 DEF GuardFrame, HoldingFrame
  <2>4. CASE todo[i].old = "started"
    <3>1. EndPending
      BY <2>1, <2>4 DEF EndPending
    <3>2. NoneOf(todo, Unlinked)
      BY <2>3, <2>4 DEF NoneOf, Unlinked
    <3> QED BY <3>1, <3>2
  <2>5. CASE todo[i].old # "started"
    <3>1. ~NoneOf(todo, Unlinked)
      BY <1>2, <2>1, <2>5 DEF NoneOf, Unlinked
    <3>2. FrameFits(todo[i])
      BY <1>1, <1>2, <2>1 DEF FitInv, NoneOf, Misfits
    <3>3. Head(events).e # "disconnect"
      BY <2>1, <2>5, <3>2 DEF FrameFits
    <3>4. ~NoneOf(todo, EndFrame)
      BY <1>4 DEF NoneOf
    <3>5. NoneOf(Waiting(events, todo), Ending)
      BY <1>1, <3>4 DEF Ends
    <3>6. NoneOf(events, Ending)
      BY <1>1, <2>2, <3>3, <3>5, FirstMark DEF Waiting, Ending
    <3>7. \A j \in 1..Len(events) : events[j].e # "disconnect"
      BY <1>2, <3>6 DEF NoneOf, Ending
    <3> QED BY <2>3, <2>5, <3>1, <3>7 DEF EndPending
  <2> QED BY <2>4, <2>5
<1> QED BY <1>3, <1>4 DEF NoneOf

\* The disconnect notification is due exactly for the connections whose connect
\* notification has been made, and each is made once, whether stop, a failed
\* read or a failed write ends the connection (disconnect_cp.hpp).
THEOREM EndsAreNotifiedOnce == Spec => []NotifiedOnce
<1>1. PhaseInv /\ LinkInv => NotifiedOnce
  <2> SUFFICES ASSUME PhaseInv, LinkInv PROVE NotifiedOnce
    OBVIOUS
  <2>1. \A i \in 1..Len(todo) : todo[i] \in Frame
    BY DEF PhaseInv, ClientInv, TypeOK
  <2>2. Announcing <=> ~NoneOf(todo, Announcement)
    BY <2>1 DEF Announcing, NoneOf, Announcement
  <2>3. st = "stopping" => (EndPending <=> NoneOf(todo, Unlinked))
    BY EndIsPending
  <2>4. linked \in BOOLEAN
    BY DEF PhaseInv, ClientInv, TypeOK
  <2> QED BY <2>2, <2>3, <2>4 DEF LinkInv, NotifiedOnce
<1> QED BY <1>1, LinkInductive, PTL

----------------------------------------------------------------------------
(* Nothing of the connection outlives the io thread.                       *)

LEMMA PoolKept == ASSUME ClientInv, PoolInv, [Next]_vars PROVE PoolInv'
<1>1. CASE pool' # "down"
  BY <1>1 DEF PoolInv
<1>2. CASE pool' = "down" /\ pool # "down"
  <2>1. StopReturned
    <3>1. CASE IoInternal \/ IoCallback \/ Disconnect
      BY <1>2, <3>1 DEF IoInternal, IoCallback, HandlePush, NextEvent, RunConnect, RunReconnect, RunSend, RunStop,
         RunDisconnect, HandleResolved, HandleConnected, HandleUpgraded, DoneConnect, AfterConnect, SetStartPromise,
         SetStopPromise, Disconnect, HandleClosed, HandleDisconnect, HandleDisconnectTimer, HandleConnectTimer,
         HandleReconnectTimer, HandleWritten, HandleControl, HandleRead, PostRecv, NotifyConnect, Recv, StartInCallback, caller
    <3>2. CASE GameThread \/ Calls \/ Clock \/ Network \/ UNCHANGED vars
      BY <1>2, <3>2 DEF GameThread, Calls, Clock, Network, StartReturned, StopPool, Start, Stop,
         ConnectTimerExpires, ReconnectDelayExpires, DisconnectTick, NetResolve, NetConnect, NetUpgrade, NetClose, NetCloseFrame,
         NetWrite, NetRead, quiet, vars, caller
    <3> QED BY <3>1, <3>2 DEF Next, IoThread
  <2> QED BY <2>1 DEF StopReturned, NoWork, io, timers, PoolInv
<1>3. CASE pool = "down" /\ pool' = "down"
  <2>1. NoWork
    BY <1>3 DEF PoolInv
  <2>2. ~IoThread
    BY <2>1 DEF NoWork, IoThread, IoInternal, IoCallback, HandlePush, NextEvent, RunConnect, RunReconnect, RunSend, RunStop,
         RunDisconnect, HandleResolved, HandleConnected, HandleUpgraded, DoneConnect, AfterConnect, SetStartPromise,
         SetStopPromise, Disconnect, HandleClosed, HandleDisconnect, HandleDisconnectTimer, HandleConnectTimer,
         HandleReconnectTimer, HandleWritten, HandleControl, HandleRead, PostRecv, NotifyConnect, Recv, StartInCallback, RunNow, Top, Ready
  <2>3. ~Network /\ ~Clock
    BY <2>1 DEF NoWork, Network, Clock, NetResolve, NetConnect, NetUpgrade, NetClose, NetCloseFrame, NetWrite, NetRead,
         ConnectTimerExpires, ReconnectDelayExpires, DisconnectTick
  <2>4. ~Start /\ ~Stop
    BY <1>3 DEF Start, Stop
  <2>5. CASE StartReturned
    BY <2>1, <2>5 DEF StartReturned, io, timers, NoWork, PoolInv
  <2>6. CASE StopPool
    BY <1>3, <2>6 DEF StopPool
  <2>7. CASE StopReturned
    BY <2>1, <2>7 DEF StopReturned, io, timers, NoWork, PoolInv
  <2>8. CASE UNCHANGED vars
    BY <2>1, <2>8 DEF vars, timers, NoWork, PoolInv
  <2> QED BY <2>2, <2>3, <2>4, <2>5, <2>6, <2>7, <2>8 DEF Next, GameThread, Calls
<1> QED BY <1>1, <1>2, <1>3

LEMMA NoWorkIsIdle ==
  ASSUME PhaseInv, ReadInv, LinkInv, NoWork
  PROVE  st = "stopped" /\ ~sockOpen /\ events = <<>> /\ ~linked
<1>1. /\ ClientInv /\ FitInv /\ Ends /\ todo = <<>> /\ ioq = <<>> /\ OpFree(op) /\ op.read = 0
      /\ st \in State /\ linked \in BOOLEAN
  BY DEF PhaseInv, ClientInv, TypeOK, NoWork, OpFree, EndInv
<1>2. events = <<>>
  <2>1. NoneOf(todo, GuardFrame) /\ NoneOf(ioq, GuardHandler)
    BY <1>1, EmptyMarks
  <2>2. ~OneOf(todo, GuardFrame) /\ ~OneOf(ioq, GuardHandler) /\ ~OpOne(op)
    BY <1>1, <2>1, OneIsSome DEF OpOne, OpFree
  <2> QED BY <1>1, <2>2 DEF ClientInv, Guarded, Held
<1>3. Settled
  BY <1>1, <1>2 DEF FitInv
<1>4. st # "stopping"
  <2>1. NoneOf(todo, EndFrame) /\ NoneOf(<<>>, Ending)
    BY <1>1, EmptyMarks
  <2>2. ~OneOf(<<>>, Ending)
    BY <2>1, OneIsSome
  <2> QED BY <1>1, <1>2, <2>1, <2>2 DEF Ends, Waiting
<1>5. st # "started"
  BY <1>1, EmptyMarks DEF ReadInv, NoReader
<1>6. st = "stopped"
  BY <1>1, <1>3, <1>4, <1>5 DEF Settled, State
<1> QED BY <1>1, <1>2, <1>3, <1>6 DEF Settled, LinkInv

LEMMA PoolInductive == Spec => [](PhaseInv /\ PoolInv)
<1>1. Init => PoolInv
  BY DEF Init, PoolInv, NoWork
<1>2. PhaseInv /\ PoolInv /\ [Next]_vars => PoolInv'
  BY PoolKept DEF PhaseInv
<1> QED BY <1>1, <1>2, PhaseInductive, PTL DEF Spec

\* When stop has returned and the io thread has ended the client is stopped, its
\* socket closed, its event queue empty, and the user told of the end: the next
\* start finds it as new.
THEOREM NothingIsLeftBehind == Spec => []StopLeavesNothing
<1>1. PhaseInv /\ ReadInv /\ LinkInv /\ PoolInv => StopLeavesNothing
  BY NoWorkIsIdle DEF PoolInv, StopLeavesNothing
<1> QED BY <1>1, PoolInductive, ReadInductive, LinkInductive, PTL
----------------------------------------------------------------------------
(* Steps of the client that the proofs about its users look at. *)

\* The delay of a reconnect begins when the reconnect timer is woken.
LEMMA DelayBegins ==
  ASSUME TypeOK, [Next]_vars, rtimer'.wait = "delay" PROVE rtimer.wait = "delay" \/ HandleReconnectTimer
<1>1. rtimer \in [id : Attempt, wait : {"none", "never", "delay"}, canceled : BOOLEAN]
  BY DEF TypeOK
<1>2. ASSUME RunConnect \/ RunReconnect PROVE rtimer' = rtimer \/ rtimer'.wait = "never"
  BY <1>2 DEF RunConnect, RunReconnect, StartConnect
<1>3. ASSUME RunStop \/ SetStopPromise \/ HandleDisconnect \/ ReconnectDelayExpires
      PROVE  rtimer' = rtimer \/ rtimer'.wait = "none"
  BY <1>1, <1>3 DEF RunStop, SetStopPromise, HandleDisconnect, CancelReconnect, ReconnectDelayExpires
<1>4. ASSUME \/ HandlePush \/ NextEvent \/ RunSend \/ RunDisconnect \/ HandleResolved \/ HandleConnected
             \/ HandleUpgraded \/ DoneConnect \/ AfterConnect \/ SetStartPromise \/ Disconnect \/ HandleClosed
             \/ HandleDisconnectTimer \/ HandleConnectTimer \/ HandleWritten \/ HandleControl \/ HandleRead \/ PostRecv \/ IoCallback
      PROVE  rtimer' = rtimer
  BY <1>4 DEF HandlePush, NextEvent, RunSend, RunDisconnect, HandleResolved, HandleConnected,
     HandleUpgraded, DoneConnect, AfterConnect, SetStartPromise, Disconnect, HandleClosed, HandleDisconnectTimer,
     HandleConnectTimer, HandleWritten, HandleControl, HandleRead, PostRecv, IoCallback, NotifyConnect, Recv, StartInCallback, timers
<1>5. ASSUME \/ GameThread \/ Calls \/ Network \/ ConnectTimerExpires \/ DisconnectTick \/ UNCHANGED vars
      PROVE  rtimer' = rtimer
  BY <1>5 DEF GameThread, Calls, Network, StartReturned, StopPool, StopReturned, Start, Stop,
     ConnectTimerExpires, DisconnectTick, NetResolve, NetConnect, NetUpgrade, NetClose, NetCloseFrame,
     NetWrite, NetRead, io, quiet, vars, timers
<1> QED BY <1>2, <1>3, <1>4, <1>5 DEF Next, IoThread, IoInternal, Clock

\* What the waiting events become.
LEMMA WaitingMoves ==
  ASSUME ClientInv, ClientInv', PushInv, [Next]_vars, NEW W, W = Waiting(events, todo), NEW Z, Z = Waiting(events', todo')
  PROVE  /\ W \in Seq(Event)
         /\ \/ Z = W
            \/ \E ev \in Event : Queued(ev) /\ Z = Append(W, ev)
            \/ W # <<>> /\ Z = Tail(W) /\ W = events /\ todo # <<>> /\ Head(todo).f = "run"
  BY WaitingStep, QueuedBy

\* A connect event begins: the client is settled, and starts connecting or returns
\* at once.
LEMMA RunConnectTakes ==
  ASSUME PhaseInv, RunConnect
  PROVE  /\ events # <<>> /\ Head(events) \in Event /\ Head(events).e = "connect"
         /\ Waiting(events, todo) = events /\ Waiting(events', todo') = Tail(events)
         /\ st # "starting" /\ NoneOf(todo, ConnectFrame) /\ NoneOf(todo', ConnectFrame) /\ todo # <<>>
         /\ \/ st = "stopped" /\ st' = "starting" /\ chain' = Head(events).by /\ todo' = Tail(todo)
            \/ /\ st' = st /\ chain' = chain
               /\ todo' = (StartReturns(Head(events).by, "already_started") \o <<Release>>) \o Tail(todo)
<1>1. /\ todo # <<>> /\ Head(todo).f = "run" /\ Head(todo).f \in HoldingFrame
      /\ events # <<>> /\ Head(events) \in Event /\ Head(events).e = "connect"
  BY RunEvent DEF PhaseInv, RunConnect
<1>2. ClientInv /\ Stacked(todo) /\ todo \in Seq(Frame) /\ events' = events
  BY DEF PhaseInv, ClientInv, TypeOK, RunConnect
<1>3. Head(todo) \in Frame /\ Tail(todo) \in Seq(Frame) /\ Unheld(Tail(todo), ioq, op)
  BY <1>1, <1>2, TopFrame
<1>4. st # "starting"
  BY <1>1, <1>2, TopFits DEF PhaseInv, FrameFits, Settled
<1>5. NoneOf(todo, ConnectFrame) /\ NoneOf(Tail(todo), ConnectFrame)
  BY <1>1, <1>2, StackTop, FirstMark
<1>6. \/ st = "stopped" /\ st' = "starting" /\ chain' = Head(events).by /\ todo' = Tail(todo)
      \/ /\ st' = st /\ chain' = chain
         /\ todo' = (StartReturns(Head(events).by, "already_started") \o <<Release>>) \o Tail(todo)
  <2>1. CASE st = "stopped"
    BY <1>3, <2>1, NoFrame DEF RunConnect, StartConnect, Then
  <2>2. CASE st # "stopped"
    BY <2>2 DEF RunConnect, Then
  <2> QED BY <2>1, <2>2
<1> DEFINE gs == StartReturns(Head(events).by, "already_started") \o <<Release>>
<1>7. gs \in Seq(Frame) /\ NoRun(gs) /\ NoneOf(gs, ConnectFrame)
  <2>1. Head(events).by \in Caller
    BY <1>1, EventKinds
  <2>2. NoRun(gs) /\ gs \in Seq(Frame)
    BY <2>1, StartReturnsFrames, ReleaseFrames, UnheldNoRun, NoRunFrames, ConcatProperties
  <2> DEFINE rs == StartReturns(Head(events).by, "already_started")
             fr == [f |-> "startReturns", by |-> Head(events).by, value |-> "already_started"]
             ls == <<Release>>
  <2>3. rs = <<fr>> /\ fr \in Frame /\ fr.f = "startReturns"
    BY <2>1, MakeFrame DEF StartReturns
  <2> HIDE DEF fr
  <2>4. rs \in Seq(Frame) /\ NoneOf(rs, ConnectFrame) /\ ls \in Seq(Frame) /\ NoneOf(ls, ConnectFrame) /\ gs = rs \o ls
    BY <2>3, PlainFrames
  <2> HIDE DEF gs, rs, ls
  <2> QED BY <2>2, <2>4, ConcatMarks
<1>8. NoRun(todo') /\ NoneOf(todo', ConnectFrame)
  <2>1. NoRun(Tail(todo))
    BY <1>3, UnheldNoRun DEF Unheld
  <2>2. todo' = Tail(todo) \/ todo' = gs \o Tail(todo)
    BY <1>6
  <2> HIDE DEF gs
  <2>3. NoRun(gs \o Tail(todo))
    BY <1>3, <1>7, <2>1, NoRunFrames
  <2>4. NoneOf(gs \o Tail(todo), ConnectFrame)
    BY <1>3, <1>5, <1>7, ConcatMarks
  <2> QED BY <1>5, <2>1, <2>2, <2>3, <2>4
<1>9. ~NoRun(todo)
  <2>1. Head(todo) = Run
    BY <1>1, <1>3 DEF Frame, Run
  <2> QED BY <1>1, <1>2, <2>1, FirstMark DEF NoRun
<1> QED BY <1>1, <1>2, <1>4, <1>5, <1>6, <1>8, <1>9 DEF Waiting

=============================================================================
