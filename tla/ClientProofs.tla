---------------------------- MODULE ClientProofs ----------------------------
(***************************************************************************)
(* Proofs about Asio2Client, for every configuration of the client, any    *)
(* number of endpoints and any bounds: the guard of the event queue is     *)
(* never lost and never doubled, so the queue is a serial executor.        *)
(***************************************************************************)
EXTENDS Asio2Client, TLAPS, FiniteSetTheorems, SequenceTheorems

----------------------------------------------------------------------------
(* The inductive invariant.  Whoever holds the guard is a frame of the call *)
(* stack, a completed handler, or an operation; these are looked at apart.  *)

\* No element of a sequence is in H; exactly one is.
NoneOf(s, H) == \A i \in 1..Len(s) : s[i] \notin H
OneOf(s, H)  == \E i \in 1..Len(s) : \A j \in 1..Len(s) : s[j] \in H <=> j = i

GuardFrame   == {fr \in Frame : fr.f \in HoldingFrame}
GuardHandler == {hd \in Handler : hd.h \in HoldingHandler}

OpFree(o) == o.dial = "none" /\ o.write = 0 /\ o.close = "no"
OpOne(o) ==
    \/ o.dial # "none" /\ o.write = 0 /\ o.close = "no"
    \/ o.dial = "none" /\ o.write = 1 /\ o.close = "no"
    \/ o.dial = "none" /\ o.write = 0 /\ o.close # "no"

Unheld(s, q, o) == NoneOf(s, GuardFrame) /\ NoneOf(q, GuardHandler) /\ OpFree(o)
Held(s, q, o) ==
    \/ OneOf(s, GuardFrame) /\ NoneOf(q, GuardHandler) /\ OpFree(o)
    \/ NoneOf(s, GuardFrame) /\ OneOf(q, GuardHandler) /\ OpFree(o)
    \/ NoneOf(s, GuardFrame) /\ NoneOf(q, GuardHandler) /\ OpOne(o)

Guarded(evs, s, q, o) == IF evs = <<>> THEN Unheld(s, q, o) ELSE Held(s, q, o)

\* The connect notification is made under the guard: _done_connect goes on after it.
Followed(s) ==
    \A i \in 1..Len(s) : s[i].f = "notifyConnect" => i < Len(s) /\ s[i + 1].f = "afterConnect"

\* The record of pending operations.
OpRecord == [dial : {"none", "resolve", "connect", "upgrade"}, ep : 1..Endpoints,
             read : Nat, on : Attempt, write : Nat,
             close : Caller \cup {"none", "no"}, ws : BOOLEAN]

ClientInv == TypeOK /\ Guarded(events, todo, ioq, op) /\ Followed(todo)

----------------------------------------------------------------------------
(* What frames, handlers and events there are. *)

LEMMA EventKinds ==
  ASSUME NEW ev \in Event
  PROVE  /\ ev.e = "connect" => ev.by \in Caller /\ ev.to \in 1..MaxStarts
         /\ ev.e = "stop" => ev.by \in Caller
         /\ ev.e = "disconnect" => ev.old \in State
         /\ ev.e = "reconnect" => ev.id \in Nat
  BY DEF Event, Attempt

LEMMA MakeEvent ==
  /\ [e |-> "send"] \in Event
  /\ \A by \in Caller : [e |-> "stop", by |-> by] \in Event
  /\ \A by \in Caller, to \in 1..MaxStarts : [e |-> "connect", by |-> by, to |-> to] \in Event
  /\ \A old \in State : [e |-> "disconnect", old |-> old] \in Event
  /\ \A id \in Nat : [e |-> "reconnect", id |-> id] \in Event
  BY DEF Event, Attempt

LEMMA FrameKinds ==
  ASSUME NEW fr \in Frame
  PROVE  /\ fr.f \in {"done", "notifyConnect", "afterConnect"} => fr.ec \in Failure \cup {"ok"}
         /\ fr.f = "startReturns" => fr.by \in Caller /\ fr.value \in {"ok", "failed", "already_started"}
         /\ fr.f = "stopReturns" => fr.by \in Caller
         /\ fr.f = "disconnect" => fr.old \in State /\ fr.by \in Caller \cup {"none"}
         /\ fr.f = "disconnected" => fr.by \in Caller \cup {"none"}
  BY DEF Frame

LEMMA MakeFrame ==
  /\ \A f \in {"run", "release", "recv", "postRecv"} : [f |-> f] \in Frame
  /\ \A f \in {"done", "notifyConnect", "afterConnect"}, ec \in Failure \cup {"ok"} : [f |-> f, ec |-> ec] \in Frame
  /\ \A by \in Caller, v \in {"ok", "failed", "already_started"} :
        [f |-> "startReturns", by |-> by, value |-> v] \in Frame
  /\ \A by \in Caller : [f |-> "stopReturns", by |-> by] \in Frame
  /\ \A old \in State, by \in Caller \cup {"none"} : [f |-> "disconnect", old |-> old, by |-> by] \in Frame
  /\ \A by \in Caller \cup {"none"} : [f |-> "disconnected", by |-> by] \in Frame
  BY DEF Frame

LEMMA HandlerKinds ==
  ASSUME NEW hd \in Handler
  PROVE  /\ hd.h = "push" => hd.ev \in Event
         /\ hd.h \in {"resolved", "connected", "upgraded"} => hd.ec \in Failure \cup {"ok"}
         /\ hd.h = "written" => hd.ok \in BOOLEAN
         /\ hd.h = "read" => hd.ok \in BOOLEAN /\ hd.on \in Nat
         /\ hd.h \in {"ctimer", "rtimer"} => hd.id \in Nat /\ hd.expired \in BOOLEAN
         /\ hd.h = "dtimer" => hd.id \in Nat
         /\ hd.h = "closed" => hd.by \in Caller \cup {"none"}
<1> HIDE DEF Event
<1> QED BY DEF Handler, Attempt

LEMMA MakeHandler ==
  /\ \A ev \in Event : [h |-> "push", ev |-> ev] \in Handler
  /\ \A h \in {"resolved", "connected", "upgraded"}, ec \in Failure \cup {"ok"} : [h |-> h, ec |-> ec] \in Handler
  /\ \A ok \in BOOLEAN : [h |-> "written", ok |-> ok] \in Handler
  /\ \A ok \in BOOLEAN, on \in Nat : [h |-> "read", ok |-> ok, on |-> on] \in Handler
  /\ \A h \in {"ctimer", "rtimer"}, id \in Nat, x \in BOOLEAN : [h |-> h, id |-> id, expired |-> x] \in Handler
  /\ \A id \in Nat : [h |-> "dtimer", id |-> id] \in Handler
  /\ \A by \in Caller \cup {"none"} : [h |-> "closed", by |-> by] \in Handler
  /\ [h |-> "control"] \in Handler
  BY DEF Handler, Attempt

----------------------------------------------------------------------------
(* Sequences. *)

LEMMA ConcatMarks ==
  ASSUME NEW S, NEW H, NEW s \in Seq(S), NEW t \in Seq(S)
  PROVE  /\ NoneOf(s \o t, H) <=> NoneOf(s, H) /\ NoneOf(t, H)
         /\ OneOf(s, H) /\ NoneOf(t, H) => OneOf(s \o t, H)
         /\ NoneOf(s, H) /\ OneOf(t, H) => OneOf(s \o t, H)
<1>1. /\ Len(s) \in Nat /\ Len(t) \in Nat
      /\ Len(s \o t) = Len(s) + Len(t)
      /\ \A i \in 1..Len(s) + Len(t) : (s \o t)[i] = IF i <= Len(s) THEN s[i] ELSE t[i - Len(s)]
  BY ConcatProperties, LenProperties
<1> DEFINE m == Len(s)
           n == Len(t)
           r == s \o t
<1>2. \A i \in 1..m : i \in 1..m + n /\ r[i] = s[i]
  BY <1>1
<1>3. \A i \in 1..n : m + i \in 1..m + n /\ r[m + i] = t[i]
  BY <1>1
<1>4. ASSUME NEW i \in 1..m + n
      PROVE  \/ i \in 1..m /\ r[i] = s[i]
             \/ i - m \in 1..n /\ r[i] = t[i - m] /\ ~(i <= m)
  BY <1>1
<1>5. m \in Nat /\ n \in Nat /\ Len(r) = m + n
  BY <1>1
<1> HIDE DEF m, n, r
<1>6. NoneOf(r, H) <=> NoneOf(s, H) /\ NoneOf(t, H)
  BY <1>2, <1>3, <1>4, <1>5 DEF NoneOf, m, n
<1>7. ASSUME OneOf(s, H), NoneOf(t, H) PROVE OneOf(r, H)
  <2>1. PICK i \in 1..m : \A j \in 1..m : s[j] \in H <=> j = i
    BY <1>7 DEF OneOf, m
  <2>2. \A j \in 1..n : t[j] \notin H
    BY <1>7 DEF NoneOf, n
  <2>3. \A j \in 1..m + n : r[j] \in H <=> j = i
    BY <1>2, <1>4, <1>5, <2>1, <2>2
  <2>4. i \in 1..Len(r)
    BY <1>2, <1>5
  <2> QED BY <1>5, <2>3, <2>4 DEF OneOf
<1>8. ASSUME NoneOf(s, H), OneOf(t, H) PROVE OneOf(r, H)
  <2>1. PICK i \in 1..n : \A j \in 1..n : t[j] \in H <=> j = i
    BY <1>8 DEF OneOf, n
  <2>2. \A j \in 1..m : s[j] \notin H
    BY <1>8 DEF NoneOf, m
  <2>3. \A j \in 1..m + n : r[j] \in H <=> j = m + i
    BY <1>2, <1>4, <1>5, <2>1, <2>2
  <2>4. m + i \in 1..Len(r)
    BY <1>3, <1>5
  <2> QED BY <1>5, <2>3, <2>4 DEF OneOf
<1> QED BY <1>6, <1>7, <1>8 DEF r

LEMMA EmptyMarks == ASSUME NEW H PROVE NoneOf(<<>>, H)
  BY DEF NoneOf

LEMMA SingleMarks ==
  ASSUME NEW H, NEW x
  PROVE  /\ NoneOf(<<x>>, H) <=> x \notin H
         /\ OneOf(<<x>>, H) <=> x \in H
  BY DEF NoneOf, OneOf

LEMMA FirstMark ==
  ASSUME NEW S, NEW H, NEW s \in Seq(S), s # <<>>
  PROVE  /\ Head(s) \in S /\ Tail(s) \in Seq(S)
         /\ NoneOf(s, H) <=> Head(s) \notin H /\ NoneOf(Tail(s), H)
         /\ OneOf(s, H) => IF Head(s) \in H THEN NoneOf(Tail(s), H) ELSE OneOf(Tail(s), H)
<1>1. /\ Head(s) \in S /\ Head(s) = s[1] /\ Tail(s) \in Seq(S)
      /\ Len(s) \in Nat \ {0} /\ Len(Tail(s)) = Len(s) - 1
      /\ \A i \in 1..Len(Tail(s)) : Tail(s)[i] = s[i + 1]
  BY HeadTailProperties, EmptySeq
<1> DEFINE n == Len(s)
           r == Tail(s)
<1>2. \A i \in 1..n - 1 : i + 1 \in 1..n /\ r[i] = s[i + 1]
  BY <1>1
<1>3. \A i \in 1..n : i # 1 => i - 1 \in 1..n - 1 /\ r[i - 1] = s[i]
  BY <1>1
<1>4. n \in Nat \ {0} /\ Len(r) = n - 1 /\ Head(s) = s[1] /\ 1 \in 1..n
  BY <1>1
<1> HIDE DEF r, n
<1>5. NoneOf(s, H) <=> Head(s) \notin H /\ NoneOf(r, H)
  BY <1>2, <1>3, <1>4 DEF NoneOf, n
<1>6. ASSUME OneOf(s, H), Head(s) \in H PROVE NoneOf(r, H)
  BY <1>2, <1>4, <1>6 DEF OneOf, NoneOf, n
<1>7. ASSUME OneOf(s, H), Head(s) \notin H PROVE OneOf(r, H)
  <2>1. PICK i \in 1..n : \A j \in 1..n : s[j] \in H <=> j = i
    BY <1>7 DEF OneOf, n
  <2>2. i # 1 /\ i - 1 \in 1..n - 1
    BY <1>3, <1>4, <1>7, <2>1
  <2>3. \A j \in 1..n - 1 : r[j] \in H <=> j = i - 1
    BY <1>2, <2>1, <2>2
  <2>4. i - 1 \in 1..Len(r)
    BY <1>4, <2>2
  <2> QED BY <1>4, <2>3, <2>4 DEF OneOf
<1> QED BY <1>1, <1>5, <1>6, <1>7 DEF r

\* A notification and what follows it.
LEMMA FollowedConcat ==
  ASSUME NEW s \in Seq(Frame), NEW t \in Seq(Frame), Followed(s), Followed(t)
  PROVE  Followed(s \o t)
<1>1. /\ Len(s) \in Nat /\ Len(t) \in Nat
      /\ Len(s \o t) = Len(s) + Len(t)
      /\ \A i \in 1..Len(s) + Len(t) : (s \o t)[i] = IF i <= Len(s) THEN s[i] ELSE t[i - Len(s)]
  BY ConcatProperties, LenProperties
<1> DEFINE m == Len(s)
           n == Len(t)
           r == s \o t
<1>2. m \in Nat /\ n \in Nat /\ Len(r) = m + n /\ \A i \in 1..m + n : r[i] = IF i <= m THEN s[i] ELSE t[i - m]
  BY <1>1
<1>3. /\ \A i \in 1..m : s[i].f = "notifyConnect" => i < m /\ s[i + 1].f = "afterConnect"
      /\ \A i \in 1..n : t[i].f = "notifyConnect" => i < n /\ t[i + 1].f = "afterConnect"
  BY DEF Followed
<1> HIDE DEF m, n, r
<1>4. ASSUME NEW i \in 1..m + n, r[i].f = "notifyConnect"
      PROVE  i < m + n /\ r[i + 1].f = "afterConnect"
  <2>1. CASE i <= m
    <3>1. i \in 1..m /\ s[i].f = "notifyConnect"
      BY <1>2, <1>4, <2>1
    <3>2. i + 1 \in 1..m + n /\ i + 1 <= m /\ s[i + 1].f = "afterConnect"
      BY <1>2, <1>3, <3>1
    <3> QED BY <1>2, <3>2
  <2>2. CASE ~(i <= m)
    <3> DEFINE j == i - m
    <3>1. j \in 1..n /\ t[j].f = "notifyConnect"
      BY <1>2, <1>4, <2>2
    <3>2. j < n /\ t[j + 1].f = "afterConnect"
      BY <1>3, <3>1
    <3>3. i + 1 \in 1..m + n /\ ~(i + 1 <= m) /\ i + 1 - m = j + 1
      BY <1>2, <2>2, <3>2
    <3>4. r[i + 1] = t[j + 1]
      BY <1>2, <3>3
    <3> QED BY <1>2, <3>2, <3>3, <3>4
  <2> QED BY <2>1, <2>2
<1> QED BY <1>2, <1>4 DEF Followed, r

LEMMA FollowedTail ==
  ASSUME NEW s \in Seq(Frame), s # <<>>, Followed(s)
  PROVE  Followed(Tail(s)) /\ (Head(s).f = "notifyConnect" => Tail(s) # <<>> /\ Head(Tail(s)).f = "afterConnect")
<1>1. /\ Head(s) = s[1] /\ Tail(s) \in Seq(Frame)
      /\ Len(s) \in Nat \ {0} /\ Len(Tail(s)) = Len(s) - 1
      /\ \A i \in 1..Len(Tail(s)) : Tail(s)[i] = s[i + 1]
  BY HeadTailProperties, EmptySeq
<1> DEFINE n == Len(s)
           r == Tail(s)
<1>2. ASSUME NEW i \in 1..n - 1, r[i].f = "notifyConnect"
      PROVE  i < n - 1 /\ r[i + 1].f = "afterConnect"
  <2>1. i + 1 \in 1..n /\ s[i + 1].f = "notifyConnect"
    BY <1>1, <1>2
  <2>2. i + 1 < n /\ s[i + 2].f = "afterConnect"
    BY <2>1 DEF Followed
  <2>3. i + 1 \in 1..n - 1
    BY <1>1, <2>2
  <2> QED BY <1>1, <2>2, <2>3
<1>3. ASSUME Head(s).f = "notifyConnect" PROVE r # <<>> /\ Head(r).f = "afterConnect"
  <2>1. 1 \in 1..n /\ s[1].f = "notifyConnect"
    BY <1>1, <1>3
  <2>2. 1 < n /\ s[2].f = "afterConnect"
    BY <2>1 DEF Followed
  <2>3. 1 \in 1..Len(r) /\ r[1] = s[2]
    BY <1>1, <2>2
  <2>4. r # <<>>
    <3>1. Len(r) # 0
      BY <1>1, <2>2
    <3>2. Len(<<>>) = 0
      BY EmptySeq
    <3> HIDE DEF r
    <3> QED BY <3>1, <3>2
  <2> QED BY <2>2, <2>3, <2>4, HeadTailProperties, <1>1
<1> QED BY <1>1, <1>2, <1>3 DEF Followed

\* The frames a function leaves behind.
LEMMA OneFrame ==
  ASSUME NEW fr \in Frame, fr.f # "notifyConnect"
  PROVE  /\ <<fr>> \in Seq(Frame) /\ Followed(<<fr>>)
         /\ fr.f \in HoldingFrame => OneOf(<<fr>>, GuardFrame)
         /\ fr.f \notin HoldingFrame => NoneOf(<<fr>>, GuardFrame)
<1>1. <<fr>> \in Seq(Frame)
  OBVIOUS
<1>2. Followed(<<fr>>)
  BY DEF Followed
<1> QED BY <1>1, <1>2, SingleMarks DEF GuardFrame

LEMMA NoFrame ==
  /\ <<>> \in Seq(Frame) /\ Followed(<<>>) /\ NoneOf(<<>>, GuardFrame)
  /\ \A s \in Seq(Frame) : <<>> \o s = s /\ s \o <<>> = s
<1>1. Followed(<<>>)
  BY DEF Followed
<1> QED BY <1>1, EmptyMarks, EmptySeq, ConcatEmptySeq

LEMMA TwoFrames ==
  ASSUME NEW s \in Seq(Frame), NEW t \in Seq(Frame), Followed(s), Followed(t)
  PROVE  /\ s \o t \in Seq(Frame) /\ Followed(s \o t)
         /\ OneOf(s, GuardFrame) /\ NoneOf(t, GuardFrame) => OneOf(s \o t, GuardFrame)
         /\ NoneOf(s, GuardFrame) /\ OneOf(t, GuardFrame) => OneOf(s \o t, GuardFrame)
         /\ NoneOf(s, GuardFrame) /\ NoneOf(t, GuardFrame) => NoneOf(s \o t, GuardFrame)
  BY FollowedConcat, ConcatMarks, ConcatProperties

----------------------------------------------------------------------------
(* The guard changes hands. *)

\* The frame on top may hold it.
LEMMA TopFrame ==
  ASSUME ClientInv, todo # <<>>
  PROVE  /\ Head(todo) \in Frame /\ Tail(todo) \in Seq(Frame) /\ Followed(Tail(todo))
         /\ Head(todo).f \in HoldingFrame => events # <<>> /\ Unheld(Tail(todo), ioq, op)
         /\ Head(todo).f \notin HoldingFrame => Guarded(events, Tail(todo), ioq, op)
<1>1. todo \in Seq(Frame) /\ Followed(todo) /\ Guarded(events, todo, ioq, op)
  BY DEF ClientInv, TypeOK
<1>2. /\ Head(todo) \in Frame /\ Tail(todo) \in Seq(Frame) /\ Followed(Tail(todo))
      /\ NoneOf(todo, GuardFrame) <=> Head(todo) \notin GuardFrame /\ NoneOf(Tail(todo), GuardFrame)
      /\ OneOf(todo, GuardFrame) =>
            IF Head(todo) \in GuardFrame THEN NoneOf(Tail(todo), GuardFrame) ELSE OneOf(Tail(todo), GuardFrame)
  BY <1>1, FirstMark, FollowedTail
<1>3. Head(todo) \in GuardFrame <=> Head(todo).f \in HoldingFrame
  BY <1>2 DEF GuardFrame
<1> QED BY <1>1, <1>2, <1>3 DEF Guarded, Held, Unheld

\* So may the handler that is first in the queue.
LEMMA FirstHandler ==
  ASSUME ClientInv, ioq # <<>>
  PROVE  /\ Head(ioq) \in Handler /\ Tail(ioq) \in Seq(Handler)
         /\ Head(ioq).h \in HoldingHandler => events # <<>> /\ Unheld(todo, Tail(ioq), op)
         /\ Head(ioq).h \notin HoldingHandler => Guarded(events, todo, Tail(ioq), op)
<1>1. ioq \in Seq(Handler) /\ Guarded(events, todo, ioq, op)
  BY DEF ClientInv, TypeOK
<1>2. /\ Head(ioq) \in Handler /\ Tail(ioq) \in Seq(Handler)
      /\ NoneOf(ioq, GuardHandler) <=> Head(ioq) \notin GuardHandler /\ NoneOf(Tail(ioq), GuardHandler)
      /\ OneOf(ioq, GuardHandler) =>
            IF Head(ioq) \in GuardHandler THEN NoneOf(Tail(ioq), GuardHandler) ELSE OneOf(Tail(ioq), GuardHandler)
  BY <1>1, FirstMark
<1>3. Head(ioq) \in GuardHandler <=> Head(ioq).h \in HoldingHandler
  BY <1>2 DEF GuardHandler
<1> QED BY <1>1, <1>2, <1>3 DEF Guarded, Held, Unheld

\* Frames are put on the stack.
LEMMA PutFrames ==
  ASSUME NEW evs, NEW fs \in Seq(Frame), NEW s \in Seq(Frame), NEW q, NEW o, Followed(fs), Followed(s)
  PROVE  /\ fs \o s \in Seq(Frame) /\ Followed(fs \o s)
         /\ OneOf(fs, GuardFrame) /\ Unheld(s, q, o) /\ evs # <<>> => Guarded(evs, fs \o s, q, o)
         /\ NoneOf(fs, GuardFrame) /\ Unheld(s, q, o) => Unheld(fs \o s, q, o)
         /\ NoneOf(fs, GuardFrame) /\ Guarded(evs, s, q, o) => Guarded(evs, fs \o s, q, o)
  BY TwoFrames DEF Guarded, Held, Unheld

\* Handlers are put in the queue.
LEMMA PutHandlers ==
  ASSUME NEW evs, NEW hs \in Seq(Handler), NEW s, NEW q \in Seq(Handler), NEW o
  PROVE  /\ q \o hs \in Seq(Handler)
         /\ OneOf(hs, GuardHandler) /\ Unheld(s, q, o) /\ evs # <<>> => Guarded(evs, s, q \o hs, o)
         /\ NoneOf(hs, GuardHandler) /\ Unheld(s, q, o) => Unheld(s, q \o hs, o)
         /\ NoneOf(hs, GuardHandler) /\ Guarded(evs, s, q, o) => Guarded(evs, s, q \o hs, o)
  BY ConcatMarks, ConcatProperties DEF Guarded, Held, Unheld

LEMMA PutHandler ==
  ASSUME NEW evs, NEW hd \in Handler, NEW s, NEW q \in Seq(Handler), NEW o
  PROVE  /\ Append(q, hd) \in Seq(Handler)
         /\ hd.h \in HoldingHandler /\ Unheld(s, q, o) /\ evs # <<>> => Guarded(evs, s, Append(q, hd), o)
         /\ hd.h \notin HoldingHandler /\ Unheld(s, q, o) => Unheld(s, Append(q, hd), o)
         /\ hd.h \notin HoldingHandler /\ Guarded(evs, s, q, o) => Guarded(evs, s, Append(q, hd), o)
<1>1. <<hd>> \in Seq(Handler) /\ Append(q, hd) = q \o <<hd>>
  OBVIOUS
<1>2. hd \in GuardHandler <=> hd.h \in HoldingHandler
  BY DEF GuardHandler
<1>3. /\ hd.h \in HoldingHandler => OneOf(<<hd>>, GuardHandler)
      /\ hd.h \notin HoldingHandler => NoneOf(<<hd>>, GuardHandler)
  BY <1>2, SingleMarks
<1>4. /\ q \o <<hd>> \in Seq(Handler)
      /\ OneOf(<<hd>>, GuardHandler) /\ Unheld(s, q, o) /\ evs # <<>> => Guarded(evs, s, q \o <<hd>>, o)
      /\ NoneOf(<<hd>>, GuardHandler) /\ Unheld(s, q, o) => Unheld(s, q \o <<hd>>, o)
      /\ NoneOf(<<hd>>, GuardHandler) /\ Guarded(evs, s, q, o) => Guarded(evs, s, q \o <<hd>>, o)
  BY <1>1, PutHandlers
<1> QED BY <1>1, <1>3, <1>4

\* An operation holds it.
LEMMA PutOp ==
  ASSUME NEW evs, NEW s, NEW q, NEW o, NEW p
  PROVE  /\ OpOne(p) /\ Unheld(s, q, o) /\ evs # <<>> => Guarded(evs, s, q, p)
         /\ o.dial = p.dial /\ o.write = p.write /\ o.close = p.close /\ Guarded(evs, s, q, o) => Guarded(evs, s, q, p)
         /\ o.dial = p.dial /\ o.write = p.write /\ o.close = p.close /\ Unheld(s, q, o) => Unheld(s, q, p)
  BY DEF Guarded, Held, Unheld, OpOne, OpFree

\* push_event, when the guard is where it should be without it.
LEMMA PushGuarded ==
  ASSUME NEW ev \in Event, NEW fs \in Seq(Frame), NEW q, NEW o, events \in Seq(Event),
         Push(ev, fs), Followed(fs), Guarded(events, fs, q, o)
  PROVE  /\ events' \in Seq(Event) /\ todo' \in Seq(Frame) /\ Followed(todo')
         /\ Guarded(events', todo', q, o)
<1>1. events' = Append(events, ev) /\ events' \in Seq(Event) /\ events' # <<>>
  BY AppendProperties, EmptySeq DEF Push
<1>2. Run \in Frame /\ Run.f \in HoldingFrame /\ Run.f # "notifyConnect"
  BY MakeFrame DEF Run, HoldingFrame
<1>3. CASE events = <<>>
  <2>1. todo' = <<Run>> \o fs /\ Unheld(fs, q, o)
    BY <1>3 DEF Push, Guarded
  <2> QED BY <1>1, <1>2, <2>1, OneFrame, PutFrames
<1>4. CASE events # <<>>
  <2>1. todo' = fs /\ Held(fs, q, o)
    BY <1>4, NoFrame DEF Push, Guarded
  <2> QED BY <1>1, <2>1 DEF Guarded
<1> QED BY <1>3, <1>4

\* The frame on top is replaced by fs.
LEMMA StackStep ==
  ASSUME ClientInv, todo # <<>>, NEW fs \in Seq(Frame), Followed(fs), Then(fs)
  PROVE  /\ Head(todo) \in Frame /\ todo' \in Seq(Frame) /\ Followed(todo')
         /\ Head(todo).f \in HoldingFrame =>
                /\ events # <<>>
                /\ \A evs : OneOf(fs, GuardFrame) /\ evs # <<>> => Guarded(evs, todo', ioq, op)
                /\ NoneOf(fs, GuardFrame) => Unheld(todo', ioq, op)
         /\ Head(todo).f \notin HoldingFrame /\ NoneOf(fs, GuardFrame) => Guarded(events, todo', ioq, op)
  BY TopFrame, PutFrames DEF Then

\* The handler runs and leaves fs.
LEMMA HandlerStep ==
  ASSUME ClientInv, NEW h, Ready(h), NEW fs \in Seq(Frame), Followed(fs), todo' = fs
  PROVE  /\ Head(ioq) \in Handler /\ Tail(ioq) \in Seq(Handler) /\ ioq # <<>>
         /\ todo' \in Seq(Frame) /\ Followed(todo')
         /\ h \in HoldingHandler =>
                /\ events # <<>>
                /\ OneOf(fs, GuardFrame) => Guarded(events, todo', Tail(ioq), op)
                /\ NoneOf(fs, GuardFrame) => Unheld(todo', Tail(ioq), op)
         /\ h \notin HoldingHandler /\ NoneOf(fs, GuardFrame) => Guarded(events, todo', Tail(ioq), op)
<1>1. todo = <<>> /\ ioq # <<>> /\ Head(ioq).h = h
  BY DEF Ready
<1>2. fs = fs \o todo /\ todo \in Seq(Frame) /\ Followed(todo)
  BY <1>1, NoFrame
<1>3. /\ Head(ioq) \in Handler /\ Tail(ioq) \in Seq(Handler)
      /\ h \in HoldingHandler => events # <<>> /\ Unheld(todo, Tail(ioq), op)
      /\ h \notin HoldingHandler => Guarded(events, todo, Tail(ioq), op)
  BY <1>1, FirstHandler
<1> DEFINE s == fs \o todo
<1>4. /\ OneOf(fs, GuardFrame) /\ Unheld(todo, Tail(ioq), op) /\ events # <<>> => Guarded(events, s, Tail(ioq), op)
      /\ NoneOf(fs, GuardFrame) /\ Unheld(todo, Tail(ioq), op) => Unheld(s, Tail(ioq), op)
      /\ NoneOf(fs, GuardFrame) /\ Guarded(events, todo, Tail(ioq), op) => Guarded(events, s, Tail(ioq), op)
  BY <1>2, PutFrames
<1>5. s = todo'
  BY <1>2
<1> HIDE DEF s
<1> QED BY <1>1, <1>3, <1>4, <1>5

\* The event at the front begins.
LEMMA RunEvent ==
  ASSUME ClientInv, NEW e, RunNow(e)
  PROVE  /\ todo # <<>> /\ Head(todo).f = "run" /\ Head(todo).f \in HoldingFrame
         /\ events # <<>> /\ Head(events) \in Event /\ Head(events).e = e
<1>1. todo # <<>> /\ Head(todo).f = "run" /\ Head(todo).f \in HoldingFrame
  BY DEF RunNow, Top, HoldingFrame
<1>2. events # <<>>
  BY <1>1, TopFrame
<1>3. Head(events) \in Event
  BY <1>2, HeadTailProperties DEF ClientInv, TypeOK
<1> QED BY <1>1, <1>2, <1>3 DEF RunNow

----------------------------------------------------------------------------
(* The event queue. *)

LEMMA HandlePushInv == ASSUME ClientInv, HandlePush PROVE ClientInv'
<1>1. Ready("push") /\ ioq' = Tail(ioq) /\ Push(Head(ioq).ev, <<>>) /\ todo = <<>>
  BY DEF HandlePush, Handled, Ready
<1>2. ioq # <<>> /\ Head(ioq).h = "push" /\ Head(ioq).h \notin HoldingHandler
  BY <1>1 DEF Ready, HoldingHandler
<1>3. Head(ioq).ev \in Event /\ ioq' \in Seq(Handler) /\ Guarded(events, <<>>, ioq', op)
  BY <1>1, <1>2, FirstHandler, HandlerKinds
<1>4. events \in Seq(Event)
  BY DEF ClientInv, TypeOK
<1>5. /\ events' \in Seq(Event) /\ todo' \in Seq(Frame) /\ Followed(todo')
      /\ Guarded(events', todo', ioq', op)
  BY <1>1, <1>3, <1>4, NoFrame, PushGuarded
<1>6. op' = op /\ TypeOK'
  BY <1>3, <1>5 DEF HandlePush, ClientInv, TypeOK, timers, caller
<1> QED BY <1>5, <1>6 DEF ClientInv

LEMMA NextEventInv == ASSUME ClientInv, NextEvent PROVE ClientInv'
<1> DEFINE fs == IF Len(events) > 1 THEN <<Run>> ELSE <<>>
<1>1. todo # <<>> /\ Head(todo).f = "release" /\ Head(todo).f \in HoldingFrame /\ Then(fs)
  BY DEF NextEvent, Top, HoldingFrame
<1>2. Run \in Frame /\ Run.f \in HoldingFrame /\ Run.f # "notifyConnect"
  BY MakeFrame DEF Run, HoldingFrame
<1>3. /\ fs \in Seq(Frame) /\ Followed(fs)
      /\ Len(events) > 1 => OneOf(fs, GuardFrame)
      /\ ~(Len(events) > 1) => NoneOf(fs, GuardFrame)
  BY <1>2, OneFrame, NoFrame
<1>4. events # <<>> /\ events \in Seq(Event)
  BY <1>1, TopFrame DEF ClientInv, TypeOK
<1>5. events' \in Seq(Event) /\ (events' # <<>> <=> Len(events) > 1)
  <2>1. events' = Tail(events) /\ Tail(events) \in Seq(Event) /\ Len(Tail(events)) = Len(events) - 1
    BY <1>4, HeadTailProperties DEF NextEvent
  <2>2. Len(events) \in Nat \ {0} /\ (Tail(events) # <<>> => Len(Tail(events)) \in Nat \ {0}) /\ Len(<<>>) = 0
    BY <1>4, <2>1, EmptySeq
  <2> QED BY <2>1, <2>2
<1>6. todo' \in Seq(Frame) /\ Followed(todo') /\ Guarded(events', todo', ioq, op)
  <2>1. CASE Len(events) > 1
    BY <1>1, <1>3, <1>5, <2>1, StackStep
  <2>2. CASE ~(Len(events) > 1)
    BY <1>1, <1>3, <1>5, <2>2, StackStep DEF Guarded
  <2> QED BY <2>1, <2>2
<1>7. op' = op /\ ioq' = ioq /\ TypeOK'
  BY <1>5, <1>6 DEF NextEvent, ClientInv, TypeOK, timers, caller
<1> QED BY <1>6, <1>7 DEF ClientInv

----------------------------------------------------------------------------
(* What is aborted. *)

LEMMA Repeated ==
  ASSUME NEW S, NEW x \in S, NEW n \in Nat
  PROVE  [i \in 1..n |-> x] \in Seq(S) /\ Len([i \in 1..n |-> x]) = n
<1> DEFINE s == [i \in 1..n |-> x]
<1>1. s \in [1..n -> S]
  OBVIOUS
<1> HIDE DEF s
<1>2. s \in Seq(S) /\ Len(s) = n
  BY <1>1
<1> QED BY <1>2 DEF s

LEMMA AbortedHandlers ==
  ASSUME TypeOK
  PROVE  /\ AbortedReads \in Seq(Handler) /\ NoneOf(AbortedReads, GuardHandler)
         /\ AbortedWrites \in Seq(Handler)
         /\ op.write = 0 => NoneOf(AbortedWrites, GuardHandler)
         /\ op.write = 1 => OneOf(AbortedWrites, GuardHandler)
         /\ AbortedDial \in Seq(Handler)
         /\ op.dial \notin {"connect", "upgrade"} => NoneOf(AbortedDial, GuardHandler)
         /\ op.dial \in {"connect", "upgrade"} => OneOf(AbortedDial, GuardHandler)
<1>1. op.read \in Nat /\ op.on \in Nat /\ op.write \in Nat
  BY DEF TypeOK, Attempt
<1>2. [h |-> "read", ok |-> FALSE, on |-> op.on] \in Handler /\ [h |-> "written", ok |-> FALSE] \in Handler
  BY <1>1, MakeHandler
<1>3. AbortedReads \in Seq(Handler) /\ Len(AbortedReads) = op.read
  BY <1>1, <1>2, Repeated DEF AbortedReads
<1>4. AbortedWrites \in Seq(Handler) /\ Len(AbortedWrites) = op.write
  BY <1>1, <1>2, Repeated DEF AbortedWrites
<1>5. NoneOf(AbortedReads, GuardHandler)
  BY <1>3 DEF NoneOf, AbortedReads, GuardHandler, HoldingHandler
<1>6. op.write = 0 => NoneOf(AbortedWrites, GuardHandler)
  BY <1>4 DEF NoneOf
<1>7. op.write = 1 => OneOf(AbortedWrites, GuardHandler)
  BY <1>2, <1>4 DEF OneOf, AbortedWrites, GuardHandler, HoldingHandler
<1>8. \A h \in {"connected", "upgraded"} :
        [h |-> h, ec |-> "aborted"] \in Handler /\ [h |-> h, ec |-> "aborted"] \in GuardHandler
  <2>1. \A h \in {"connected", "upgraded"} : [h |-> h, ec |-> "aborted"] \in Handler
    BY MakeHandler DEF Failure
  <2> QED BY <2>1 DEF GuardHandler, HoldingHandler
<1>9. AbortedDial \in Seq(Handler) /\ (op.dial \in {"connect", "upgrade"} => OneOf(AbortedDial, GuardHandler))
  BY <1>8, SingleMarks, EmptySeq DEF AbortedDial
<1>10. op.dial \notin {"connect", "upgrade"} => NoneOf(AbortedDial, GuardHandler)
  BY EmptyMarks DEF AbortedDial
<1> QED BY <1>3, <1>4, <1>5, <1>6, <1>7, <1>9, <1>10

LEMMA AbortedType == ASSUME TypeOK PROVE Aborted \in OpRecord
<1>1. op \in OpRecord
  BY DEF TypeOK, OpRecord
<1>2. (op.ws /\ op.read + op.write = 0) \in BOOLEAN
  OBVIOUS
<1> QED BY <1>1, <1>2 DEF Aborted, OpRecord

LEMMA AbortGuarded ==
  ASSUME TypeOK, NEW evs, NEW s, NEW q \in Seq(Handler), Guarded(evs, s, q, op)
  PROVE  /\ q \o AbortedReads \o AbortedWrites \in Seq(Handler)
         /\ Guarded(evs, s, q \o AbortedReads \o AbortedWrites, Aborted)
<1> DEFINE r == q \o AbortedReads
           p == r \o AbortedWrites
<1>1. Aborted.dial = op.dial /\ Aborted.write = 0 /\ Aborted.close = op.close
  BY DEF Aborted, TypeOK
<1>2. r \in Seq(Handler) /\ p \in Seq(Handler)
  BY AbortedHandlers, ConcatProperties
<1>3. Guarded(evs, s, r, op)
  BY AbortedHandlers, PutHandlers
<1>4. CASE op.write = 0
  <2>1. Guarded(evs, s, p, op)
    BY <1>2, <1>3, <1>4, AbortedHandlers, PutHandlers
  <2> HIDE DEF p
  <2>2. Guarded(evs, s, p, Aborted)
    BY <1>1, <1>4, <2>1, PutOp
  <2> QED BY <1>2, <2>2 DEF p
<1>5. CASE op.write # 0
  <2>1. op.write = 1 /\ evs # <<>> /\ Unheld(s, r, Aborted)
    BY <1>1, <1>3, <1>5 DEF Guarded, Held, Unheld, OpOne, OpFree
  <2>2. Guarded(evs, s, p, Aborted)
    BY <1>2, <2>1, AbortedHandlers, PutHandlers
  <2> QED BY <1>2, <2>2
<1> QED BY <1>4, <1>5

LEMMA CloseGuarded ==
  ASSUME TypeOK, NEW evs, NEW s, Tail(ioq) \in Seq(Handler), Guarded(evs, s, Tail(ioq), op), CloseSocket
  PROVE  ioq' \in Seq(Handler) /\ Guarded(evs, s, ioq', op')
<1> DEFINE q == Tail(ioq) \o AbortedReads
           r == q \o AbortedDial
           p == r \o AbortedWrites
<1>1. ioq' = p
  BY DEF CloseSocket
<1>2. /\ op'.dial = IF op.dial \in {"connect", "upgrade"} THEN "none" ELSE op.dial
      /\ op'.write = 0 /\ op'.close = op.close
  BY DEF CloseSocket, Aborted, TypeOK
<1>3. q \in Seq(Handler) /\ r \in Seq(Handler) /\ p \in Seq(Handler)
  BY AbortedHandlers, ConcatProperties
<1>4. Guarded(evs, s, q, op)
  BY AbortedHandlers, PutHandlers
<1>5. CASE op.dial \in {"connect", "upgrade"}
  <2>1. op.write = 0 /\ evs # <<>> /\ Unheld(s, q, op')
    BY <1>2, <1>4, <1>5 DEF Guarded, Held, Unheld, OpOne, OpFree
  <2>2. Guarded(evs, s, r, op')
    BY <1>3, <1>5, <2>1, AbortedHandlers, PutHandlers
  <2>3. Guarded(evs, s, p, op')
    BY <1>3, <2>1, <2>2, AbortedHandlers, PutHandlers
  <2> QED BY <1>1, <1>3, <2>3
<1>6. CASE op.dial \notin {"connect", "upgrade"}
  <2>1. Guarded(evs, s, r, op)
    BY <1>3, <1>4, <1>6, AbortedHandlers, PutHandlers
  <2>2. CASE op.write = 0
    <3>1. Guarded(evs, s, p, op)
      BY <1>3, <2>1, <2>2, AbortedHandlers, PutHandlers
    <3> HIDE DEF p
    <3>2. Guarded(evs, s, p, op')
      BY <1>2, <1>6, <2>2, <3>1, PutOp
    <3> QED BY <1>1, <1>3, <3>2
  <2>3. CASE op.write # 0
    <3>1. op.write = 1 /\ evs # <<>> /\ Unheld(s, r, op')
      BY <1>2, <1>6, <2>1, <2>3 DEF Guarded, Held, Unheld, OpOne, OpFree
    <3>2. Guarded(evs, s, p, op')
      BY <1>3, <3>1, AbortedHandlers, PutHandlers
    <3> QED BY <1>1, <1>3, <3>2
  <2> QED BY <2>2, <2>3
<1> QED BY <1>5, <1>6

----------------------------------------------------------------------------
(* Disconnecting. *)

LEMMA RunDisconnectInv == ASSUME ClientInv, RunDisconnect PROVE ClientInv'
<1> DEFINE fr == [f |-> "disconnect", old |-> Head(events).old, by |-> "none"]
<1>1. RunNow("disconnect") /\ Then(<<fr>>)
  BY DEF RunDisconnect
<1>2. fr \in Frame
  BY <1>1, RunEvent, EventKinds, MakeFrame
<1>3. <<fr>> \in Seq(Frame) /\ Followed(<<fr>>) /\ OneOf(<<fr>>, GuardFrame)
  BY <1>2, OneFrame DEF HoldingFrame
<1> HIDE DEF fr
<1>4. todo' \in Seq(Frame) /\ Followed(todo') /\ Guarded(events, todo', ioq, op)
  BY <1>1, <1>3, RunEvent, StackStep
<1>5. events' = events /\ op' = op /\ ioq' = ioq /\ TypeOK'
  BY <1>4 DEF RunDisconnect, ClientInv, TypeOK, timers, caller
<1> QED BY <1>4, <1>5 DEF ClientInv

LEMMA DisconnectInv == ASSUME ClientInv, Disconnect PROVE ClientInv'
<1> DEFINE fr == [f |-> "disconnected", by |-> Head(todo).by]
<1>1. todo # <<>> /\ Head(todo).f = "disconnect" /\ Head(todo).f \in HoldingFrame
  BY DEF Disconnect, Top, HoldingFrame
<1>2. Head(todo).by \in Caller \cup {"none"}
  BY <1>1, TopFrame, FrameKinds
<1>3. CASE op.ws
  <2>1. op' = [op EXCEPT !.close = Head(todo).by] /\ Then(<<>>)
    BY <1>3 DEF Disconnect
  <2>2. todo' \in Seq(Frame) /\ Followed(todo') /\ events # <<>> /\ Unheld(todo', ioq, op)
    BY <1>1, <2>1, NoFrame, StackStep
  <2>3. OpOne(op')
    BY <1>2, <2>1, <2>2 DEF ClientInv, TypeOK, Unheld, OpFree, OpOne, Caller
  <2>4. Guarded(events, todo', ioq, op')
    BY <2>2, <2>3, PutOp
  <2>5. op' \in OpRecord
    BY <1>2, <2>1 DEF ClientInv, TypeOK, OpRecord
  <2>6. events' = events /\ ioq' = ioq /\ TypeOK'
    BY <2>2, <2>5 DEF Disconnect, ClientInv, TypeOK, timers, caller, State, Attempt, OpRecord
  <2> QED BY <2>2, <2>4, <2>6 DEF ClientInv
<1>4. CASE ~op.ws
  <2>1. op' = op /\ Then(<<fr>>)
    BY <1>4 DEF Disconnect
  <2>2. <<fr>> \in Seq(Frame) /\ Followed(<<fr>>) /\ OneOf(<<fr>>, GuardFrame)
    BY <1>2, OneFrame, MakeFrame DEF HoldingFrame
  <2> HIDE DEF fr
  <2>3. todo' \in Seq(Frame) /\ Followed(todo') /\ Guarded(events, todo', ioq, op)
    BY <1>1, <2>1, <2>2, StackStep
  <2>4. events' = events /\ ioq' = ioq /\ TypeOK'
    BY <2>1, <2>3 DEF Disconnect, ClientInv, TypeOK, timers, caller, State, Attempt
  <2> QED BY <2>1, <2>3, <2>4 DEF ClientInv
<1> QED BY <1>3, <1>4

LEMMA HandleClosedInv == ASSUME ClientInv, HandleClosed PROVE ClientInv'
<1> DEFINE fr == [f |-> "disconnected", by |-> Head(ioq).by]
<1>1. Ready("closed") /\ ioq' = Tail(ioq) /\ todo' = <<fr>> /\ ioq # <<>> /\ Head(ioq).h = "closed"
  BY DEF HandleClosed, Handled, Ready
<1>2. Head(ioq).by \in Caller \cup {"none"}
  BY <1>1, FirstHandler, HandlerKinds
<1>3. <<fr>> \in Seq(Frame) /\ Followed(<<fr>>) /\ OneOf(<<fr>>, GuardFrame)
  BY <1>2, OneFrame, MakeFrame DEF HoldingFrame
<1> HIDE DEF fr
<1>4. /\ ioq' \in Seq(Handler) /\ todo' \in Seq(Frame) /\ Followed(todo')
      /\ Guarded(events, todo', ioq', op)
  BY <1>1, <1>3, HandlerStep DEF HoldingHandler
<1>5. events' = events /\ op' = op /\ TypeOK'
  BY <1>4 DEF HandleClosed, ClientInv, TypeOK, timers, caller
<1> QED BY <1>4, <1>5 DEF ClientInv

LEMMA HandleDisconnectInv == ASSUME ClientInv, HandleDisconnect PROVE ClientInv'
<1> DEFINE by    == Head(todo).by
           wakes == by = "none" /\ AutoReconnect /\ rtimer.wait # "none"
           woken == [h |-> "rtimer", id |-> rtimer.id, expired |-> FALSE]
           hs    == IF wakes THEN <<woken>> ELSE <<>>
           fs    == IF by = "none" THEN <<Release>> ELSE <<[f |-> "stopReturns", by |-> by]>>
           q     == ioq \o AbortedReads \o AbortedWrites
<1>1. todo # <<>> /\ Head(todo).f = "disconnected" /\ Head(todo).f \in HoldingFrame /\ Then(fs)
  BY DEF HandleDisconnect, Top, HoldingFrame
<1>2. by \in Caller \cup {"none"}
  BY <1>1, TopFrame, FrameKinds
<1>3. fs \in Seq(Frame) /\ Followed(fs) /\ OneOf(fs, GuardFrame)
  BY <1>2, OneFrame, MakeFrame DEF HoldingFrame, Release
<1>4. todo' \in Seq(Frame) /\ Followed(todo') /\ Guarded(events, todo', ioq, op)
  BY <1>1, <1>3, StackStep
<1>5. q \in Seq(Handler) /\ Guarded(events, todo', q, op')
  <2>1. op' = Aborted /\ TypeOK /\ ioq \in Seq(Handler)
    BY DEF HandleDisconnect, ClientInv, TypeOK
  <2> QED BY <1>4, <2>1, AbortGuarded
<1>6. woken \in Handler /\ woken.h \notin HoldingHandler
  BY MakeHandler DEF ClientInv, TypeOK, Attempt, HoldingHandler
<1>7. hs \in Seq(Handler) /\ NoneOf(hs, GuardHandler)
  <2>1. woken \notin GuardHandler
    BY <1>6 DEF GuardHandler
  <2> HIDE DEF woken
  <2>2. <<woken>> \in Seq(Handler)
    BY <1>6
  <2> QED BY <2>1, <2>2, SingleMarks, EmptyMarks, EmptySeq
<1>8. ioq' = q \o hs
  BY DEF HandleDisconnect
<1> HIDE DEF q, hs
<1>9. ioq' \in Seq(Handler) /\ Guarded(events, todo', ioq', op')
  BY <1>5, <1>7, <1>8, PutHandlers
<1>10. events' = events /\ TypeOK'
  <2>1. op' = Aborted /\ events' = events
    BY DEF HandleDisconnect
  <2>2. rtimer' \in [id : Nat, wait : {"none", "never", "delay"}, canceled : BOOLEAN]
    BY DEF HandleDisconnect, CancelReconnect, ClientInv, TypeOK, Attempt
  <2>3. op' \in OpRecord
    BY <2>1, AbortedType DEF ClientInv
  <2>4. /\ sockOpen' = FALSE
        /\ UNCHANGED <<st, attempt, chain, ctimer, dtimer, pool, game, starts, ret, recvs, linked, wanted, host>>
    BY DEF HandleDisconnect, caller
  <2>5. /\ events' \in Seq(Event)
        /\ ctimer' \in [id : Nat, waiting : BOOLEAN, canceled : BOOLEAN]
        /\ recvs' \in 0..MaxRecvs /\ starts' \in 0..MaxStarts /\ host' \in 0..MaxStarts
    BY <2>1, <2>4 DEF ClientInv, TypeOK, Attempt
  <2> QED BY <1>4, <1>9, <2>1, <2>2, <2>3, <2>4, <2>5 DEF ClientInv, TypeOK, OpRecord, Attempt
<1> QED BY <1>4, <1>9, <1>10 DEF ClientInv

LEMMA HandleDisconnectTimerInv == ASSUME ClientInv, HandleDisconnectTimer PROVE ClientInv'
<1>1. Ready("dtimer") /\ ioq # <<>> /\ Head(ioq).h = "dtimer"
  BY DEF HandleDisconnectTimer, Ready
<1>2. Tail(ioq) \in Seq(Handler) /\ Guarded(events, todo, Tail(ioq), op) /\ TypeOK
  BY <1>1, FirstHandler DEF HoldingHandler, ClientInv
<1>3. ioq' \in Seq(Handler) /\ Guarded(events, todo, ioq', op')
  <2>1. CASE Head(ioq).id = dtimer
    <3>1. ioq' = Tail(ioq) \o AbortedReads \o AbortedWrites /\ op' = Aborted
      BY <2>1 DEF HandleDisconnectTimer
    <3> QED BY <1>2, <3>1, AbortGuarded
  <2>2. CASE Head(ioq).id # dtimer
    BY <1>2, <2>2 DEF HandleDisconnectTimer, Handled
  <2> QED BY <2>1, <2>2
<1>4. events' = events /\ todo' = todo /\ (op' = op \/ op' = Aborted)
  BY DEF HandleDisconnectTimer
<1>5. TypeOK'
  <2>1. op' \in OpRecord
    BY <1>4, AbortedType DEF ClientInv, TypeOK, OpRecord
  <2> QED BY <1>3, <1>4, <2>1 DEF HandleDisconnectTimer, ClientInv, TypeOK, timers, caller, OpRecord
<1> QED BY <1>3, <1>4, <1>5 DEF ClientInv

----------------------------------------------------------------------------
(* Connecting. *)

\* A connection attempt holds the guard from the resolve on.
LEMMA StartConnectStep ==
  ASSUME ClientInv, NEW e, RunNow(e), NEW c \in Caller \cup {"reconnect"}, StartConnect(c)
  PROVE  /\ st' = "starting" /\ attempt' \in Nat /\ chain' \in Caller \cup {"reconnect"}
         /\ rtimer' \in [id : Nat, wait : {"none", "never", "delay"}, canceled : BOOLEAN]
         /\ ctimer' \in [id : Nat, waiting : BOOLEAN, canceled : BOOLEAN]
         /\ op' \in OpRecord /\ todo' \in Seq(Frame) /\ Followed(todo')
         /\ Guarded(events, todo', ioq, op')
<1>1. /\ st' = "starting" /\ attempt' = attempt + 1 /\ chain' = c
      /\ rtimer' = [id |-> attempt', wait |-> "never", canceled |-> FALSE]
      /\ ctimer' = [id |-> attempt', waiting |-> TRUE, canceled |-> FALSE]
      /\ op' = [op EXCEPT !.dial = "resolve"] /\ Then(<<>>)
  BY DEF StartConnect
<1>2. attempt' \in Nat /\ op' \in OpRecord
  <2>1. op \in OpRecord /\ attempt \in Nat
    BY DEF ClientInv, TypeOK, OpRecord, Attempt
  <2> QED BY <1>1, <2>1 DEF OpRecord
<1>3. todo' \in Seq(Frame) /\ Followed(todo') /\ events # <<>> /\ Unheld(todo', ioq, op)
  BY <1>1, NoFrame, RunEvent, StackStep
<1>4. OpOne(op')
  BY <1>1, <1>3 DEF ClientInv, TypeOK, Unheld, OpFree, OpOne
<1> QED BY <1>1, <1>2, <1>3, <1>4, PutOp

LEMMA StartReturnsFrames ==
  ASSUME NEW by \in Caller, NEW v \in {"ok", "failed", "already_started"}
  PROVE  /\ StartReturns(by, v) \in Seq(Frame) /\ Followed(StartReturns(by, v))
         /\ NoneOf(StartReturns(by, v), GuardFrame)
<1> DEFINE fr == [f |-> "startReturns", by |-> by, value |-> v]
<1>1. fr \in Frame /\ fr.f = "startReturns"
  BY MakeFrame
<1> HIDE DEF fr
<1>2. <<fr>> \in Seq(Frame) /\ Followed(<<fr>>) /\ NoneOf(<<fr>>, GuardFrame)
  BY <1>1, OneFrame DEF HoldingFrame
<1> QED BY <1>2 DEF StartReturns, fr

LEMMA ReleaseFrames == <<Release>> \in Seq(Frame) /\ Followed(<<Release>>) /\ OneOf(<<Release>>, GuardFrame)
<1>1. Release \in Frame /\ Release.f = "release"
  BY MakeFrame DEF Release
<1> QED BY <1>1, OneFrame DEF HoldingFrame

LEMMA RunConnectInv == ASSUME ClientInv, RunConnect PROVE ClientInv'
<1> DEFINE by == Head(events).by
           fs == StartReturns(by, "already_started") \o <<Release>>
<1>1. RunNow("connect") /\ events' = events /\ ioq' = ioq
  BY DEF RunConnect
<1>2. by \in Caller /\ Head(events).to \in 1..MaxStarts
  BY <1>1, RunEvent, EventKinds
<1>3. CASE st = "stopped"
  <2>1. StartConnect(by) /\ wanted' = TRUE /\ host' = Head(events).to
    BY <1>3 DEF RunConnect
  <2>2. /\ st' = "starting" /\ attempt' \in Nat /\ chain' \in Caller \cup {"reconnect"}
        /\ rtimer' \in [id : Nat, wait : {"none", "never", "delay"}, canceled : BOOLEAN]
        /\ ctimer' \in [id : Nat, waiting : BOOLEAN, canceled : BOOLEAN]
        /\ op' \in OpRecord /\ todo' \in Seq(Frame) /\ Followed(todo')
        /\ Guarded(events, todo', ioq, op')
    BY <1>1, <1>2, <2>1, StartConnectStep
  <2>3. host' \in 0..MaxStarts
    BY <1>2, <2>1, ClientAssumption
  <2>4. TypeOK'
    BY <2>1, <2>2, <2>3 DEF RunConnect, ClientInv, TypeOK, caller, OpRecord, Attempt, State
  <2> QED BY <1>1, <2>2, <2>4 DEF ClientInv
<1>4. CASE st # "stopped"
  <2>1. Then(fs) /\ UNCHANGED <<st, attempt, chain, ctimer, rtimer, op, wanted, host>>
    BY <1>4 DEF RunConnect
  <2>2. fs \in Seq(Frame) /\ Followed(fs) /\ OneOf(fs, GuardFrame)
    BY <1>2, StartReturnsFrames, ReleaseFrames, TwoFrames
  <2> HIDE DEF fs
  <2>3. todo' \in Seq(Frame) /\ Followed(todo') /\ Guarded(events, todo', ioq, op)
    BY <1>1, <2>1, <2>2, RunEvent, StackStep
  <2>4. TypeOK'
    BY <2>1, <2>3 DEF RunConnect, ClientInv, TypeOK, caller
  <2> QED BY <1>1, <2>1, <2>3, <2>4 DEF ClientInv
<1> QED BY <1>3, <1>4

LEMMA RunReconnectInv == ASSUME ClientInv, RunReconnect PROVE ClientInv'
<1> DEFINE go == ~Canceled(Head(events).id) /\ st = "stopped"
<1>1. RunNow("reconnect") /\ events' = events /\ ioq' = ioq
  BY DEF RunReconnect
<1>2. CASE go
  <2>1. StartConnect("reconnect")
    BY <1>2 DEF RunReconnect
  <2>2. /\ st' = "starting" /\ attempt' \in Nat /\ chain' \in Caller \cup {"reconnect"}
        /\ rtimer' \in [id : Nat, wait : {"none", "never", "delay"}, canceled : BOOLEAN]
        /\ ctimer' \in [id : Nat, waiting : BOOLEAN, canceled : BOOLEAN]
        /\ op' \in OpRecord /\ todo' \in Seq(Frame) /\ Followed(todo')
        /\ Guarded(events, todo', ioq, op')
    BY <1>1, <2>1, StartConnectStep
  <2>3. TypeOK'
    BY <2>2 DEF RunReconnect, ClientInv, TypeOK, caller, OpRecord, Attempt, State
  <2> QED BY <1>1, <2>2, <2>3 DEF ClientInv
<1>3. CASE ~go
  <2>1. Then(<<Release>>) /\ UNCHANGED <<st, attempt, chain, ctimer, rtimer, op>>
    BY <1>3 DEF RunReconnect
  <2>2. todo' \in Seq(Frame) /\ Followed(todo') /\ Guarded(events, todo', ioq, op)
    BY <1>1, <2>1, ReleaseFrames, RunEvent, StackStep
  <2>3. TypeOK'
    BY <2>1, <2>2 DEF RunReconnect, ClientInv, TypeOK, caller
  <2> QED BY <1>1, <2>1, <2>2, <2>3 DEF ClientInv
<1> QED BY <1>2, <1>3

\* The end of a dial goes on to _done_connect.
LEMMA DoneStep ==
  ASSUME ClientInv, NEW h \in HoldingHandler, Ready(h), NEW ec \in Failure \cup {"ok"}, Done(ec)
  PROVE  todo' \in Seq(Frame) /\ Followed(todo') /\ Guarded(events, todo', Tail(ioq), op)
<1> DEFINE fr == [f |-> "done", ec |-> ec]
<1>1. fr \in Frame /\ fr.f = "done" /\ todo' = <<fr>>
  BY MakeFrame DEF Done
<1> HIDE DEF fr
<1>2. <<fr>> \in Seq(Frame) /\ Followed(<<fr>>) /\ OneOf(<<fr>>, GuardFrame)
  BY <1>1, OneFrame DEF HoldingFrame
<1> QED BY <1>1, <1>2, HandlerStep

LEMMA PostConnectStep ==
  ASSUME ClientInv, NEW h \in HoldingHandler, Ready(h), NEW n \in Nat \ {0}, NEW ec \in Failure \cup {"ok"},
         PostConnect(n, ec)
  PROVE  /\ todo' \in Seq(Frame) /\ Followed(todo') /\ Guarded(events, todo', Tail(ioq), op')
         /\ op' \in OpRecord /\ sockOpen' \in BOOLEAN
<1>1. op \in OpRecord /\ sockOpen \in BOOLEAN
  BY DEF ClientInv, TypeOK, OpRecord
<1>2. CASE n > Endpoints
  BY <1>1, <1>2, DoneStep DEF PostConnect
<1>3. CASE ~(n > Endpoints)
  <2>1. op' = [op EXCEPT !.dial = "connect", !.ep = n] /\ sockOpen' = TRUE /\ todo' = <<>>
    BY <1>3 DEF PostConnect
  <2>2. todo' \in Seq(Frame) /\ Followed(todo') /\ events # <<>> /\ Unheld(todo', Tail(ioq), op)
    BY <2>1, NoFrame, HandlerStep
  <2>3. n \in 1..Endpoints
    BY <1>3, ClientAssumption
  <2>4. op' \in OpRecord
    BY <1>1, <2>1, <2>3 DEF OpRecord
  <2>5. OpOne(op')
    BY <1>1, <2>1, <2>2 DEF OpRecord, Unheld, OpFree, OpOne
  <2> QED BY <2>1, <2>2, <2>4, <2>5, PutOp
<1> QED BY <1>2, <1>3

LEMMA HandleResolvedInv == ASSUME ClientInv, HandleResolved PROVE ClientInv'
<1> DEFINE ec == IF TimedOut THEN "timed_out" ELSE Head(ioq).ec
<1>1. Ready("resolved") /\ ioq' = Tail(ioq) /\ events' = events /\ ioq # <<>> /\ Head(ioq).h = "resolved"
  BY DEF HandleResolved, Handled, Ready
<1>2. ec \in Failure \cup {"ok"} /\ ioq' \in Seq(Handler)
  BY <1>1, FirstHandler, HandlerKinds DEF Failure
<1>3. "resolved" \in HoldingHandler
  BY DEF HoldingHandler
<1>4. IF ec = "ok" THEN PostConnect(1, ec) ELSE Done(ec) /\ UNCHANGED <<op, sockOpen>>
  BY DEF HandleResolved
<1>5. op \in OpRecord /\ sockOpen \in BOOLEAN
  BY DEF ClientInv, TypeOK, OpRecord
<1> HIDE DEF ec
<1>6. /\ todo' \in Seq(Frame) /\ Followed(todo') /\ Guarded(events, todo', ioq', op')
      /\ op' \in OpRecord /\ sockOpen' \in BOOLEAN
  BY <1>1, <1>2, <1>3, <1>4, <1>5, PostConnectStep, DoneStep
<1>7. TypeOK'
  BY <1>2, <1>6 DEF HandleResolved, ClientInv, TypeOK, timers, caller, OpRecord
<1> QED BY <1>1, <1>6, <1>7 DEF ClientInv

\* The upgrade request, or its failure, holds the guard.
LEMMA PostUpgradeStep ==
  ASSUME ClientInv, NEW h \in HoldingHandler, Ready(h), PostUpgrade
  PROVE  /\ ioq' \in Seq(Handler) /\ Guarded(events, todo, ioq', op')
         /\ op' \in OpRecord
<1>1. /\ events # <<>> /\ Unheld(todo, Tail(ioq), op)
      /\ Tail(ioq) \in Seq(Handler)
  BY FirstHandler DEF Ready
<1>2. op \in OpRecord
  BY DEF ClientInv, TypeOK, OpRecord
<1>3. CASE sockOpen
  <2>1. op' = [op EXCEPT !.dial = "upgrade"] /\ ioq' = Tail(ioq)
    BY <1>3 DEF PostUpgrade, Handled
  <2>2. op' \in OpRecord /\ OpOne(op')
    BY <1>1, <1>2, <2>1 DEF OpRecord, Unheld, OpFree, OpOne
  <2> QED BY <1>1, <2>1, <2>2, PutOp
<1>4. CASE ~sockOpen
  <2> DEFINE hd == [h |-> "upgraded", ec |-> "aborted"]
  <2>1. ioq' = Append(Tail(ioq), hd) /\ op' = op
    BY <1>4 DEF PostUpgrade
  <2>2. hd \in Handler /\ hd.h \in HoldingHandler
    BY MakeHandler DEF Failure, HoldingHandler
  <2> HIDE DEF hd
  <2> QED BY <1>1, <1>2, <2>1, <2>2, PutHandler
<1> QED BY <1>3, <1>4

LEMMA HandleConnectedInv == ASSUME ClientInv, HandleConnected PROVE ClientInv'
<1> DEFINE ec == Head(ioq).ec
<1>1. Ready("connected") /\ events' = events /\ ioq # <<>> /\ Head(ioq).h = "connected"
  BY DEF HandleConnected, Ready
<1>2. ec \in Failure \cup {"ok"} /\ Tail(ioq) \in Seq(Handler)
  BY <1>1, FirstHandler, HandlerKinds
<1>3. "connected" \in HoldingHandler
  BY DEF HoldingHandler
<1>4. op \in OpRecord /\ sockOpen \in BOOLEAN /\ op.ep + 1 \in Nat \ {0} /\ todo \in Seq(Frame) /\ Followed(todo)
  BY DEF ClientInv, TypeOK, OpRecord
<1>5. \/ PostConnect(op.ep + 1, ec) /\ ioq' = Tail(ioq)
      \/ PostUpgrade
      \/ Done(ec) /\ ioq' = Tail(ioq) /\ UNCHANGED <<op, sockOpen>>
  BY DEF HandleConnected, Handled
<1> HIDE DEF ec
<1>6. /\ ioq' \in Seq(Handler) /\ todo' \in Seq(Frame) /\ Followed(todo') /\ Guarded(events, todo', ioq', op')
      /\ op' \in OpRecord /\ sockOpen' \in BOOLEAN
  <2>1. CASE PostConnect(op.ep + 1, ec) /\ ioq' = Tail(ioq)
    BY <1>1, <1>2, <1>3, <1>4, <2>1, PostConnectStep
  <2>2. CASE PostUpgrade
    <3>1. todo' = todo /\ sockOpen' = sockOpen
      BY <2>2 DEF PostUpgrade
    <3> QED BY <1>1, <1>3, <1>4, <2>2, <3>1, PostUpgradeStep
  <2>3. CASE Done(ec) /\ ioq' = Tail(ioq) /\ UNCHANGED <<op, sockOpen>>
    BY <1>1, <1>2, <1>3, <1>4, <2>3, DoneStep
  <2> QED BY <1>5, <2>1, <2>2, <2>3
<1>7. TypeOK'
  BY <1>6 DEF HandleConnected, ClientInv, TypeOK, timers, caller, OpRecord
<1> QED BY <1>1, <1>6, <1>7 DEF ClientInv

LEMMA HandleUpgradedInv == ASSUME ClientInv, HandleUpgraded PROVE ClientInv'
<1>1. /\ Ready("upgraded") /\ ioq' = Tail(ioq) /\ Done(Head(ioq).ec)
      /\ ioq # <<>> /\ Head(ioq).h = "upgraded"
  BY DEF HandleUpgraded, Handled, Ready
<1>2. Head(ioq).ec \in Failure \cup {"ok"} /\ ioq' \in Seq(Handler)
  BY <1>1, FirstHandler, HandlerKinds
<1>3. todo' \in Seq(Frame) /\ Followed(todo') /\ Guarded(events, todo', ioq', op)
  BY <1>1, <1>2, DoneStep DEF HoldingHandler
<1>4. events' = events /\ op' = op /\ TypeOK'
  BY <1>2, <1>3 DEF HandleUpgraded, ClientInv, TypeOK, timers, caller
<1> QED BY <1>3, <1>4 DEF ClientInv

LEMMA DoneConnectInv == ASSUME ClientInv, DoneConnect PROVE ClientInv'
<1> DEFINE error == IF TimedOut THEN "timed_out" ELSE Head(todo).ec
           ec    == IF error = "ok" /\ st # "starting" THEN "aborted" ELSE error
           n     == [f |-> "notifyConnect", ec |-> ec]
           a     == [f |-> "afterConnect", ec |-> ec]
<1>1. /\ todo # <<>> /\ Head(todo).f = "done" /\ Head(todo).f \in HoldingFrame /\ Then(<<n, a>>)
      /\ events' = events /\ ioq' = ioq /\ op' = op
  BY DEF DoneConnect, Top, HoldingFrame
<1>2. ec \in Failure \cup {"ok"}
  BY <1>1, TopFrame, FrameKinds DEF Failure
<1>3. n \in Frame /\ a \in Frame /\ n.f = "notifyConnect" /\ a.f = "afterConnect"
  BY <1>2, MakeFrame
<1> HIDE DEF n, a, ec, error
<1>4. <<n, a>> \in Seq(Frame)
  BY <1>3
<1>5. Followed(<<n, a>>)
  BY <1>3 DEF Followed
<1>6. OneOf(<<n, a>>, GuardFrame)
  <2>1. n \notin GuardFrame /\ a \in GuardFrame
    BY <1>3 DEF GuardFrame, HoldingFrame
  <2> QED BY <2>1 DEF OneOf
<1>7. todo' \in Seq(Frame) /\ Followed(todo') /\ Guarded(events, todo', ioq, op)
  BY <1>1, <1>4, <1>5, <1>6, StackStep
<1>8. TypeOK'
  BY <1>1, <1>7 DEF DoneConnect, ClientInv, TypeOK, timers, caller, State
<1> QED BY <1>1, <1>7, <1>8 DEF ClientInv

\* The request is queued behind the connect event that is still running.
LEMMA NotifyConnectInv == ASSUME ClientInv, NotifyConnect PROVE ClientInv'
<1>1. /\ todo # <<>> /\ Head(todo).f = "notifyConnect" /\ Then(<<>>)
      /\ ioq' = ioq /\ op' = op
  BY DEF NotifyConnect, Top
<1>2. Guarded(events, Tail(todo), ioq, op) /\ Tail(todo) \in Seq(Frame) /\ Followed(Tail(todo))
  BY <1>1, TopFrame DEF HoldingFrame
<1>3. todo' = Tail(todo)
  BY <1>1, <1>2, NoFrame DEF Then
<1>4. events # <<>>
  <2>1. todo \in Seq(Frame) /\ Followed(todo)
    BY DEF ClientInv, TypeOK
  <2>2. Tail(todo) # <<>> /\ Head(Tail(todo)).f = "afterConnect"
    BY <1>1, <2>1, FollowedTail
  <2>3. ~NoneOf(Tail(todo), GuardFrame)
    BY <1>2, <2>2, FirstMark DEF GuardFrame, HoldingFrame
  <2> QED BY <1>2, <2>3 DEF Guarded, Unheld
<1>5. events' \in Seq(Event) /\ events' # <<>>
  <2>1. events \in Seq(Event) /\ [e |-> "send"] \in Event
    BY MakeEvent DEF ClientInv, TypeOK
  <2>2. events' = events \/ events' = Append(events, [e |-> "send"])
    BY DEF NotifyConnect
  <2>3. Append(events, [e |-> "send"]) \in Seq(Event) /\ Append(events, [e |-> "send"]) # <<>>
    BY <2>1, AppendProperties
  <2> QED BY <1>4, <2>1, <2>2, <2>3
<1>6. Guarded(events', todo', ioq', op')
  BY <1>1, <1>2, <1>3, <1>4, <1>5 DEF Guarded
<1>7. TypeOK'
  <2>1. linked' \in BOOLEAN
    BY DEF NotifyConnect
  <2> QED BY <1>2, <1>3, <1>5, <2>1 DEF NotifyConnect, ClientInv, TypeOK, timers, caller
<1> QED BY <1>2, <1>3, <1>6, <1>7 DEF ClientInv

LEMMA ChainReturnsFrames ==
  ASSUME TypeOK, NEW v \in {"ok", "failed", "already_started"}
  PROVE  /\ ChainReturns(v) \in Seq(Frame) /\ Followed(ChainReturns(v))
         /\ NoneOf(ChainReturns(v), GuardFrame)
<1>1. CASE chain = "reconnect"
  BY <1>1, NoFrame DEF ChainReturns
<1>2. CASE chain # "reconnect"
  <2>1. chain \in Caller
    BY <1>2 DEF TypeOK
  <2> QED BY <1>2, <2>1, StartReturnsFrames DEF ChainReturns
<1> QED BY <1>1, <1>2

LEMMA CancelTimerStep ==
  ASSUME TypeOK, NEW evs, NEW s, NEW q \in Seq(Handler), NEW o, CancelConnectTimer(q)
  PROVE  /\ ioq' \in Seq(Handler)
         /\ ctimer' \in [id : Nat, waiting : BOOLEAN, canceled : BOOLEAN]
         /\ Guarded(evs, s, q, o) => Guarded(evs, s, ioq', o)
<1> DEFINE hd == [h |-> "ctimer", id |-> ctimer.id, expired |-> FALSE]
<1>1. hd \in Handler /\ hd.h \notin HoldingHandler
  BY MakeHandler DEF TypeOK, Attempt, HoldingHandler
<1>2. ioq' = q \/ ioq' = Append(q, hd)
  BY DEF CancelConnectTimer
<1>3. ctimer' \in [id : Nat, waiting : BOOLEAN, canceled : BOOLEAN]
  BY DEF CancelConnectTimer, TypeOK, Attempt
<1> HIDE DEF hd
<1>4. /\ Append(q, hd) \in Seq(Handler)
      /\ Guarded(evs, s, q, o) => Guarded(evs, s, Append(q, hd), o)
  BY <1>1, PutHandler
<1>5. CASE ioq' = q
  BY <1>3, <1>5
<1>6. CASE ioq' = Append(q, hd)
  BY <1>3, <1>4, <1>6
<1> QED BY <1>2, <1>5, <1>6

\* _do_disconnect in place passes the guard on.
LEMMA DisconnectInPlaceStep ==
  ASSUME ClientInv, todo # <<>>, Head(todo).f \in HoldingFrame,
         NEW by \in Caller \cup {"none"}, NEW otherwise \in Seq(Frame), NEW fs \in Seq(Frame),
         Followed(otherwise), Followed(fs), OneOf(otherwise, GuardFrame), NoneOf(fs, GuardFrame),
         DisconnectInPlace(by, otherwise, fs)
  PROVE  /\ st' \in State /\ dtimer' \in Nat
         /\ todo' \in Seq(Frame) /\ Followed(todo') /\ Guarded(events, todo', ioq, op)
<1> DEFINE fr == Disconnecting(by)
<1>1. st \in State /\ attempt \in Nat /\ dtimer \in Nat
  BY DEF ClientInv, TypeOK, Attempt
<1>2. CASE Connected
  <2>1. st' = "stopping" /\ dtimer' = attempt /\ Then(<<fr>> \o fs)
    BY <1>2 DEF DisconnectInPlace
  <2>2. fr \in Frame /\ fr.f = "disconnect"
    BY <1>1, MakeFrame DEF Disconnecting
  <2> HIDE DEF fr
  <2>3. <<fr>> \in Seq(Frame) /\ Followed(<<fr>>) /\ OneOf(<<fr>>, GuardFrame)
    BY <2>2, OneFrame DEF HoldingFrame
  <2>4. <<fr>> \o fs \in Seq(Frame) /\ Followed(<<fr>> \o fs) /\ OneOf(<<fr>> \o fs, GuardFrame)
    BY <2>3, TwoFrames
  <2> QED BY <1>1, <2>1, <2>4, StackStep DEF State
<1>3. CASE ~Connected
  <2>1. UNCHANGED <<st, dtimer>> /\ Then(otherwise \o fs)
    BY <1>3 DEF DisconnectInPlace
  <2>2. otherwise \o fs \in Seq(Frame) /\ Followed(otherwise \o fs) /\ OneOf(otherwise \o fs, GuardFrame)
    BY TwoFrames
  <2> QED BY <1>1, <2>1, <2>2, StackStep
<1> QED BY <1>2, <1>3

LEMMA PostReadStep ==
  ASSUME TypeOK, NEW evs, NEW s, NEW q, PostRead
  PROVE  op' \in OpRecord /\ (Guarded(evs, s, q, op) => Guarded(evs, s, q, op'))
<1>1. op \in OpRecord /\ attempt \in Nat
  BY DEF TypeOK, OpRecord, Attempt
<1>2. op' \in OpRecord
  <2>1. op' = [op EXCEPT !.read = op.read + 1, !.on = attempt]
    BY DEF PostRead
  <2>2. op.read + 1 \in Nat
    BY <1>1 DEF OpRecord
  <2> QED BY <1>1, <2>1, <2>2 DEF OpRecord, Attempt
<1>3. op.dial = op'.dial /\ op.write = op'.write /\ op.close = op'.close
  BY <1>1 DEF PostRead, OpRecord
<1> QED BY <1>2, <1>3, PutOp

LEMMA AfterConnectInv == ASSUME ClientInv, AfterConnect PROVE ClientInv'
<1> DEFINE ok == Head(todo).ec = "ok" /\ st = "started"
           fs == ChainReturns("ok") \o <<Release>>
<1>1. /\ todo # <<>> /\ Head(todo).f = "afterConnect" /\ Head(todo).f \in HoldingFrame
      /\ CancelConnectTimer(ioq) /\ events' = events
  BY DEF AfterConnect, Top, HoldingFrame
<1>2. TypeOK /\ ioq \in Seq(Handler) /\ op \in OpRecord /\ st \in State /\ dtimer \in Nat
  BY DEF ClientInv, TypeOK, OpRecord, Attempt
<1>3. /\ st' \in State /\ dtimer' \in Nat /\ op' \in OpRecord
      /\ todo' \in Seq(Frame) /\ Followed(todo') /\ Guarded(events, todo', ioq, op')
  <2>1. CASE ok
    <3>1. PostRead /\ Then(fs) /\ UNCHANGED <<st, dtimer>>
      BY <2>1 DEF AfterConnect
    <3>2. fs \in Seq(Frame) /\ Followed(fs) /\ OneOf(fs, GuardFrame)
      BY <1>2, ChainReturnsFrames, ReleaseFrames, TwoFrames
    <3> HIDE DEF fs
    <3>3. todo' \in Seq(Frame) /\ Followed(todo') /\ Guarded(events, todo', ioq, op)
      BY <1>1, <3>1, <3>2, StackStep
    <3> QED BY <1>2, <3>1, <3>3, PostReadStep
  <2>2. CASE ~ok
    <3>1. DisconnectInPlace("none", <<Release>>, ChainReturns("failed")) /\ op' = op
      BY <2>2 DEF AfterConnect
    <3>2. /\ ChainReturns("failed") \in Seq(Frame) /\ Followed(ChainReturns("failed"))
          /\ NoneOf(ChainReturns("failed"), GuardFrame)
      BY <1>2, ChainReturnsFrames
    <3> QED BY <1>1, <1>2, <3>1, <3>2, ReleaseFrames, DisconnectInPlaceStep
  <2> QED BY <2>1, <2>2
<1>4. /\ ioq' \in Seq(Handler) /\ Guarded(events, todo', ioq', op')
      /\ ctimer' \in [id : Nat, waiting : BOOLEAN, canceled : BOOLEAN]
  BY <1>1, <1>2, <1>3, CancelTimerStep
<1>5. TypeOK'
  BY <1>3, <1>4 DEF AfterConnect, ClientInv, TypeOK, caller, OpRecord, Attempt
<1> QED BY <1>1, <1>3, <1>4, <1>5 DEF ClientInv

LEMMA SetStartPromiseInv == ASSUME ClientInv, SetStartPromise PROVE ClientInv'
<1>1. /\ todo # <<>> /\ Head(todo).f = "startReturns" /\ Then(<<>>)
      /\ events' = events /\ ioq' = ioq /\ op' = op
  BY DEF SetStartPromise, Top
<1>2. todo' \in Seq(Frame) /\ Followed(todo') /\ Guarded(events, todo', ioq, op)
  BY <1>1, NoFrame, StackStep DEF HoldingFrame
<1>3. Head(todo).value \in {"ok", "failed", "already_started"}
  BY <1>1, TopFrame, FrameKinds
<1>4. TypeOK'
  BY <1>2, <1>3 DEF SetStartPromise, ClientInv, TypeOK, timers, caller
<1> QED BY <1>1, <1>2, <1>4 DEF ClientInv

LEMMA HandleConnectTimerInv == ASSUME ClientInv, HandleConnectTimer PROVE ClientInv'
<1>1. /\ ioq # <<>> /\ Head(ioq).h = "ctimer" /\ events' = events /\ todo' = todo
      /\ \/ ioq' = Tail(ioq) /\ UNCHANGED <<sockOpen, op>>
         \/ CloseSocket
      /\ ctimer' = ctimer \/ ctimer' = [ctimer EXCEPT !.id = 0, !.waiting = FALSE]
  BY DEF HandleConnectTimer, Ready, Handled
<1>2. TypeOK /\ op \in OpRecord /\ Tail(ioq) \in Seq(Handler) /\ Guarded(events, todo, Tail(ioq), op)
  BY <1>1, FirstHandler DEF HoldingHandler, ClientInv, TypeOK, OpRecord
<1>3. ioq' \in Seq(Handler) /\ Guarded(events, todo, ioq', op')
  BY <1>1, <1>2, CloseGuarded
<1>4. op' \in OpRecord /\ sockOpen' \in BOOLEAN
  <2>1. CASE CloseSocket
    <3>1. Aborted \in OpRecord
      BY <1>2, AbortedType
    <3> QED BY <2>1, <3>1 DEF CloseSocket, OpRecord
  <2>2. CASE UNCHANGED <<sockOpen, op>>
    BY <1>2, <2>2 DEF TypeOK
  <2> QED BY <1>1, <2>1, <2>2
<1>5. ctimer' \in [id : Nat, waiting : BOOLEAN, canceled : BOOLEAN]
  <2>1. ctimer \in [id : Nat, waiting : BOOLEAN, canceled : BOOLEAN] /\ 0 \in Nat
    BY <1>2 DEF TypeOK, Attempt
  <2>2. [ctimer EXCEPT !.id = 0, !.waiting = FALSE] \in [id : Nat, waiting : BOOLEAN, canceled : BOOLEAN]
    BY <2>1
  <2> QED BY <1>1, <2>1, <2>2
<1>6. TypeOK'
  BY <1>1, <1>3, <1>4, <1>5 DEF HandleConnectTimer, ClientInv, TypeOK, caller, OpRecord, Attempt
<1> QED BY <1>1, <1>3, <1>6 DEF ClientInv

----------------------------------------------------------------------------
(* Reconnecting, sending and receiving. *)

LEMMA HandleReconnectTimerInv == ASSUME ClientInv, HandleReconnectTimer PROVE ClientInv'
<1> DEFINE ev == [e |-> "reconnect", id |-> Head(ioq).id]
<1>1. /\ Ready("rtimer") /\ ioq' = Tail(ioq) /\ todo = <<>> /\ ioq # <<>> /\ Head(ioq).h = "rtimer"
      /\ op' = op
  BY DEF HandleReconnectTimer, Handled, Ready
<1>2. /\ Head(ioq).id \in Nat /\ ioq' \in Seq(Handler) /\ Guarded(events, todo, ioq', op)
      /\ events \in Seq(Event) /\ todo \in Seq(Frame) /\ Followed(todo)
  BY <1>1, FirstHandler, HandlerKinds DEF HoldingHandler, ClientInv, TypeOK
<1>3. ev \in Event
  BY <1>2, MakeEvent
<1>4. UNCHANGED <<events, todo>> \/ Push(ev, <<>>)
  BY DEF HandleReconnectTimer
<1> HIDE DEF ev
<1>5. /\ events' \in Seq(Event) /\ todo' \in Seq(Frame) /\ Followed(todo')
      /\ Guarded(events', todo', ioq', op)
  <2>1. CASE UNCHANGED <<events, todo>>
    BY <1>2, <2>1
  <2>2. CASE Push(ev, <<>>)
    <3>1. <<>> \in Seq(Frame) /\ Followed(<<>>) /\ Guarded(events, <<>>, ioq', op)
      BY <1>1, <1>2, NoFrame
    <3> QED BY <1>2, <1>3, <2>2, <3>1, PushGuarded
  <2> QED BY <1>4, <2>1, <2>2
<1>6. rtimer' \in [id : Nat, wait : {"none", "never", "delay"}, canceled : BOOLEAN]
  <2>1. rtimer \in [id : Nat, wait : {"none", "never", "delay"}, canceled : BOOLEAN]
    BY DEF ClientInv, TypeOK, Attempt
  <2>2. rtimer' = rtimer \/ rtimer' = [rtimer EXCEPT !.wait = "delay"] \/ rtimer' = [rtimer EXCEPT !.wait = "never"]
    BY DEF HandleReconnectTimer
  <2> QED BY <2>1, <2>2
<1>7. TypeOK'
  BY <1>2, <1>5, <1>6 DEF HandleReconnectTimer, ClientInv, TypeOK, caller, Attempt
<1> QED BY <1>1, <1>5, <1>7 DEF ClientInv

LEMMA RunSendInv == ASSUME ClientInv, RunSend PROVE ClientInv'
<1>1. RunNow("send") /\ Then(<<>>) /\ events' = events
  BY DEF RunSend
<1>2. todo' \in Seq(Frame) /\ Followed(todo') /\ events # <<>> /\ Unheld(todo', ioq, op)
  BY <1>1, NoFrame, RunEvent, StackStep
<1>3. op \in OpRecord /\ ioq \in Seq(Handler)
  BY DEF ClientInv, TypeOK, OpRecord
<1>4. op' \in OpRecord /\ ioq' \in Seq(Handler) /\ Guarded(events, todo', ioq', op')
  <2>1. CASE sockOpen
    <3>1. op' = [op EXCEPT !.write = op.write + 1] /\ ioq' = ioq
      BY <2>1 DEF RunSend
    <3>2. op.write + 1 \in Nat /\ op' \in OpRecord
      BY <1>3, <3>1 DEF OpRecord
    <3>3. OpOne(op')
      BY <1>2, <1>3, <3>1 DEF OpRecord, Unheld, OpFree, OpOne
    <3> QED BY <1>2, <1>3, <3>1, <3>2, <3>3, PutOp
  <2>2. CASE ~sockOpen
    <3> DEFINE hd == [h |-> "written", ok |-> FALSE]
    <3>1. ioq' = Append(ioq, hd) /\ op' = op
      BY <2>2 DEF RunSend
    <3>2. hd \in Handler /\ hd.h \in HoldingHandler
      BY MakeHandler DEF HoldingHandler
    <3> HIDE DEF hd
    <3> QED BY <1>2, <1>3, <3>1, <3>2, PutHandler
  <2> QED BY <2>1, <2>2
<1>5. TypeOK'
  BY <1>2, <1>4 DEF RunSend, ClientInv, TypeOK, timers, caller, OpRecord
<1> QED BY <1>1, <1>2, <1>4, <1>5 DEF ClientInv

\* _do_disconnect without a guard queues the rest.
LEMMA DisconnectQueuedStep ==
  ASSUME ClientInv, NEW fs \in Seq(Frame), Followed(fs), NEW q, NEW o,
         Guarded(events, fs, q, o), DisconnectQueued(fs)
  PROVE  /\ st' \in State /\ dtimer' \in Nat /\ events' \in Seq(Event)
         /\ todo' \in Seq(Frame) /\ Followed(todo') /\ Guarded(events', todo', q, o)
<1> DEFINE ev == [e |-> "disconnect", old |-> st]
<1>1. st \in State /\ attempt \in Nat /\ dtimer \in Nat /\ events \in Seq(Event)
  BY DEF ClientInv, TypeOK, Attempt
<1>2. ev \in Event
  BY <1>1, MakeEvent
<1>3. \/ st' = "stopping" /\ dtimer' = attempt /\ Push(ev, fs)
      \/ UNCHANGED <<st, dtimer, events>> /\ todo' = fs
  BY DEF DisconnectQueued
<1> HIDE DEF ev
<1>4. CASE st' = "stopping" /\ dtimer' = attempt /\ Push(ev, fs)
  <2>1. /\ events' \in Seq(Event) /\ todo' \in Seq(Frame) /\ Followed(todo')
        /\ Guarded(events', todo', q, o)
    BY <1>1, <1>2, <1>4, PushGuarded
  <2> QED BY <1>1, <1>4, <2>1 DEF State
<1>5. CASE UNCHANGED <<st, dtimer, events>> /\ todo' = fs
  BY <1>1, <1>5
<1> QED BY <1>3, <1>4, <1>5

LEMMA HandleWrittenInv == ASSUME ClientInv, HandleWritten PROVE ClientInv'
<1>1. /\ Ready("written") /\ ioq' = Tail(ioq) /\ op' = op /\ ioq # <<>> /\ Head(ioq).h = "written"
      /\ todo = <<>>
  BY DEF HandleWritten, HandleControl, Handled, Ready
<1>2. /\ ioq' \in Seq(Handler) /\ events # <<>> /\ Unheld(<<>>, ioq', op)
  BY <1>1, FirstHandler DEF HoldingHandler
<1>3. Guarded(events, <<Release>>, ioq', op)
  <2>1. Guarded(events, <<Release>> \o <<>>, ioq', op)
    BY <1>2, NoFrame, ReleaseFrames, PutFrames
  <2> QED BY <2>1, NoFrame, ReleaseFrames
<1>4. /\ st' \in State /\ dtimer' \in Nat /\ events' \in Seq(Event)
      /\ todo' \in Seq(Frame) /\ Followed(todo') /\ Guarded(events', todo', ioq', op)
  <2>1. DisconnectQueued(<<Release>>) \/ (todo' = <<Release>> /\ UNCHANGED <<st, dtimer, events>>)
    BY DEF HandleWritten
  <2>2. CASE DisconnectQueued(<<Release>>)
    BY <1>3, <2>2, ReleaseFrames, DisconnectQueuedStep
  <2>3. CASE todo' = <<Release>> /\ UNCHANGED <<st, dtimer, events>>
    BY <1>3, <2>3, ReleaseFrames DEF ClientInv, TypeOK, Attempt
  <2> QED BY <2>1, <2>2, <2>3
<1>5. TypeOK'
  BY <1>2, <1>4 DEF HandleWritten, HandleControl, ClientInv, TypeOK, caller, Attempt
<1> QED BY <1>1, <1>4, <1>5 DEF ClientInv

LEMMA ReceivingFrames ==
  LET fs == <<[f |-> "recv"], [f |-> "postRecv"]>> IN
  fs \in Seq(Frame) /\ Followed(fs) /\ NoneOf(fs, GuardFrame)
<1> DEFINE a == [f |-> "recv"]
           b == [f |-> "postRecv"]
<1>1. a \in Frame /\ b \in Frame /\ a.f = "recv" /\ b.f = "postRecv"
  BY MakeFrame
<1> HIDE DEF a, b
<1>2. a \notin GuardFrame /\ b \notin GuardFrame
  BY <1>1 DEF GuardFrame, HoldingFrame
<1>3. <<a, b>> \in Seq(Frame) /\ Followed(<<a, b>>) /\ NoneOf(<<a, b>>, GuardFrame)
  BY <1>1, <1>2 DEF Followed, NoneOf
<1> QED BY <1>3 DEF a, b

LEMMA HandleReadInv == ASSUME ClientInv, HandleRead PROVE ClientInv'
<1> DEFINE fs == <<[f |-> "recv"], [f |-> "postRecv"]>>
<1>1. /\ Ready("read") /\ ioq' = Tail(ioq) /\ op' = op /\ ioq # <<>> /\ Head(ioq).h = "read"
      /\ todo = <<>>
  BY DEF HandleRead, Handled, Ready
<1>2. ioq' \in Seq(Handler) /\ Guarded(events, <<>>, ioq', op)
  BY <1>1, FirstHandler DEF HoldingHandler
<1>3. \/ todo' = fs /\ UNCHANGED <<st, dtimer, events>>
      \/ DisconnectQueued(<<>>)
      \/ UNCHANGED <<st, dtimer, events, todo>>
  BY DEF HandleRead
<1>4. fs \in Seq(Frame) /\ Followed(fs) /\ NoneOf(fs, GuardFrame)
  BY ReceivingFrames
<1> HIDE DEF fs
<1>5. /\ st' \in State /\ dtimer' \in Nat /\ events' \in Seq(Event)
      /\ todo' \in Seq(Frame) /\ Followed(todo') /\ Guarded(events', todo', ioq', op)
  <2>1. CASE todo' = fs /\ UNCHANGED <<st, dtimer, events>>
    <3>1. Guarded(events, fs \o <<>>, ioq', op) /\ fs \o <<>> = fs
      BY <1>2, <1>4, NoFrame, PutFrames
    <3> QED BY <1>4, <2>1, <3>1 DEF ClientInv, TypeOK, Attempt
  <2>2. CASE DisconnectQueued(<<>>)
    BY <1>2, <2>2, NoFrame, DisconnectQueuedStep
  <2>3. CASE UNCHANGED <<st, dtimer, events, todo>>
    BY <1>1, <1>2, <2>3, NoFrame DEF ClientInv, TypeOK, Attempt
  <2> QED BY <1>3, <2>1, <2>2, <2>3
<1>6. TypeOK'
  BY <1>2, <1>5 DEF HandleRead, ClientInv, TypeOK, caller, Attempt
<1> QED BY <1>1, <1>5, <1>6 DEF ClientInv

LEMMA HandleControlInv == ASSUME ClientInv, HandleControl PROVE ClientInv'
<1>1. /\ Ready("control") /\ ioq' = Tail(ioq) /\ op' = op /\ ioq # <<>> /\ Head(ioq).h = "control"
      /\ todo = <<>>
  BY DEF HandleControl, Handled, Ready
<1>2. ioq' \in Seq(Handler) /\ Guarded(events, <<>>, ioq', op)
  BY <1>1, FirstHandler DEF HoldingHandler
<1>3. DisconnectQueued(<<>>) \/ UNCHANGED <<st, dtimer, events, todo>>
  BY DEF HandleControl
<1>4. /\ st' \in State /\ dtimer' \in Nat /\ events' \in Seq(Event)
      /\ todo' \in Seq(Frame) /\ Followed(todo') /\ Guarded(events', todo', ioq', op)
  <2>1. CASE DisconnectQueued(<<>>)
    BY <1>2, <2>1, NoFrame, DisconnectQueuedStep
  <2>2. CASE UNCHANGED <<st, dtimer, events, todo>>
    BY <1>1, <1>2, <2>2, NoFrame DEF ClientInv, TypeOK, Attempt
  <2> QED BY <1>3, <2>1, <2>2
<1>5. TypeOK'
  BY <1>2, <1>4 DEF HandleControl, ClientInv, TypeOK, caller, Attempt
<1> QED BY <1>1, <1>4, <1>5 DEF ClientInv

LEMMA RecvInv == ASSUME ClientInv, Recv PROVE ClientInv'
<1> DEFINE ev == [e |-> "stop", by |-> "io"]
<1>1. todo # <<>> /\ Head(todo).f = "recv" /\ ioq' = ioq /\ op' = op
  BY DEF Recv, Top
<1>2. /\ Guarded(events, Tail(todo), ioq, op) /\ Tail(todo) \in Seq(Frame) /\ Followed(Tail(todo))
      /\ events \in Seq(Event)
  BY <1>1, TopFrame DEF HoldingFrame, ClientInv, TypeOK
<1>3. Push(ev, Tail(todo)) \/ (Then(<<>>) /\ events' = events)
  BY DEF Recv
<1>4. ev \in Event
  BY MakeEvent DEF Caller
<1> HIDE DEF ev
<1>5. events' \in Seq(Event) /\ todo' \in Seq(Frame) /\ Followed(todo') /\ Guarded(events', todo', ioq, op)
  <2>1. CASE Push(ev, Tail(todo))
    BY <1>2, <1>4, <2>1, PushGuarded
  <2>2. CASE Then(<<>>) /\ events' = events
    <3>1. todo' = Tail(todo)
      BY <1>2, <2>2, NoFrame DEF Then
    <3> QED BY <1>2, <2>2, <3>1
  <2> QED BY <1>3, <2>1, <2>2
<1>6. TypeOK'
  BY <1>5 DEF Recv, ClientInv, TypeOK, timers, caller
<1> QED BY <1>1, <1>5, <1>6 DEF ClientInv

LEMMA StartInCallbackInv == ASSUME ClientInv, StartInCallback PROVE ClientInv'
<1> DEFINE ev == [e |-> "connect", by |-> "io", to |-> starts']
<1>1. todo # <<>> /\ Push(ev, todo) /\ ioq' = ioq /\ op' = op /\ starts < MaxStarts /\ starts' = starts + 1
  BY DEF StartInCallback, Top
<1>2. starts' \in 1..MaxStarts /\ starts' \in 0..MaxStarts
  BY <1>1, ClientAssumption DEF ClientInv, TypeOK
<1>3. ev \in Event
  BY <1>2, MakeEvent DEF Caller
<1>4. /\ events \in Seq(Event) /\ todo \in Seq(Frame) /\ Followed(todo) /\ Guarded(events, todo, ioq, op)
  BY DEF ClientInv, TypeOK
<1> HIDE DEF ev
<1>5. events' \in Seq(Event) /\ todo' \in Seq(Frame) /\ Followed(todo') /\ Guarded(events', todo', ioq, op)
  BY <1>1, <1>3, <1>4, PushGuarded
<1>6. TypeOK'
  BY <1>2, <1>5 DEF StartInCallback, ClientInv, TypeOK, timers
<1> QED BY <1>1, <1>5, <1>6 DEF ClientInv

LEMMA PostRecvInv == ASSUME ClientInv, PostRecv PROVE ClientInv'
<1>1. todo # <<>> /\ Head(todo).f = "postRecv" /\ ioq' = ioq
  BY DEF PostRecv, Top
<1>2. /\ Guarded(events, Tail(todo), ioq, op) /\ Tail(todo) \in Seq(Frame) /\ Followed(Tail(todo))
      /\ st \in State /\ dtimer \in Nat /\ events \in Seq(Event) /\ op \in OpRecord /\ TypeOK
  BY <1>1, TopFrame DEF HoldingFrame, ClientInv, TypeOK, OpRecord, Attempt
<1>3. Then(<<>>) => todo' = Tail(todo)
  BY <1>2, NoFrame DEF Then
<1>4. \/ PostRead /\ Then(<<>>) /\ UNCHANGED <<st, dtimer, events>>
      \/ DisconnectQueued(Tail(todo)) /\ op' = op
      \/ Then(<<>>) /\ UNCHANGED <<op, st, dtimer, events>>
  BY DEF PostRecv
<1>5. /\ st' \in State /\ dtimer' \in Nat /\ events' \in Seq(Event) /\ op' \in OpRecord
      /\ todo' \in Seq(Frame) /\ Followed(todo') /\ Guarded(events', todo', ioq, op')
  <2>1. CASE PostRead /\ Then(<<>>) /\ UNCHANGED <<st, dtimer, events>>
    BY <1>2, <1>3, <2>1, PostReadStep
  <2>2. CASE DisconnectQueued(Tail(todo)) /\ op' = op
    BY <1>2, <2>2, DisconnectQueuedStep
  <2>3. CASE Then(<<>>) /\ UNCHANGED <<op, st, dtimer, events>>
    BY <1>2, <1>3, <2>3
  <2> QED BY <1>4, <2>1, <2>2, <2>3
<1>6. TypeOK'
  BY <1>5 DEF PostRecv, ClientInv, TypeOK, caller, OpRecord, Attempt
<1> QED BY <1>1, <1>5, <1>6 DEF ClientInv

----------------------------------------------------------------------------
(* Stopping, and the game thread. *)

LEMMA CancelReconnectStep ==
  ASSUME TypeOK, CancelReconnect
  PROVE  rtimer' \in [id : Nat, wait : {"none", "never", "delay"}, canceled : BOOLEAN]
<1>1. rtimer \in [id : Nat, wait : {"none", "never", "delay"}, canceled : BOOLEAN]
  BY DEF TypeOK, Attempt
<1> QED BY <1>1 DEF CancelReconnect

LEMMA RunStopInv == ASSUME ClientInv, RunStop PROVE ClientInv'
<1> DEFINE by == Head(events).by
           fr == [f |-> "stopReturns", by |-> by]
<1>1. /\ RunNow("stop") /\ events' = events /\ ioq' = ioq /\ op' = op
      /\ CancelReconnect /\ DisconnectInPlace(by, <<fr>>, <<>>)
  BY DEF RunStop
<1>2. by \in Caller
  BY <1>1, RunEvent, EventKinds
<1>3. fr \in Frame /\ fr.f = "stopReturns"
  BY <1>2, MakeFrame
<1> HIDE DEF fr, by
<1>4. <<fr>> \in Seq(Frame) /\ Followed(<<fr>>) /\ OneOf(<<fr>>, GuardFrame)
  BY <1>3, OneFrame DEF HoldingFrame
<1>5. todo # <<>> /\ Head(todo).f \in HoldingFrame
  BY <1>1, RunEvent
<1>6. /\ st' \in State /\ dtimer' \in Nat
      /\ todo' \in Seq(Frame) /\ Followed(todo') /\ Guarded(events, todo', ioq, op)
  BY <1>1, <1>2, <1>4, <1>5, NoFrame, DisconnectInPlaceStep
<1>7. TypeOK'
  <2>1. rtimer' \in [id : Nat, wait : {"none", "never", "delay"}, canceled : BOOLEAN]
    BY <1>1, CancelReconnectStep DEF ClientInv
  <2>2. /\ wanted' = FALSE
        /\ UNCHANGED <<events, ioq, op, sockOpen, attempt, chain, ctimer, pool, game, starts, ret,
                       recvs, linked, host>>
    BY DEF RunStop, caller
  <2>3. /\ events' \in Seq(Event) /\ ioq' \in Seq(Handler) /\ op' \in OpRecord
        /\ ctimer' \in [id : Nat, waiting : BOOLEAN, canceled : BOOLEAN]
        /\ recvs' \in 0..MaxRecvs /\ starts' \in 0..MaxStarts /\ host' \in 0..MaxStarts
    BY <2>2 DEF ClientInv, TypeOK, OpRecord, Attempt
  <2> QED BY <1>6, <2>1, <2>2, <2>3 DEF ClientInv, TypeOK, OpRecord, Attempt
<1> QED BY <1>1, <1>6, <1>7 DEF ClientInv

LEMMA SetStopPromiseInv == ASSUME ClientInv, SetStopPromise PROVE ClientInv'
<1>1. /\ todo # <<>> /\ Head(todo).f = "stopReturns" /\ Then(<<Release>>)
      /\ events' = events /\ op' = op /\ CancelReconnect /\ CancelConnectTimer(ioq)
  BY DEF SetStopPromise, Top
<1>2. todo' \in Seq(Frame) /\ Followed(todo') /\ Guarded(events, todo', ioq, op)
  BY <1>1, ReleaseFrames, StackStep DEF HoldingFrame
<1>3. TypeOK /\ ioq \in Seq(Handler)
  BY DEF ClientInv, TypeOK
<1>4. /\ ioq' \in Seq(Handler) /\ Guarded(events, todo', ioq', op)
      /\ ctimer' \in [id : Nat, waiting : BOOLEAN, canceled : BOOLEAN]
      /\ rtimer' \in [id : Nat, wait : {"none", "never", "delay"}, canceled : BOOLEAN]
  BY <1>1, <1>2, <1>3, CancelTimerStep, CancelReconnectStep
<1>5. TypeOK'
  BY <1>2, <1>4 DEF SetStopPromise, ClientInv, TypeOK, caller, Attempt
<1> QED BY <1>1, <1>2, <1>4, <1>5 DEF ClientInv

\* A call from the game thread is posted to the io thread.
LEMMA PostedStep ==
  ASSUME ClientInv, NEW ev \in Event, ioq' = Append(ioq, Posted(ev))
  PROVE  ioq' \in Seq(Handler) /\ Guarded(events, todo, ioq', op)
<1>1. Posted(ev) \in Handler /\ Posted(ev).h \notin HoldingHandler
  BY MakeHandler DEF Posted, HoldingHandler
<1>2. ioq \in Seq(Handler) /\ Guarded(events, todo, ioq, op)
  BY DEF ClientInv, TypeOK
<1> QED BY <1>1, <1>2, PutHandler

LEMMA StartInv == ASSUME ClientInv, Start PROVE ClientInv'
<1> DEFINE ev == [e |-> "connect", by |-> "game", to |-> starts']
<1>1. /\ starts < MaxStarts /\ starts' = starts + 1 /\ ioq' = Append(ioq, Posted(ev))
      /\ UNCHANGED <<events, todo, op>>
  BY DEF Start, io
<1>2. starts' \in 1..MaxStarts /\ starts' \in 0..MaxStarts
  BY <1>1, ClientAssumption DEF ClientInv, TypeOK
<1>3. ev \in Event
  BY <1>2, MakeEvent DEF Caller
<1> HIDE DEF ev
<1>4. ioq' \in Seq(Handler) /\ Guarded(events, todo, ioq', op)
  BY <1>1, <1>3, PostedStep
<1>5. TypeOK'
  BY <1>2, <1>4 DEF Start, io, ClientInv, TypeOK, timers
<1> QED BY <1>1, <1>4, <1>5 DEF ClientInv

LEMMA StopInv == ASSUME ClientInv, Stop PROVE ClientInv'
<1> DEFINE ev == [e |-> "stop", by |-> "game"]
<1>1. ioq' = Append(ioq, Posted(ev)) /\ UNCHANGED <<events, todo, op>>
  BY DEF Stop, io
<1>2. ev \in Event
  BY MakeEvent DEF Caller
<1> HIDE DEF ev
<1>3. ioq' \in Seq(Handler) /\ Guarded(events, todo, ioq', op)
  BY <1>1, <1>2, PostedStep
<1>4. TypeOK'
  BY <1>3 DEF Stop, io, ClientInv, TypeOK, timers
<1> QED BY <1>1, <1>3, <1>4 DEF ClientInv

LEMMA GameThreadInv == ASSUME ClientInv, GameThread PROVE ClientInv'
<1>1. UNCHANGED <<events, todo, ioq, op>>
  BY DEF GameThread, StartReturned, StopPool, StopReturned, io
<1>2. TypeOK'
  BY DEF GameThread, StartReturned, StopPool, StopReturned, io, timers, ClientInv, TypeOK
<1> QED BY <1>1, <1>2 DEF ClientInv

----------------------------------------------------------------------------
(* The network and the clock. *)

\* The completed handler has the guard of its operation.
LEMMA GiveBack ==
  ASSUME NEW evs, NEW s, NEW q \in Seq(Handler), NEW o, NEW p, Guarded(evs, s, q, o), ~OpFree(o),
         NEW hd \in Handler, hd.h \in HoldingHandler, OpOne(o) => OpFree(p)
  PROVE  Append(q, hd) \in Seq(Handler) /\ Guarded(evs, s, Append(q, hd), p)
<1>1. evs # <<>> /\ Unheld(s, q, p)
  BY DEF Guarded, Held, Unheld
<1> QED BY <1>1, PutHandler

LEMMA NetDialInv == ASSUME ClientInv, NetResolve \/ NetConnect \/ NetUpgrade PROVE ClientInv'
<1>1. PICK h \in {"resolved", "connected", "upgraded"}, ec \in {"ok", "refused"} :
          ioq' = Append(ioq, [h |-> h, ec |-> ec])
  BY DEF NetResolve, NetConnect, NetUpgrade, Complete
<1> DEFINE hd == [h |-> h, ec |-> ec]
<1>2. hd \in Handler /\ hd.h \in HoldingHandler
  <2>1. ec \in Failure \cup {"ok"}
    BY DEF Failure
  <2> QED BY <2>1, MakeHandler DEF HoldingHandler
<1>3. op \in OpRecord /\ op.dial # "none" /\ ioq \in Seq(Handler) /\ Guarded(events, todo, ioq, op)
  BY DEF NetResolve, NetConnect, NetUpgrade, ClientInv, TypeOK, OpRecord
<1>4. op' \in OpRecord /\ op'.dial = "none" /\ op'.write = op.write /\ op'.close = op.close
  <2>1. \/ op' = [op EXCEPT !.dial = "none"]
        \/ \E ws \in BOOLEAN : op' = [op EXCEPT !.dial = "none", !.ws = ws]
    BY DEF NetResolve, NetConnect, NetUpgrade
  <2> QED BY <1>3, <2>1 DEF OpRecord
<1>5. ioq' \in Seq(Handler) /\ Guarded(events, todo, ioq', op')
  <2>1. ~OpFree(op) /\ (OpOne(op) => OpFree(op'))
    BY <1>3, <1>4 DEF OpFree, OpOne
  <2> HIDE DEF hd
  <2>2. ioq' = Append(ioq, hd)
    BY <1>1 DEF hd
  <2> QED BY <1>2, <1>3, <2>1, <2>2, GiveBack
<1>6. UNCHANGED <<events, todo>> /\ TypeOK'
  BY <1>4, <1>5 DEF NetResolve, NetConnect, NetUpgrade, quiet, caller, ClientInv, TypeOK, OpRecord
<1> QED BY <1>5, <1>6 DEF ClientInv

LEMMA NetCloseInv == ASSUME ClientInv, NetClose PROVE ClientInv'
<1> DEFINE hd == [h |-> "closed", by |-> op.close]
           q  == ioq \o AbortedReads
<1>1. /\ op.close # "no" /\ ioq' = q \o <<hd>>
      /\ op' = [op EXCEPT !.close = "no", !.read = 0, !.ws = FALSE]
      /\ UNCHANGED <<events, todo>>
  BY DEF NetClose, quiet
<1>2. op \in OpRecord /\ ioq \in Seq(Handler) /\ Guarded(events, todo, ioq, op) /\ TypeOK
  BY DEF ClientInv, TypeOK, OpRecord
<1>3. hd \in Handler /\ hd.h \in HoldingHandler
  <2>1. op.close \in Caller \cup {"none"}
    BY <1>1, <1>2 DEF OpRecord
  <2> QED BY <2>1, MakeHandler DEF HoldingHandler
<1>4. op' \in OpRecord /\ op'.dial = op.dial /\ op'.write = op.write /\ op'.close = "no"
  BY <1>1, <1>2 DEF OpRecord
<1>5. q \in Seq(Handler) /\ Guarded(events, todo, q, op)
  BY <1>2, AbortedHandlers, PutHandlers
<1>6. ~OpFree(op) /\ (OpOne(op) => OpFree(op'))
  BY <1>1, <1>4 DEF OpFree, OpOne
<1> HIDE DEF q, hd
<1>7. ioq' = Append(q, hd)
  BY <1>1, <1>3, <1>5
<1>8. ioq' \in Seq(Handler) /\ Guarded(events, todo, ioq', op')
  BY <1>3, <1>5, <1>6, <1>7, GiveBack
<1>9. TypeOK'
  BY <1>4, <1>8 DEF NetClose, quiet, caller, ClientInv, TypeOK, OpRecord
<1> QED BY <1>1, <1>8, <1>9 DEF ClientInv

LEMMA NetWriteInv == ASSUME ClientInv, NetWrite PROVE ClientInv'
<1>1. PICK ok \in BOOLEAN :
          /\ ioq' = Append(ioq, [h |-> "written", ok |-> ok])
          /\ op' = [op EXCEPT !.write = op.write - 1, !.ws = op.ws /\ ok]
  BY DEF NetWrite, Complete
<1> DEFINE hd == [h |-> "written", ok |-> ok]
<1>2. hd \in Handler /\ hd.h \in HoldingHandler
  BY MakeHandler DEF HoldingHandler
<1>3. op \in OpRecord /\ op.write > 0 /\ ioq \in Seq(Handler) /\ Guarded(events, todo, ioq, op)
  BY DEF NetWrite, ClientInv, TypeOK, OpRecord
<1>4. op' \in OpRecord /\ op'.dial = op.dial /\ op'.write = op.write - 1 /\ op'.close = op.close
  <2>1. op.write - 1 \in Nat /\ (op.ws /\ ok) \in BOOLEAN
    BY <1>3 DEF OpRecord
  <2> QED BY <1>1, <1>3, <2>1 DEF OpRecord
<1>5. ~OpFree(op) /\ (OpOne(op) => OpFree(op'))
  BY <1>3, <1>4 DEF OpFree, OpOne, OpRecord
<1> HIDE DEF hd
<1>6. ioq' = Append(ioq, hd)
  BY <1>1 DEF hd
<1>7. ioq' \in Seq(Handler) /\ Guarded(events, todo, ioq', op')
  BY <1>2, <1>3, <1>5, <1>6, GiveBack
<1>8. UNCHANGED <<events, todo>> /\ TypeOK'
  BY <1>4, <1>7 DEF NetWrite, quiet, caller, ClientInv, TypeOK, OpRecord
<1> QED BY <1>7, <1>8 DEF ClientInv

LEMMA NetReadInv == ASSUME ClientInv, NetRead PROVE ClientInv'
<1>1. PICK ok \in BOOLEAN :
          /\ ok => recvs < MaxRecvs
          /\ ioq' = Append(ioq, [h |-> "read", ok |-> ok, on |-> op.on])
          /\ recvs' = IF ok THEN recvs + 1 ELSE recvs
          /\ op' = [op EXCEPT !.read = op.read - 1, !.ws = op.ws /\ ok]
  BY DEF NetRead, Complete
<1> DEFINE hd == [h |-> "read", ok |-> ok, on |-> op.on]
<1>2. op \in OpRecord /\ op.read > 0 /\ ioq \in Seq(Handler) /\ Guarded(events, todo, ioq, op)
  BY DEF NetRead, ClientInv, TypeOK, OpRecord
<1>3. hd \in Handler /\ hd.h \notin HoldingHandler
  <2>1. op.on \in Nat
    BY <1>2 DEF OpRecord, Attempt
  <2> QED BY <2>1, MakeHandler DEF HoldingHandler
<1>4. op' \in OpRecord /\ op'.dial = op.dial /\ op'.write = op.write /\ op'.close = op.close
  <2>1. op.read - 1 \in Nat /\ (op.ws /\ ok) \in BOOLEAN
    BY <1>2 DEF OpRecord
  <2> QED BY <1>1, <1>2, <2>1 DEF OpRecord
<1> HIDE DEF hd
<1>5. ioq' = Append(ioq, hd)
  BY <1>1 DEF hd
<1>6. ioq' \in Seq(Handler) /\ Guarded(events, todo, ioq', op)
  BY <1>2, <1>3, <1>5, PutHandler
<1>7. Guarded(events, todo, ioq', op')
  BY <1>4, <1>6, PutOp
<1>8. recvs' \in 0..MaxRecvs
  BY <1>1, ClientAssumption DEF ClientInv, TypeOK
<1>9. UNCHANGED <<events, todo>> /\ TypeOK'
  BY <1>4, <1>6, <1>8 DEF NetRead, quiet, caller, ClientInv, TypeOK, OpRecord
<1> QED BY <1>6, <1>7, <1>9 DEF ClientInv

LEMMA NetCloseFrameInv == ASSUME ClientInv, NetCloseFrame PROVE ClientInv'
<1> DEFINE hd == [h |-> "control"]
<1>1. hd \in Handler /\ hd.h \notin HoldingHandler
  BY MakeHandler DEF HoldingHandler
<1>2. ioq' = Append(ioq, hd) /\ UNCHANGED <<events, todo, op>>
  BY DEF NetCloseFrame, Complete, io
<1> HIDE DEF hd
<1>3. ioq' \in Seq(Handler) /\ Guarded(events, todo, ioq', op)
  BY <1>1, <1>2, PutHandler DEF ClientInv, TypeOK
<1>4. TypeOK'
  BY <1>3 DEF NetCloseFrame, io, caller, timers, ClientInv, TypeOK
<1> QED BY <1>2, <1>3, <1>4 DEF ClientInv

LEMMA ClockInv == ASSUME ClientInv, Clock PROVE ClientInv'
<1> DEFINE c == [h |-> "ctimer", id |-> ctimer.id, expired |-> TRUE]
           r == [h |-> "rtimer", id |-> rtimer.id, expired |-> TRUE]
           d == [h |-> "dtimer", id |-> dtimer]
<1>1. ctimer.id \in Nat /\ rtimer.id \in Nat /\ dtimer \in Nat
  BY DEF ClientInv, TypeOK, Attempt
<1>2. /\ c \in Handler /\ c.h \notin HoldingHandler
      /\ r \in Handler /\ r.h \notin HoldingHandler
      /\ d \in Handler /\ d.h \notin HoldingHandler
  BY <1>1, MakeHandler DEF HoldingHandler
<1>3. ioq' = Append(ioq, c) \/ ioq' = Append(ioq, r) \/ ioq' = Append(ioq, d)
  BY DEF Clock, ConnectTimerExpires, ReconnectDelayExpires, DisconnectTick, Complete
<1>4. ioq \in Seq(Handler) /\ Guarded(events, todo, ioq, op)
  BY DEF ClientInv, TypeOK
<1> HIDE DEF c, r, d
<1>5. ioq' \in Seq(Handler) /\ Guarded(events, todo, ioq', op)
  <2>1. \A hd \in {c, r, d} :
          Append(ioq, hd) \in Seq(Handler) /\ Guarded(events, todo, Append(ioq, hd), op)
    BY <1>2, <1>4, PutHandler
  <2> QED BY <1>3, <2>1
<1>6. UNCHANGED <<events, todo, op>>
  BY DEF Clock, ConnectTimerExpires, ReconnectDelayExpires, DisconnectTick, quiet, io
<1>7. /\ ctimer' \in [id : Nat, waiting : BOOLEAN, canceled : BOOLEAN]
      /\ rtimer' \in [id : Nat, wait : {"none", "never", "delay"}, canceled : BOOLEAN]
  <2>1. /\ ctimer \in [id : Nat, waiting : BOOLEAN, canceled : BOOLEAN]
        /\ rtimer \in [id : Nat, wait : {"none", "never", "delay"}, canceled : BOOLEAN]
    BY DEF ClientInv, TypeOK, Attempt
  <2>2. /\ ctimer' = ctimer \/ ctimer' = [ctimer EXCEPT !.waiting = FALSE]
        /\ rtimer' = rtimer \/ rtimer' = [rtimer EXCEPT !.wait = "none"]
    BY DEF Clock, ConnectTimerExpires, ReconnectDelayExpires, DisconnectTick, quiet, io, timers
  <2> QED BY <2>1, <2>2
<1>8. TypeOK'
  <2>1. UNCHANGED <<st, sockOpen, attempt, chain, dtimer, pool, game, starts, ret, recvs, linked, wanted, host>>
    BY DEF Clock, ConnectTimerExpires, ReconnectDelayExpires, DisconnectTick, quiet, io, caller, timers
  <2> QED BY <1>5, <1>6, <1>7, <2>1 DEF ClientInv, TypeOK, Attempt
<1> QED BY <1>5, <1>6, <1>8 DEF ClientInv

----------------------------------------------------------------------------
(* The invariant is inductive. *)

LEMMA InitInv == Init => ClientInv
<1> SUFFICES ASSUME Init PROVE ClientInv
  OBVIOUS
<1>1. TypeOK
  <2>1. 0 \in 0..MaxStarts /\ 0 \in 0..MaxRecvs /\ 1 \in 1..Endpoints
    BY ClientAssumption
  <2>2. op \in OpRecord
    BY <2>1 DEF Init, OpRecord, Attempt
  <2>3. events \in Seq(Event) /\ todo \in Seq(Frame) /\ ioq \in Seq(Handler)
    BY EmptySeq DEF Init
  <2> QED BY <2>1, <2>2, <2>3 DEF Init, TypeOK, OpRecord, Attempt, State, Caller
<1>2. Guarded(events, todo, ioq, op)
  BY EmptyMarks DEF Init, Guarded, Unheld, OpFree
<1> QED BY <1>1, <1>2, NoFrame DEF Init, ClientInv

LEMMA NextInv == ClientInv /\ [Next]_vars => ClientInv'
<1> SUFFICES ASSUME ClientInv, [Next]_vars PROVE ClientInv'
  OBVIOUS
<1>1. CASE IoInternal \/ Disconnect
  <2>1. CASE \/ HandlePush \/ NextEvent \/ RunDisconnect \/ Disconnect \/ HandleClosed
             \/ HandleDisconnect \/ HandleDisconnectTimer
    BY <2>1, HandlePushInv, NextEventInv, RunDisconnectInv, DisconnectInv, HandleClosedInv,
       HandleDisconnectInv, HandleDisconnectTimerInv
  <2>2. CASE \/ RunConnect \/ RunReconnect \/ HandleResolved \/ HandleConnected \/ HandleUpgraded
             \/ DoneConnect \/ AfterConnect \/ SetStartPromise
    BY <2>2, RunConnectInv, RunReconnectInv, HandleResolvedInv, HandleConnectedInv,
       HandleUpgradedInv, DoneConnectInv, AfterConnectInv, SetStartPromiseInv
  <2>3. CASE \/ HandleConnectTimer \/ HandleReconnectTimer \/ RunSend \/ HandleWritten \/ HandleControl \/ HandleRead
             \/ PostRecv \/ RunStop \/ SetStopPromise
    BY <2>3, HandleConnectTimerInv, HandleReconnectTimerInv, RunSendInv, HandleWrittenInv,
       HandleControlInv, HandleReadInv, PostRecvInv, RunStopInv, SetStopPromiseInv
  <2> QED BY <1>1, <2>1, <2>2, <2>3 DEF IoInternal
<1>2. CASE IoCallback
  BY <1>2, NotifyConnectInv, RecvInv, StartInCallbackInv DEF IoCallback
<1>3. CASE GameThread \/ Calls
  BY <1>3, GameThreadInv, StartInv, StopInv DEF Calls
<1>4. CASE Clock
  BY <1>4, ClockInv
<1>5. CASE Network
  BY <1>5, NetDialInv, NetCloseInv, NetWriteInv, NetReadInv, NetCloseFrameInv DEF Network
<1>6. CASE UNCHANGED vars
  BY <1>6 DEF vars, ClientInv, TypeOK
<1> QED BY <1>1, <1>2, <1>3, <1>4, <1>5, <1>6 DEF Next, IoThread

LEMMA Inductive == Spec => []ClientInv
<1> QED BY InitInv, NextInv, PTL DEF Spec

----------------------------------------------------------------------------
(* OneOf guard, and only one. *)

LEMMA HoldersCounted ==
  ASSUME ClientInv
  PROVE  IF events = <<>> THEN Holders = {} ELSE \E x : Holders = {x}
<1> DEFINE S == {j \in 1..Len(todo) : todo[j].f \in HoldingFrame}
           H == {j \in 1..Len(ioq) : ioq[j].h \in HoldingHandler}
           D == IF op.dial = "none" THEN {} ELSE {1}
           W == 1..op.write
           C == IF op.close = "no" THEN {} ELSE {1}
<1>1. /\ NoneOf(todo, GuardFrame) => S = {}
      /\ OneOf(todo, GuardFrame) => \E x : S = {x}
  <2>1. \A i \in 1..Len(todo) : todo[i] \in GuardFrame <=> todo[i].f \in HoldingFrame
    <3>1. \A i \in 1..Len(todo) : todo[i] \in Frame
      BY ElementOfSeq DEF ClientInv, TypeOK
    <3> QED BY <3>1 DEF GuardFrame
  <2>2. ASSUME NoneOf(todo, GuardFrame) PROVE S = {}
    BY <2>1, <2>2 DEF NoneOf
  <2>3. ASSUME OneOf(todo, GuardFrame) PROVE \E x : S = {x}
    <3>1. PICK x \in 1..Len(todo) : \A j \in 1..Len(todo) : todo[j] \in GuardFrame <=> j = x
      BY <2>3 DEF OneOf
    <3>2. S = {x}
      BY <2>1, <3>1
    <3> QED BY <3>2
  <2> QED BY <2>2, <2>3
<1>2. /\ NoneOf(ioq, GuardHandler) => H = {}
      /\ OneOf(ioq, GuardHandler) => \E x : H = {x}
  <2>1. \A i \in 1..Len(ioq) : ioq[i] \in GuardHandler <=> ioq[i].h \in HoldingHandler
    <3>1. \A i \in 1..Len(ioq) : ioq[i] \in Handler
      BY ElementOfSeq DEF ClientInv, TypeOK
    <3> QED BY <3>1 DEF GuardHandler
  <2>2. ASSUME NoneOf(ioq, GuardHandler) PROVE H = {}
    BY <2>1, <2>2 DEF NoneOf
  <2>3. ASSUME OneOf(ioq, GuardHandler) PROVE \E x : H = {x}
    <3>1. PICK x \in 1..Len(ioq) : \A j \in 1..Len(ioq) : ioq[j] \in GuardHandler <=> j = x
      BY <2>3 DEF OneOf
    <3>2. H = {x}
      BY <2>1, <3>1
    <3> QED BY <3>2
  <2> QED BY <2>2, <2>3
<1>3. /\ OpFree(op) => D = {} /\ W = {} /\ C = {}
      /\ OpOne(op) =>
            \/ D = {1} /\ W = {} /\ C = {}
            \/ D = {} /\ W = {1} /\ C = {}
            \/ D = {} /\ W = {} /\ C = {1}
  BY DEF OpFree, OpOne
<1>4. Holders = {<<"frame", i>> : i \in S} \cup {<<"handler", i>> : i \in H}
                    \cup {<<"dial", i>> : i \in D} \cup {<<"write", i>> : i \in W}
                    \cup {<<"close", i>> : i \in C}
  BY DEF Holders
<1> HIDE DEF S, H, D, W, C
<1>5. ASSUME Unheld(todo, ioq, op) PROVE Holders = {}
  BY <1>1, <1>2, <1>3, <1>4, <1>5 DEF Unheld
<1>6. ASSUME Held(todo, ioq, op) PROVE \E x : Holders = {x}
  <2>1. CASE OneOf(todo, GuardFrame) /\ NoneOf(ioq, GuardHandler) /\ OpFree(op)
    <3>1. PICK x : S = {x}
      BY <1>1, <2>1
    <3>2. Holders = {<<"frame", x>>}
      BY <1>2, <1>3, <1>4, <2>1, <3>1
    <3> QED BY <3>2
  <2>2. CASE NoneOf(todo, GuardFrame) /\ OneOf(ioq, GuardHandler) /\ OpFree(op)
    <3>1. PICK x : H = {x}
      BY <1>2, <2>2
    <3>2. Holders = {<<"handler", x>>}
      BY <1>1, <1>3, <1>4, <2>2, <3>1
    <3> QED BY <3>2
  <2>3. CASE NoneOf(todo, GuardFrame) /\ NoneOf(ioq, GuardHandler) /\ OpOne(op)
    <3>1. S = {} /\ H = {}
      BY <1>1, <1>2, <2>3
    <3>2. Holders = {<<"dial", 1>>} \/ Holders = {<<"write", 1>>} \/ Holders = {<<"close", 1>>}
      BY <1>3, <1>4, <2>3, <3>1
    <3> QED BY <3>2
  <2> QED BY <1>6, <2>1, <2>2, <2>3 DEF Held
<1> QED BY <1>5, <1>6 DEF ClientInv, Guarded

\* Asio2Client.TypeOK: the queue, the stack and the operations of the client
\* hold what asio2 puts there, in every configuration.
THEOREM ClientTypeSafe == Spec => []TypeOK
<1>1. ClientInv => TypeOK
  BY DEF ClientInv
<1> QED BY <1>1, Inductive, PTL

\* event_queue_cp.hpp: as long as an event is queued, exactly one frame, one
\* completed handler or one operation holds the guard that will pop it.
THEOREM GuardNeverLostNorDoubled == Spec => []OneGuard
<1>1. ClientInv => OneGuard
  <2> SUFFICES ASSUME ClientInv PROVE OneGuard
    OBVIOUS
  <2>1. CASE events = <<>>
    BY <2>1, HoldersCounted, FS_EmptySet DEF OneGuard
  <2>2. CASE events # <<>>
    <3>1. PICK x : Holders = {x}
      BY <2>2, HoldersCounted
    <3> QED BY <2>2, <3>1, FS_Singleton DEF OneGuard
  <2> QED BY <2>1, <2>2
<1> QED BY <1>1, Inductive, PTL

----------------------------------------------------------------------------
(* The queue is a serial executor: an event runs when the guard has left    *)
(* the frame that is to start it.                                           *)

NoRun(s) == NoneOf(s, {Run})

LEMMA RunningNow == Running <=> events # <<>> /\ NoRun(todo)
  BY DEF Running, NoRun, NoneOf

LEMMA RunningNext == Running' <=> events' # <<>> /\ NoRun(todo')
  BY DEF Running, NoRun, NoneOf

\* Without the guard there is no frame that is to start an event.
LEMMA UnheldNoRun == ASSUME NEW s, NoneOf(s, GuardFrame) PROVE NoRun(s)
<1>1. Run \in GuardFrame
  BY MakeFrame DEF GuardFrame, HoldingFrame, Run
<1> QED BY <1>1 DEF NoRun, NoneOf

LEMMA NoRunFrames ==
  /\ NoRun(<<>>) /\ NoRun(<<Release>>)
  /\ \A fr \in Frame : fr.f # "run" => NoRun(<<fr>>)
  /\ \A s \in Seq(Frame), t \in Seq(Frame) : NoRun(s \o t) <=> NoRun(s) /\ NoRun(t)
<1>1. Release # Run
  BY DEF Release, Run
<1>2. \A fr \in Frame : fr.f # "run" => fr # Run
  BY DEF Run
<1>3. NoRun(<<>>) /\ \A fr : NoRun(<<fr>>) <=> fr # Run
  BY EmptyMarks, SingleMarks DEF NoRun
<1> QED BY <1>1, <1>2, <1>3, ConcatMarks DEF NoRun

\* Nothing of the queue changes.
LEMMA QueueRests ==
  ASSUME events' = events, NoRun(todo') <=> NoRun(todo)
  PROVE  [Serial!Next]_(Serial!view)
  BY RunningNow, RunningNext DEF Serial!view

\* The frame on top, which starts no event, is replaced by frames that start none.
LEMMA QueueRestsThen ==
  ASSUME ClientInv, todo # <<>>, Head(todo).f # "run", events' = events,
         NEW fs \in Seq(Frame), NoRun(fs), Then(fs)
  PROVE  [Serial!Next]_(Serial!view)
<1>1. Head(todo) # Run
  BY DEF Run
<1>2. todo \in Seq(Frame) /\ Tail(todo) \in Seq(Frame)
  BY TopFrame DEF ClientInv, TypeOK
<1>3. NoRun(todo) <=> NoRun(Tail(todo))
  BY <1>1, <1>2, FirstMark DEF NoRun
<1> QED BY <1>2, <1>3, NoRunFrames, QueueRests DEF Then

\* A handler leaves frames that start no event.
LEMMA QueueRestsReady ==
  ASSUME NEW h, Ready(h), events' = events, NoRun(todo')
  PROVE  [Serial!Next]_(Serial!view)
<1>1. NoRun(todo)
  BY NoRunFrames DEF Ready
<1> QED BY <1>1, QueueRests

LEMMA EventBegins ==
  ASSUME ClientInv, NEW e, RunNow(e), events' = events,
         NEW fs \in Seq(Frame), NoRun(fs), Then(fs)
  PROVE  [Serial!Next]_(Serial!view)
<1>1. todo # <<>> /\ Head(todo).f = "run" /\ Head(todo).f \in HoldingFrame /\ events # <<>>
  BY RunEvent
<1>2. Head(todo) \in Frame /\ Tail(todo) \in Seq(Frame) /\ Unheld(Tail(todo), ioq, op)
  BY <1>1, TopFrame
<1>3. Head(todo) = Run
  BY <1>1, <1>2 DEF Frame, Run
<1>4. todo \in Seq(Frame)
  BY DEF ClientInv, TypeOK
<1>5. ~NoRun(todo)
  BY <1>1, <1>3, <1>4, FirstMark DEF NoRun
<1>6. NoRun(todo')
  BY <1>2, UnheldNoRun, NoRunFrames DEF Then, Unheld
<1>7. Serial!Begin
  BY <1>1, <1>5, <1>6, RunningNow, RunningNext DEF Serial!Begin
<1> QED BY <1>7 DEF Serial!Next

LEMMA Submits ==
  ASSUME ClientInv, NEW ev \in Event, events' = Append(events, ev), Running' = Running
  PROVE  [Serial!Next]_(Serial!view)
<1>1. events \in Seq(Event)
  BY DEF ClientInv, TypeOK
<1>2. Len(events') = Len(events) + 1 /\ events'[Len(events) + 1] = ev /\ DOMAIN events' = 1..Len(events')
  BY <1>1, AppendProperties, LenProperties
<1>3. Len(events) + 1 \in DOMAIN events'
  BY <1>1, <1>2, LenProperties
<1>4. Serial!Submit
  BY <1>2, <1>3 DEF Serial!Submit
<1> QED BY <1>4 DEF Serial!Next

\* push_event, before the frames fs.
LEMMA EventPushed ==
  ASSUME ClientInv, NEW ev \in Event, NEW fs \in Seq(Frame), NoRun(fs) <=> NoRun(todo), Push(ev, fs)
  PROVE  [Serial!Next]_(Serial!view)
<1>1. events' = Append(events, ev) /\ events' # <<>>
  BY AppendProperties DEF Push, ClientInv, TypeOK
<1>2. Running' = Running
  <2>1. CASE events = <<>>
    <3>1. todo' = <<Run>> \o fs
      BY <2>1 DEF Push
    <3>2. <<Run>> \in Seq(Frame) /\ ~NoRun(<<Run>>)
      BY MakeFrame, SingleMarks DEF Run, NoRun
    <3>3. ~NoRun(todo')
      BY <3>1, <3>2, NoRunFrames
    <3>4. (Running' <=> FALSE) /\ (Running <=> FALSE)
      BY <2>1, <3>3, RunningNow, RunningNext
    <3> QED BY <3>4 DEF Running
  <2>2. CASE events # <<>>
    <3>1. todo' = fs
      BY <2>2, NoFrame DEF Push
    <3>2. Running' <=> Running
      BY <1>1, <2>2, <3>1, RunningNow, RunningNext
    <3> QED BY <3>2 DEF Running
  <2> QED BY <2>1, <2>2
<1> QED BY <1>1, <1>2, Submits

\* _do_disconnect, in place or queued.
LEMMA DisconnectInPlaceRests ==
  ASSUME ClientInv, NEW by \in Caller \cup {"none"}, NEW otherwise \in Seq(Frame), NEW fs \in Seq(Frame),
         NoRun(otherwise), NoRun(fs), DisconnectInPlace(by, otherwise, fs)
  PROVE  \E gs \in Seq(Frame) : NoRun(gs) /\ Then(gs)
<1> DEFINE fr == Disconnecting(by)
<1>1. fr \in Frame /\ fr.f # "run"
  BY MakeFrame DEF Disconnecting, ClientInv, TypeOK
<1>2. Then(<<fr>> \o fs) \/ Then(otherwise \o fs)
  BY DEF DisconnectInPlace
<1> HIDE DEF fr
<1>3. <<fr>> \in Seq(Frame) /\ <<fr>> \o fs \in Seq(Frame) /\ otherwise \o fs \in Seq(Frame)
  BY <1>1, ConcatProperties
<1>4. NoRun(<<fr>> \o fs) /\ NoRun(otherwise \o fs)
  BY <1>1, <1>3, NoRunFrames
<1> QED BY <1>2, <1>3, <1>4

LEMMA DisconnectQueuedPushes ==
  ASSUME ClientInv, NEW fs \in Seq(Frame), NoRun(fs) <=> NoRun(todo), DisconnectQueued(fs)
  PROVE  [Serial!Next]_(Serial!view)
<1> DEFINE ev == [e |-> "disconnect", old |-> st]
<1>1. ev \in Event
  BY MakeEvent DEF ClientInv, TypeOK
<1>2. Push(ev, fs) \/ (events' = events /\ todo' = fs)
  BY DEF DisconnectQueued
<1> HIDE DEF ev
<1>3. CASE Push(ev, fs)
  BY <1>1, <1>3, EventPushed
<1>4. CASE events' = events /\ todo' = fs
  BY <1>4, QueueRests
<1> QED BY <1>2, <1>3, <1>4

\* The actions, one by one.
LEMMA HandlePushSerial == ASSUME ClientInv, HandlePush PROVE [Serial!Next]_(Serial!view)
<1>1. ioq # <<>> /\ Head(ioq).h = "push" /\ todo = <<>> /\ Push(Head(ioq).ev, <<>>)
  BY DEF HandlePush, Ready
<1>2. Head(ioq).ev \in Event
  BY <1>1, FirstHandler, HandlerKinds
<1> QED BY <1>1, <1>2, NoFrame, EventPushed

LEMMA NextEventSerial == ASSUME ClientInv, NextEvent PROVE [Serial!Next]_(Serial!view)
<1>1. /\ todo # <<>> /\ Head(todo).f = "release" /\ Head(todo).f \in HoldingFrame /\ events' = Tail(events)
      /\ Then(IF Len(events) > 1 THEN <<Run>> ELSE <<>>)
  BY DEF NextEvent, Top, HoldingFrame
<1>2. events # <<>> /\ Head(todo) # Run /\ Unheld(Tail(todo), ioq, op) /\ Tail(todo) \in Seq(Frame)
  BY <1>1, TopFrame DEF Run
<1>3. todo \in Seq(Frame) /\ events \in Seq(Event)
  BY DEF ClientInv, TypeOK
<1>4. NoRun(todo)
  <2>1. NoRun(Tail(todo))
    BY <1>2, UnheldNoRun DEF Unheld
  <2> QED BY <1>1, <1>2, <1>3, <2>1, FirstMark DEF NoRun
<1>5. Running
  BY <1>2, <1>4, RunningNow
<1>6. Running' = FALSE
  <2>1. CASE Len(events) > 1
    <3>1. todo' = <<Run>> \o Tail(todo)
      BY <1>1, <2>1 DEF Then
    <3>2. <<Run>> \in Seq(Frame) /\ ~NoRun(<<Run>>)
      BY MakeFrame, SingleMarks DEF Run, NoRun
    <3>3. ~NoRun(todo')
      BY <1>2, <3>1, <3>2, NoRunFrames
    <3> QED BY <3>3, RunningNext DEF Running
  <2>2. CASE ~(Len(events) > 1)
    <3>1. Tail(events) = <<>>
      <4>1. Tail(events) \in Seq(Event) /\ Len(Tail(events)) = Len(events) - 1
        BY <1>2, <1>3, HeadTailProperties
      <4>2. Len(events) \in Nat \ {0} /\ (Tail(events) # <<>> => Len(Tail(events)) \in Nat \ {0}) /\ Len(<<>>) = 0
        BY <1>2, <1>3, <4>1, EmptySeq
      <4> QED BY <2>2, <4>1, <4>2
    <3> QED BY <1>1, <3>1, RunningNext DEF Running
  <2> QED BY <2>1, <2>2
<1> QED BY <1>1, <1>5, <1>6 DEF Serial!Next, Serial!Finish

LEMMA RunSerial ==
  ASSUME ClientInv, RunConnect \/ RunReconnect \/ RunSend \/ RunStop \/ RunDisconnect
  PROVE  [Serial!Next]_(Serial!view)
<1>1. PICK e : RunNow(e) /\ e \in {"connect", "reconnect", "send", "stop", "disconnect"} /\ events' = events
  BY DEF RunConnect, RunReconnect, RunSend, RunStop, RunDisconnect
<1>2. \E fs \in Seq(Frame) : NoRun(fs) /\ Then(fs)
  <2>1. CASE RunConnect
    <3>1. \/ Then(<<>>)
          \/ Then(StartReturns(Head(events).by, "already_started") \o <<Release>>)
      BY <2>1 DEF RunConnect, StartConnect
    <3>2. Head(events).by \in Caller
      BY <2>1, RunEvent, EventKinds DEF RunConnect
    <3>3. /\ StartReturns(Head(events).by, "already_started") \o <<Release>> \in Seq(Frame)
          /\ NoRun(StartReturns(Head(events).by, "already_started") \o <<Release>>)
      BY <3>2, StartReturnsFrames, ReleaseFrames, UnheldNoRun, NoRunFrames, ConcatProperties
    <3> QED BY <3>1, <3>3, NoFrame, NoRunFrames
  <2>2. CASE RunReconnect \/ RunSend
    <3>1. Then(<<>>) \/ Then(<<Release>>)
      BY <2>2 DEF RunReconnect, RunSend, StartConnect
    <3> QED BY <3>1, NoFrame, ReleaseFrames, NoRunFrames
  <2>3. CASE RunStop
    <3> DEFINE fr == [f |-> "stopReturns", by |-> Head(events).by]
    <3>1. DisconnectInPlace(Head(events).by, <<fr>>, <<>>)
      BY <2>3 DEF RunStop
    <3>2. Head(events).by \in Caller
      BY <2>3, RunEvent, EventKinds DEF RunStop
    <3>3. fr \in Frame /\ fr.f # "run"
      BY <3>2, MakeFrame
    <3> HIDE DEF fr
    <3>4. <<fr>> \in Seq(Frame) /\ NoRun(<<fr>>)
      BY <3>3, NoRunFrames
    <3> QED BY <3>1, <3>2, <3>4, NoFrame, NoRunFrames, DisconnectInPlaceRests
  <2>4. CASE RunDisconnect
    <3> DEFINE fr == [f |-> "disconnect", old |-> Head(events).old, by |-> "none"]
    <3>1. Then(<<fr>>)
      BY <2>4 DEF RunDisconnect
    <3>2. fr \in Frame /\ fr.f # "run"
      BY <2>4, RunEvent, EventKinds, MakeFrame DEF RunDisconnect
    <3> HIDE DEF fr
    <3>3. <<fr>> \in Seq(Frame) /\ NoRun(<<fr>>)
      BY <3>2, NoRunFrames
    <3> QED BY <3>1, <3>3
  <2> QED BY <2>1, <2>2, <2>3, <2>4
<1> QED BY <1>1, <1>2, EventBegins

LEMMA DisconnectSerial ==
  ASSUME ClientInv, Disconnect \/ HandleDisconnect PROVE [Serial!Next]_(Serial!view)
<1> DEFINE by == Head(todo).by
           d  == [f |-> "disconnected", by |-> by]
           r  == [f |-> "stopReturns", by |-> by]
<1>1. /\ todo # <<>> /\ Head(todo).f \in {"disconnect", "disconnected"} /\ Head(todo).f # "run"
      /\ events' = events
  BY DEF Disconnect, HandleDisconnect, Top
<1>2. by \in Caller \cup {"none"}
  BY <1>1, TopFrame, FrameKinds
<1>3. Then(<<>>) \/ Then(<<d>>) \/ Then(<<Release>>) \/ (by # "none" /\ Then(<<r>>))
  BY DEF Disconnect, HandleDisconnect
<1>4. /\ d \in Frame /\ d.f # "run"
      /\ by # "none" => r \in Frame /\ r.f # "run"
  BY <1>2, MakeFrame
<1> HIDE DEF by, d, r
<1>5. /\ <<d>> \in Seq(Frame) /\ NoRun(<<d>>)
      /\ by # "none" => <<r>> \in Seq(Frame) /\ NoRun(<<r>>)
  BY <1>4, NoRunFrames
<1>6. \E fs \in Seq(Frame) : NoRun(fs) /\ Then(fs)
  BY <1>3, <1>5, NoFrame, ReleaseFrames, NoRunFrames
<1> QED BY <1>1, <1>6, QueueRestsThen

LEMMA FrameSerial ==
  ASSUME ClientInv, DoneConnect \/ AfterConnect \/ SetStartPromise \/ SetStopPromise
  PROVE  [Serial!Next]_(Serial!view)
<1>1. todo # <<>> /\ Head(todo).f # "run" /\ events' = events
  BY DEF DoneConnect, AfterConnect, SetStartPromise, SetStopPromise, Top
<1>2. \E fs \in Seq(Frame) : NoRun(fs) /\ Then(fs)
  <2>1. CASE DoneConnect
    <3>1. PICK ec : /\ ec \in Failure \cup {"ok"}
                    /\ Then(<<[f |-> "notifyConnect", ec |-> ec], [f |-> "afterConnect", ec |-> ec]>>)
      <4>1. todo # <<>> /\ Head(todo).f = "done"
        BY <2>1 DEF DoneConnect, Top
      <4>2. Head(todo).ec \in Failure \cup {"ok"}
        BY <4>1, TopFrame, FrameKinds
      <4> QED BY <2>1, <4>2 DEF DoneConnect, Failure
    <3> DEFINE n == [f |-> "notifyConnect", ec |-> ec]
               a == [f |-> "afterConnect", ec |-> ec]
    <3>2. n \in Frame /\ a \in Frame /\ n # Run /\ a # Run
      BY <3>1, MakeFrame DEF Run
    <3> HIDE DEF n, a
    <3>3. <<n, a>> \in Seq(Frame) /\ NoRun(<<n, a>>)
      BY <3>2 DEF NoRun, NoneOf
    <3>4. Then(<<n, a>>)
      BY <3>1 DEF n, a
    <3> QED BY <3>3, <3>4
  <2>2. CASE AfterConnect
    <3>1. TypeOK
      BY DEF ClientInv
    <3>2. /\ ChainReturns("ok") \in Seq(Frame) /\ NoRun(ChainReturns("ok"))
          /\ ChainReturns("failed") \in Seq(Frame) /\ NoRun(ChainReturns("failed"))
          /\ <<Release>> \in Seq(Frame) /\ NoRun(<<Release>>)
      BY <3>1, ChainReturnsFrames, ReleaseFrames, UnheldNoRun, NoRunFrames
    <3>3. \/ Then(ChainReturns("ok") \o <<Release>>)
          \/ DisconnectInPlace("none", <<Release>>, ChainReturns("failed"))
      BY <2>2 DEF AfterConnect
    <3>4. CASE Then(ChainReturns("ok") \o <<Release>>)
      <4>1. /\ ChainReturns("ok") \o <<Release>> \in Seq(Frame)
            /\ NoRun(ChainReturns("ok") \o <<Release>>)
        BY <3>2, NoRunFrames, ConcatProperties
      <4> QED BY <3>4, <4>1
    <3>5. CASE DisconnectInPlace("none", <<Release>>, ChainReturns("failed"))
      BY <3>2, <3>5, DisconnectInPlaceRests
    <3> QED BY <3>3, <3>4, <3>5
  <2>3. CASE SetStartPromise \/ SetStopPromise
    <3>1. Then(<<>>) \/ Then(<<Release>>)
      BY <2>3 DEF SetStartPromise, SetStopPromise
    <3> QED BY <3>1, NoFrame, ReleaseFrames, NoRunFrames
  <2> QED BY <2>1, <2>2, <2>3
<1> QED BY <1>1, <1>2, QueueRestsThen

LEMMA DialSerial ==
  ASSUME ClientInv, HandleResolved \/ HandleConnected \/ HandleUpgraded \/ HandleClosed
  PROVE  [Serial!Next]_(Serial!view)
<1>1. PICK h : Ready(h) /\ h \in {"resolved", "connected", "upgraded", "closed"} /\ events' = events
  BY DEF HandleResolved, HandleConnected, HandleUpgraded, HandleClosed
<1>2. \/ todo' = todo \/ todo' = <<>>
      \/ \E ec : todo' = <<[f |-> "done", ec |-> ec]>>
      \/ \E by : todo' = <<[f |-> "disconnected", by |-> by]>>
  BY DEF HandleResolved, HandleConnected, HandleUpgraded, HandleClosed, PostConnect, PostUpgrade, Done
<1>3. NoRun(todo')
  <2>1. todo = <<>>
    BY <1>1 DEF Ready
  <2>2. /\ \A ec : [f |-> "done", ec |-> ec] # Run
        /\ \A by : [f |-> "disconnected", by |-> by] # Run
    BY DEF Run
  <2>3. \A x : x # Run => NoRun(<<x>>)
    BY SingleMarks DEF NoRun
  <2> QED BY <1>2, <2>1, <2>2, <2>3, NoRunFrames
<1> QED BY <1>1, <1>3, QueueRestsReady

LEMMA HandleReconnectTimerSerial ==
  ASSUME ClientInv, HandleReconnectTimer PROVE [Serial!Next]_(Serial!view)
<1> DEFINE ev == [e |-> "reconnect", id |-> Head(ioq).id]
<1>1. ioq # <<>> /\ Head(ioq).h = "rtimer" /\ todo = <<>>
  BY DEF HandleReconnectTimer, Ready
<1>2. ev \in Event
  BY <1>1, FirstHandler, HandlerKinds, MakeEvent
<1>3. UNCHANGED <<events, todo>> \/ Push(ev, <<>>)
  BY DEF HandleReconnectTimer
<1> HIDE DEF ev
<1>4. CASE Push(ev, <<>>)
  BY <1>1, <1>2, <1>4, NoFrame, EventPushed
<1>5. CASE UNCHANGED <<events, todo>>
  BY <1>5, QueueRests
<1> QED BY <1>3, <1>4, <1>5

LEMMA SendSerial ==
  ASSUME ClientInv, HandleWritten \/ HandleControl \/ HandleRead PROVE [Serial!Next]_(Serial!view)
<1> DEFINE fs == <<[f |-> "recv"], [f |-> "postRecv"]>>
<1>1. PICK h : Ready(h) /\ h \in {"written", "control", "read"}
  BY DEF HandleWritten, HandleControl, HandleRead
<1>2. todo = <<>>
  BY <1>1 DEF Ready
<1>3. NoRun(fs)
  BY ReceivingFrames, UnheldNoRun
<1> HIDE DEF fs
<1>4. \/ DisconnectQueued(<<Release>>)
      \/ DisconnectQueued(<<>>)
      \/ events' = events /\ (todo' = <<Release>> \/ todo' = fs \/ todo' = todo)
  BY DEF HandleWritten, HandleControl, HandleRead, fs
<1>5. CASE DisconnectQueued(<<Release>>)
  BY <1>2, <1>5, NoRunFrames, ReleaseFrames, DisconnectQueuedPushes
<1>6. CASE DisconnectQueued(<<>>)
  BY <1>2, <1>6, NoFrame, DisconnectQueuedPushes
<1>7. CASE events' = events /\ (todo' = <<Release>> \/ todo' = fs \/ todo' = todo)
  BY <1>1, <1>2, <1>3, <1>7, NoRunFrames, QueueRestsReady
<1> QED BY <1>4, <1>5, <1>6, <1>7

LEMMA RecvSerial ==
  ASSUME ClientInv, Recv \/ StartInCallback \/ PostRecv PROVE [Serial!Next]_(Serial!view)
<1> DEFINE s == [e |-> "stop", by |-> "io"]
           c == [e |-> "connect", by |-> "io", to |-> starts']
<1>1. todo # <<>> /\ Head(todo).f # "run"
  BY DEF Recv, StartInCallback, PostRecv, Top
<1>2. /\ todo \in Seq(Frame) /\ Tail(todo) \in Seq(Frame)
      /\ NoRun(Tail(todo)) <=> NoRun(todo)
  <2>1. todo \in Seq(Frame) /\ Head(todo) # Run
    BY <1>1 DEF ClientInv, TypeOK, Run
  <2> QED BY <1>1, <2>1, FirstMark DEF NoRun
<1>3. s \in Event
  BY MakeEvent DEF Caller
<1>4. ASSUME StartInCallback PROVE c \in Event
  <2>1. starts' \in 1..MaxStarts
    BY <1>4, ClientAssumption DEF StartInCallback, ClientInv, TypeOK
  <2> QED BY <2>1, MakeEvent DEF Caller
<1>5. \/ Push(s, Tail(todo))
      \/ StartInCallback /\ Push(c, todo)
      \/ DisconnectQueued(Tail(todo))
      \/ Then(<<>>) /\ events' = events
  BY DEF Recv, StartInCallback, PostRecv
<1> HIDE DEF s, c
<1>6. CASE Push(s, Tail(todo))
  BY <1>2, <1>3, <1>6, EventPushed
<1>7. CASE StartInCallback /\ Push(c, todo)
  BY <1>2, <1>4, <1>7, EventPushed
<1>8. CASE DisconnectQueued(Tail(todo))
  BY <1>2, <1>8, DisconnectQueuedPushes
<1>9. CASE Then(<<>>) /\ events' = events
  BY <1>1, <1>9, NoFrame, NoRunFrames, QueueRestsThen
<1> QED BY <1>5, <1>6, <1>7, <1>8, <1>9

LEMMA NotifyConnectSerial == ASSUME ClientInv, NotifyConnect PROVE [Serial!Next]_(Serial!view)
<1> DEFINE ev == [e |-> "send"]
<1>1. todo # <<>> /\ Head(todo).f = "notifyConnect" /\ Then(<<>>)
  BY DEF NotifyConnect, Top
<1>2. events' = events \/ events' = Append(events, ev)
  BY DEF NotifyConnect
<1>3. ev \in Event
  BY MakeEvent
<1> HIDE DEF ev
<1>4. CASE events' = events
  BY <1>1, <1>4, NoFrame, NoRunFrames, QueueRestsThen
<1>5. CASE events' = Append(events, ev)
  <2>1. todo \in Seq(Frame) /\ events \in Seq(Event) /\ Followed(todo)
    BY DEF ClientInv, TypeOK
  <2>2. Head(todo) # Run /\ Tail(todo) \in Seq(Frame) /\ Guarded(events, Tail(todo), ioq, op)
    BY <1>1, TopFrame DEF Run, HoldingFrame
  <2>3. Tail(todo) # <<>> /\ Head(Tail(todo)).f = "afterConnect"
    BY <1>1, <2>1, FollowedTail
  <2>4. ~NoneOf(Tail(todo), GuardFrame)
    BY <2>2, <2>3, FirstMark DEF GuardFrame, HoldingFrame
  <2>5. events # <<>>
    BY <2>2, <2>4 DEF Guarded, Unheld
  <2>6. events' # <<>>
    BY <1>3, <1>5, <2>1, AppendProperties
  <2>7. todo' = Tail(todo)
    BY <1>1, <2>2, NoFrame DEF Then
  <2>8. NoRun(todo) <=> NoRun(todo')
    BY <1>1, <2>1, <2>2, <2>7, FirstMark DEF NoRun
  <2>9. Running' = Running
    <3>1. Running' <=> Running
      BY <2>5, <2>6, <2>8, RunningNow, RunningNext
    <3> QED BY <3>1 DEF Running
  <2> QED BY <1>3, <1>5, <2>9, Submits
<1> QED BY <1>2, <1>4, <1>5

LEMMA OthersSerial ==
  ASSUME ClientInv,
         \/ HandleDisconnectTimer \/ HandleConnectTimer \/ GameThread \/ Calls \/ Clock \/ Network
         \/ UNCHANGED vars
  PROVE  [Serial!Next]_(Serial!view)
<1>1. UNCHANGED <<events, todo>>
  BY DEF HandleDisconnectTimer, HandleConnectTimer, GameThread, StartReturned, StopPool, StopReturned,
         Calls, Start, Stop, io, Clock, ConnectTimerExpires, ReconnectDelayExpires, DisconnectTick,
         Network, NetResolve, NetConnect, NetUpgrade, NetWrite, NetRead, NetClose, NetCloseFrame, quiet, vars
<1> QED BY <1>1, QueueRests

LEMMA SerialStep == ASSUME ClientInv, [Next]_vars PROVE [Serial!Next]_(Serial!view)
<1>1. CASE IoInternal \/ Disconnect
  BY <1>1, HandlePushSerial, NextEventSerial, RunSerial, DisconnectSerial, FrameSerial, DialSerial,
     HandleReconnectTimerSerial, SendSerial, RecvSerial, OthersSerial DEF IoInternal
<1>2. CASE IoCallback
  BY <1>2, NotifyConnectSerial, RecvSerial DEF IoCallback
<1>3. CASE GameThread \/ Calls \/ Clock \/ Network \/ UNCHANGED vars
  BY <1>3, OthersSerial
<1> QED BY <1>1, <1>2, <1>3 DEF Next, IoThread

\* event_queue_cp.hpp, against SerialExecutor: the events run one at a time, in
\* the order they were pushed, and none begins before the guard of the one
\* before it is destroyed.
THEOREM QueueRunsSerially == Spec => QueueIsSerial
<1>1. Init => Serial!Init
  BY DEF Init, Serial!Init, Running
<1>2. ClientInv /\ [Next]_vars => [Serial!Next]_(Serial!view)
  BY SerialStep
<1> QED BY <1>1, <1>2, Inductive, PTL DEF Spec, QueueIsSerial, Serial!Spec
=============================================================================
