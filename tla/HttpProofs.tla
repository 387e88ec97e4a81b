----------------------------- MODULE HttpProofs -----------------------------
(***************************************************************************)
(* Proofs about SendAsync and its listeners, on top of what ClientSafety   *)
(* shows of the client that all its calls share.                           *)
(*                                                                         *)
(* Every step of HttpNatives is a step of the client (HttpIsClient), so the *)
(* invariants of ClientProofs and ClientSafety hold here as they are.  What *)
(* is added to them:                                                       *)
(*                                                                         *)
(*   BoundInv    the listeners are those of the last call                  *)
(*   WireInv     of which request something is read                        *)
(*   AskedInv    the game thread never stops this client, nothing reconnects *)
(*   AnswerInv   the answer a start waits for is in one place              *)
(*   CallInv     after the answer to the last call nothing connects        *)
(*   SendingInv  the request of the call that waits is not freed           *)
(***************************************************************************)
EXTENDS HttpNatives, ClientSafety, HttpMessage

LEMMA HttpIsClient == HttpSpec => Spec
<1>1. HttpInit => Init
  BY DEF HttpInit
<1>2. [HttpNext]_hvars => [Next]_vars
  BY DEF HttpNext, hvars, Native, CreateRequest, CloseRequest, Send, SendAsyncSecure,
         SendAsync, SendAsyncReturns, SendAsyncInCallback, OnConnect, OnRecv, OnDisconnect, Client,
         Next, IoThread, IoCallback, GameThread, Calls
<1> QED BY <1>1, <1>2, PTL DEF HttpSpec, Spec

----------------------------------------------------------------------------
(* Types, and what a call of SendAsync leaves behind.                      *)

\* The listeners are those of the last call, and every call had a request.
BoundInv ==
    /\ bound = [l \in Listener |-> starts]
    /\ \A n \in 1..starts : raw[n] \in Request
    /\ starts = 0 => pool = "down"

\* What the client does on its own concerns neither the game thread nor the calls.
LEMMA ClientCaller ==
  /\ Client => UNCHANGED <<pool, game, starts, live, bonds>>
  /\ OnDisconnect => UNCHANGED <<pool, game, starts, live, sending, bound, raw, wire, overlap, nested>>
<1>1. IoInternal => UNCHANGED caller
  BY DEF IoInternal, caller, HandlePush, NextEvent, RunConnect, RunReconnect, RunSend, RunStop, RunDisconnect,
         HandleResolved, HandleConnected, HandleUpgraded, DoneConnect, AfterConnect, SetStartPromise, SetStopPromise,
         HandleClosed, HandleDisconnect, HandleDisconnectTimer, HandleConnectTimer,
         HandleReconnectTimer, HandleWritten, HandleControl, HandleRead, PostRecv
<1>2. Clock \/ Network => UNCHANGED caller
  BY DEF Clock, Network, ConnectTimerExpires, ReconnectDelayExpires, DisconnectTick, quiet, caller,
         NetResolve, NetConnect, NetUpgrade, NetWrite, NetRead, NetClose, NetCloseFrame
<1>3. OnDisconnect => UNCHANGED <<pool, game, starts, live, sending, bound, raw, wire, overlap, nested>>
  BY DEF OnDisconnect, Disconnect, caller
<1> QED BY <1>1, <1>2, <1>3 DEF Client, caller

\* A new call takes the next number.
LEMMA NewCall ==
  ASSUME TypeOK, Start \/ StartInCallback
  PROVE  starts' = starts + 1 /\ starts' \in Call /\ pool' = "up"
  BY ClientAssumption DEF TypeOK, Start, StartInCallback, Call

LEMMA HttpTypeKept == ASSUME HttpTypeOK, TypeOK', [HttpNext]_hvars PROVE HttpTypeOK'
<1>1. ASSUME CreateRequest \/ CloseRequest \/ Send \/ SendAsyncSecure PROVE HttpTypeOK'
  BY <1>1 DEF CreateRequest, CloseRequest, Send, SendAsyncSecure, Native, bonds, HttpTypeOK
<1>2. ASSUME SendAsync \/ SendAsyncInCallback PROVE HttpTypeOK'
  <2>1. starts' \in Call
    BY <1>2, NewCall DEF HttpTypeOK, SendAsync, SendAsyncInCallback
  <2>2. PICK r \in Request :
          /\ Bind(r)
          /\ sending' \in {r, sending}
          /\ live' \in {live, live \ {r}}
          /\ overlap' \in {overlap, overlap \cup {starts'}}
          /\ nested' \in {nested, nested \cup {starts'}}
          /\ UNCHANGED <<wire, outcome>>
    BY <1>2 DEF SendAsync, SendAsyncInCallback, HttpTypeOK
  <2>3. bound' \in [Listener -> {0} \cup Call] /\ raw' \in [Call -> Request \cup {NoRequest}]
    BY <2>1, <2>2 DEF Bind, HttpTypeOK
  <2> QED BY <2>1, <2>2, <2>3 DEF HttpTypeOK
<1>3. ASSUME SendAsyncReturns PROVE HttpTypeOK'
  BY <1>3 DEF SendAsyncReturns, HttpTypeOK
<1>4. ASSUME OnConnect \/ OnRecv \/ OnDisconnect PROVE HttpTypeOK'
  <2>1. UNCHANGED <<live, sending, bound, raw, overlap, nested>>
    BY <1>4 DEF OnConnect, OnRecv, OnDisconnect
  <2>2. \A l \in Listener : bound[l] \in {0} \cup Call
    BY DEF HttpTypeOK
  <2>3. wire' \in {wire, bound.connect}
    BY <1>4 DEF OnConnect, OnRecv, OnDisconnect
  <2>4. outcome' = outcome \/ Heard(bound.connect, "failed") \/ Heard(bound.recv, "answered")
            \/ Heard(bound.disconnect, "ended")
    BY <1>4 DEF OnConnect, OnRecv, OnDisconnect
  <2>5. ASSUME NEW n, NEW what \in {"failed", "answered", "ended"}, Heard(n, what)
        PROVE  outcome' \in [Call -> SUBSET {"failed", "answered", "ended"}]
    BY <2>5 DEF Heard, HttpTypeOK
  <2>7. outcome' \in [Call -> SUBSET {"failed", "answered", "ended"}]
    BY <2>4, <2>5 DEF HttpTypeOK
  <2>6. wire' \in {0} \cup Call
    BY <2>2, <2>3 DEF HttpTypeOK, Listener
  <2> QED BY <2>1, <2>6, <2>7 DEF HttpTypeOK
<1>5. ASSUME Client \/ UNCHANGED hvars PROVE HttpTypeOK'
  BY <1>5, ClientCaller DEF hvars, bonds, HttpTypeOK
<1> QED BY <1>1, <1>2, <1>3, <1>4, <1>5 DEF HttpNext

\* The requests, the listeners and the history of the calls keep their types.
THEOREM HttpTypeSafe == HttpSpec => []HttpTypeOK
<1>1. HttpInit /\ TypeOK => HttpTypeOK
  BY HttpAssumption DEF HttpInit, HttpTypeOK
<1>2. HttpTypeOK /\ TypeOK' /\ [HttpNext]_hvars => HttpTypeOK'
  BY HttpTypeKept
<1> QED BY <1>1, <1>2, HttpIsClient, ClientTypeSafe, PTL DEF HttpSpec

----------------------------------------------------------------------------
(* The listeners are those of the last call.                               *)

LEMMA BoundKept == ASSUME HttpTypeOK, BoundInv, [HttpNext]_hvars PROVE BoundInv'
<1>1. ASSUME SendAsync \/ SendAsyncInCallback PROVE BoundInv'
  <2>1. starts' = starts + 1 /\ starts' \in Call /\ pool' = "up" /\ starts \in Nat
    BY <1>1, NewCall, ClientAssumption DEF SendAsync, SendAsyncInCallback, HttpTypeOK, TypeOK
  <2>2. PICK r \in Request : Bind(r)
    BY <1>1 DEF SendAsync, SendAsyncInCallback, HttpTypeOK
  <2>3. \A n \in 1..starts' : raw'[n] \in Request
    BY <2>1, <2>2 DEF BoundInv, Bind, HttpTypeOK, Call, TypeOK
  <2> QED BY <2>1, <2>2, <2>3 DEF BoundInv, Bind
<1>2. ASSUME ~SendAsync, ~SendAsyncInCallback PROVE BoundInv'
  <2>1. UNCHANGED <<bound, raw, pool, starts>>
    BY <1>2, ClientCaller DEF HttpNext, hvars, vars, caller, bonds, CreateRequest, CloseRequest,
       Send, SendAsyncSecure, Native, SendAsyncReturns, StartReturned, OnConnect, OnRecv, NotifyConnect, Recv
  <2> QED BY <2>1 DEF BoundInv
<1> QED BY <1>1, <1>2

LEMMA SendAsyncInductive == HttpSpec => [](HttpTypeOK /\ BoundInv)
<1>1. HttpInit => BoundInv
  BY DEF HttpInit, Init, BoundInv
<1>2. HttpTypeOK /\ BoundInv /\ [HttpNext]_hvars => BoundInv'
  BY BoundKept
<1> QED BY <1>1, <1>2, HttpTypeSafe, PTL DEF HttpSpec

\* A listener that runs was bound by a call that had a request.
LEMMA ListenerBound ==
  ASSUME HttpTypeOK, BoundInv, PoolInv, todo # <<>>
  PROVE  pool # "down" /\ starts \in 1..MaxStarts /\ bound.connect = starts /\ bound.recv = starts /\ raw[starts] \in Request
<1>1. pool # "down" /\ starts # 0
  BY DEF PoolInv, NoWork, BoundInv, HttpTypeOK, TypeOK
<1> QED BY <1>1, ClientAssumption DEF BoundInv, Listener, HttpTypeOK, TypeOK

----------------------------------------------------------------------------
(* Whose answer it is.                                                     *)

\* Of the connection in use something is read, or will be.  As long as the last
\* call found the client at rest its request is what went out on it.
ReadingFrame == {fr \in Frame : fr.f \in {"recv", "postRecv"}}
Reading == ~NoneOf(todo, ReadingFrame) \/ ~NoneOf(ioq, ReadHandler) \/ op.read # 0
WireInv ==
    starts \notin overlap /\ (Reading \/ (st = "started" /\ NoneOf(todo, Announcement))) => wire = starts

\* A step that finds the connect notification on top of the stack makes it.
LEMMA Announces ==
  ASSUME [HttpNext]_hvars, Top("notifyConnect") PROVE OnConnect \/ UNCHANGED todo
<1>1. ~IoInternal
  BY DEF Top, IoInternal, HandlePush, NextEvent, RunConnect, RunReconnect, RunSend, RunStop, RunDisconnect, RunNow,
         HandleResolved, HandleConnected, HandleUpgraded, DoneConnect, AfterConnect, SetStartPromise, SetStopPromise,
         HandleClosed, HandleDisconnect, HandleDisconnectTimer, HandleConnectTimer,
         HandleReconnectTimer, HandleWritten, HandleControl, HandleRead, PostRecv, Ready
<1>2. Clock \/ Network => UNCHANGED todo
  BY DEF Clock, Network, ConnectTimerExpires, ReconnectDelayExpires, DisconnectTick, quiet, io,
         NetResolve, NetConnect, NetUpgrade, NetWrite, NetRead, NetClose, NetCloseFrame
<1>3. ~OnRecv /\ ~OnDisconnect /\ ~SendAsyncInCallback
  BY DEF OnRecv, Recv, OnDisconnect, Disconnect, SendAsyncInCallback, StartInCallback, Top
<1> QED
  BY <1>1, <1>2, <1>3 DEF HttpNext, hvars, vars, Client, CreateRequest, CloseRequest, Send,
     SendAsyncSecure, Native, SendAsync, Start, SendAsyncReturns, StartReturned, io

\* The first read of a connection is posted after its announcement.
LEMMA ReadingBegins ==
  ASSUME PhaseInv, ClientInv', [Next]_vars, ~Reading, Reading'
  PROVE  st = "started" /\ NoneOf(todo, Announcement)
<1>1. ClientInv /\ Stacked(todo)
  BY DEF PhaseInv
<1>2. NoneOf(todo, ReadingFrame) /\ NoneOf(ioq, ReadHandler) /\ op.read = 0
  BY DEF Reading
<1>3. ~HandleRead
  <2>1. ASSUME HandleRead PROVE FALSE
    <3>1. ioq # <<>> /\ Head(ioq).h = "read" /\ ioq \in Seq(Handler)
      BY <1>1, <2>1 DEF HandleRead, Ready, ClientInv, TypeOK
    <3> QED BY <1>2, <3>1, FirstMark DEF ReadHandler
  <2> QED BY <2>1
<1>4. ~PostRecv
  <2>1. ASSUME PostRecv PROVE FALSE
    <3>1. todo # <<>> /\ Head(todo).f = "postRecv" /\ todo \in Seq(Frame)
      BY <1>1, <2>1 DEF PostRecv, Top, ClientInv, TypeOK
    <3> QED BY <1>2, <3>1, FirstMark DEF ReadingFrame
  <2> QED BY <2>1
<1>5. NoneOf(todo', ReadingFrame)
  BY <1>1, <1>2, <1>3, FramesKept DEF Put, ReadingFrame
<1>6. NoneOf(ioq', ReadHandler)
  BY <1>1, <1>2, QueueKept DEF Made, ReadHandler
<1>7. op'.read # 0
  BY <1>5, <1>6 DEF Reading
<1>8. AfterConnect
  BY <1>1, <1>2, <1>4, <1>7, OpReads, SMTT(30) DEF ClientInv, TypeOK
<1>9. st = "started"
  BY <1>2, <1>7, <1>8 DEF AfterConnect
<1>10. NoneOf(todo, Announcement)
  <2>1. todo # <<>> /\ Head(todo).f = "afterConnect" /\ Tail(todo) = <<>> /\ todo \in Seq(Frame)
    BY <1>1, <1>8, StackTop DEF AfterConnect, Top, ClientInv, TypeOK
  <2>2. Head(todo) \notin Announcement /\ NoneOf(Tail(todo), Announcement)
    BY <2>1, EmptyMarks DEF Announcement
  <2> QED BY <2>1, <2>2, FirstMark
<1> QED BY <1>9, <1>10

LEMMA WireKept ==
  ASSUME PhaseInv, PhaseInv', PoolInv, HttpTypeOK, BoundInv, WireInv, [HttpNext]_hvars, [Next]_vars
  PROVE  WireInv'
<1>1. ASSUME SendAsync \/ SendAsyncInCallback PROVE WireInv'
  <2>1. starts' \in overlap' \/ (SendAsync /\ AtRest)
    BY <1>1 DEF SendAsync, SendAsyncInCallback
  <2>2. ASSUME SendAsync, AtRest PROVE WireInv'
    <3>1. todo' = <<>> /\ st' = "stopped" /\ op.read = 0 /\ op' = op
      BY <2>2 DEF SendAsync, Start, io, AtRest, PhaseInv, FitInv, Settled
    <3>2. ioq = <<>> /\ ClientInv
      BY <2>2 DEF AtRest, PhaseInv
    <3>3. NoneOf(ioq', ReadHandler)
      BY <3>1, <3>2, EmptyMarks, QueueKept DEF Made, ReadHandler
    <3>4. ~Reading'
      BY <3>1, <3>3, EmptyMarks DEF Reading
    <3> QED BY <3>1, <3>4 DEF WireInv
  <2> QED BY <2>1, <2>2 DEF WireInv
<1>2. ASSUME ~SendAsync, ~SendAsyncInCallback PROVE WireInv'
  <2>1. UNCHANGED <<starts, overlap>> /\ (wire' = wire \/ (OnConnect /\ Connects))
    BY <1>2, ClientCaller DEF HttpNext, hvars, vars, caller, bonds, CreateRequest, CloseRequest,
       Send, SendAsyncSecure, Native, SendAsyncReturns, StartReturned, OnConnect, OnRecv, NotifyConnect, Recv
  <2>2. CASE OnConnect /\ Connects
    BY <2>1, <2>2, ListenerBound DEF OnConnect, Connects, Top, WireInv
  <2>3. ASSUME ~(OnConnect /\ Connects), Reading' \/ (st' = "started" /\ NoneOf(todo', Announcement))
        PROVE  Reading \/ (st = "started" /\ NoneOf(todo, Announcement))
    <3>1. CASE Reading'
      BY <3>1, ReadingBegins DEF PhaseInv
    <3>2. ASSUME st' = "started", NoneOf(todo', Announcement) PROVE st = "started" /\ NoneOf(todo, Announcement)
      <4>1. ClientInv
        BY DEF PhaseInv
      <4>2. st = "started"
        BY <3>2, <4>1, WhoStops, DoneConnectPuts
      <4>3. ASSUME todo # <<>>, Head(todo) \in Announcement PROVE FALSE
        <5>1. Top("notifyConnect") /\ Head(todo).ec = "ok"
          BY <4>3 DEF Announcement, Top
        <5>2. todo' = todo
          BY <2>3, <4>2, <5>1, Announces DEF Connects
        <5> QED BY <3>2, <4>1, <4>3, <5>2, FirstMark DEF ClientInv, TypeOK
      <4> QED BY <3>2, <4>1, <4>2, <4>3, FramesKept
    <3> QED BY <2>3, <3>1, <3>2
  <2> QED BY <2>1, <2>2, <2>3 DEF WireInv
<1> QED BY <1>1, <1>2

LEMMA WireInductive == HttpSpec => []WireInv
<1>1. HttpInit => WireInv
  BY DEF HttpInit, Init, WireInv
<1>2. PhaseInv /\ PhaseInv' /\ PoolInv /\ HttpTypeOK /\ BoundInv /\ WireInv /\ [HttpNext]_hvars /\ [Next]_vars => WireInv'
  BY WireKept
<1> QED BY <1>1, <1>2, SendAsyncInductive, HttpIsClient, PoolInductive, PTL DEF HttpSpec, Spec

\* The receive listener of SendAsync (native.cpp) is bound anew by every call: the
\* plugin function it calls belongs to the request that was sent, unless that
\* call found the client at work.
THEOREM AnswersBelong == HttpSpec => []AnswerBelongs
<1>1. HttpTypeOK /\ BoundInv /\ PoolInv /\ WireInv => AnswerBelongs
  <2> SUFFICES ASSUME HttpTypeOK, BoundInv, PoolInv, WireInv, Top("recv"), starts \notin overlap
               PROVE  bound.recv = wire
    BY ListenerBound DEF AnswerBelongs, Top
  <2>1. todo # <<>> /\ Head(todo).f = "recv" /\ todo \in Seq(Frame)
    BY DEF Top, HttpTypeOK, TypeOK
  <2>2. Reading
    BY <2>1, FirstMark DEF Reading, ReadingFrame
  <2> QED BY <2>1, <2>2, ListenerBound DEF WireInv
<1> QED BY <1>1, WireInductive, SendAsyncInductive, HttpIsClient, PoolInductive, PTL

----------------------------------------------------------------------------
(* What the client is never asked: between SendAsync and its listeners the   *)
(* game thread stops nothing, and nothing reconnects.                        *)

OtherPush      == {hd \in Handler : hd.h = "push" /\ ~(hd.ev.e = "connect" /\ hd.ev.by = "game")}
RetryHandler   == {hd \in Handler : hd.h = "rtimer"}
RetryEvent     == {ev \in Event : ev.e = "reconnect"}
GameStop       == {ev \in Event : ev.e = "stop" /\ ev.by = "game"}
GameStopFrame  == {fr \in Frame : fr.f \in {"disconnect", "disconnected", "stopReturns"} /\ fr.by = "game"}
GameStopClosed == {hd \in Handler : hd.h = "closed" /\ hd.by = "game"}
AskedInv ==
    /\ game \in {"idle", "starting"}
    /\ NoneOf(ioq, OtherPush) /\ NoneOf(ioq, RetryHandler) /\ NoneOf(ioq, GameStopClosed)
    /\ NoneOf(events, RetryEvent) /\ NoneOf(events, GameStop)
    /\ NoneOf(todo, GameStopFrame) /\ op.close # "game" /\ rtimer.wait # "delay"

\* The game thread, when it is not in start, may call it; otherwise it waits.
LEMMA GameSteps ==
  ASSUME game \in {"idle", "starting"}, [HttpNext]_hvars
  PROVE  /\ game' \in {"idle", "starting"}
         /\ SendAsync => game = "idle" /\ game' = "starting" /\ ret' = "none"
         /\ ~SendAsync => game' = game \/ (SendAsyncReturns /\ game = "starting" /\ game' = "idle" /\ ret # "none")
         /\ ~SendAsync => ~Start
<1>1. SendAsync => game = "idle" /\ game' = "starting" /\ ret' = "none"
  BY HttpAssumption DEF SendAsync, Start
<1>2. SendAsyncReturns => game = "starting" /\ game' = "idle" /\ ret # "none"
  BY DEF SendAsyncReturns, StartReturned
<1>3. ~SendAsync /\ ~SendAsyncReturns => game' = game
  BY ClientCaller DEF HttpNext, hvars, vars, caller, CreateRequest, CloseRequest,
     Send, SendAsyncSecure, Native, SendAsyncInCallback, StartInCallback, OnConnect, OnRecv, NotifyConnect, Recv
<1>4. Start => game = "idle" /\ game' = "starting"
  BY HttpAssumption DEF Start
<1> QED BY <1>1, <1>2, <1>3, <1>4

LEMMA AskedKept == ASSUME PhaseInv, AskedInv, [HttpNext]_hvars, [Next]_vars PROVE AskedInv'
<1>1. ClientInv /\ PushInv /\ TypeOK /\ ioq \in Seq(Handler) /\ events \in Seq(Event) /\ todo \in Seq(Frame)
  BY DEF PhaseInv, ClientInv, TypeOK
<1>2. game' \in {"idle", "starting"}
  BY GameSteps DEF AskedInv
<1>3. ~Stop
  BY <1>2 DEF Stop
<1>4. ASSUME ioq # <<>> PROVE Head(ioq) \in Handler /\ Head(ioq) \notin OtherPush \cup RetryHandler \cup GameStopClosed
  BY <1>1, <1>4, FirstMark DEF AskedInv
<1>5. ASSUME events # <<>> PROVE Head(events) \in Event /\ Head(events) \notin GameStop
  BY <1>1, <1>5, FirstMark DEF AskedInv
<1>6. ASSUME todo # <<>> PROVE Head(todo) \in Frame /\ Head(todo) \notin GameStopFrame
  BY <1>1, <1>6, FirstMark DEF AskedInv
<1>7. NoneOf(ioq', OtherPush) /\ NoneOf(ioq', RetryHandler) /\ NoneOf(ioq', GameStopClosed)
  <2>1. \A hd \in Handler : Made(hd) => hd \notin OtherPush
    BY <1>3 DEF Made, OtherPush
  <2>2. \A hd \in Handler : Made(hd) => hd \notin RetryHandler
    BY HttpAssumption DEF Made, RetryHandler, AskedInv
  <2>3. \A hd \in Handler : Made(hd) => hd \notin GameStopClosed
    BY DEF Made, GameStopClosed, AskedInv
  <2> QED BY <1>1, <2>1, <2>2, <2>3, QueueKept DEF AskedInv
<1>8. NoneOf(events', RetryEvent) /\ NoneOf(events', GameStop)
  <2>1. \A ev \in Event : Queued(ev) => ev \notin RetryEvent
    BY <1>4 DEF Queued, RetryEvent, RetryHandler, Ready
  <2>2. \A ev \in Event : Queued(ev) => ev \notin GameStop
    BY <1>4 DEF Queued, GameStop, OtherPush, HandlePush, Ready
  <2> QED BY <1>1, <2>1, <2>2, EventKept DEF AskedInv
<1>9. NoneOf(todo', GameStopFrame)
  <2>1. ASSUME NEW fr \in Frame, Put(fr), fr \in GameStopFrame PROVE FALSE
    <3>1. Passed("game") 
      BY <2>1 DEF Put, GameStopFrame
    <3>2. CASE RunStop /\ Head(events).by = "game"
      BY <1>5, <3>2, <1>1, RunEvent DEF RunStop, GameStop
    <3>3. CASE todo # <<>> /\ Head(todo).f \in {"disconnect", "disconnected"} /\ Head(todo).by = "game"
      BY <1>6, <3>3 DEF GameStopFrame
    <3>4. CASE HandleClosed /\ Head(ioq).by = "game"
      BY <1>4, <3>4 DEF HandleClosed, Ready, GameStopClosed
    <3> QED BY <3>1, <3>2, <3>3, <3>4 DEF Passed
  <2> QED BY <1>1, <2>1, FramesKept DEF AskedInv
<1>10. op'.close # "game"
  <2>1. CASE Disconnect /\ op'.close = Head(todo).by
    BY <1>6, <2>1 DEF Disconnect, Top, GameStopFrame
  <2> QED BY <1>1, <2>1, OpReads DEF AskedInv
<1>11. rtimer'.wait # "delay"
  BY <1>1, <1>4, DelayBegins DEF AskedInv, HandleReconnectTimer, Ready, RetryHandler
<1> QED BY <1>2, <1>7, <1>8, <1>9, <1>10, <1>11 DEF AskedInv

LEMMA AskedInductive == HttpSpec => []AskedInv
<1>1. HttpInit => AskedInv
  BY EmptyMarks DEF HttpInit, Init, AskedInv
<1>2. PhaseInv /\ AskedInv /\ [HttpNext]_hvars /\ [Next]_vars => AskedInv'
  BY AskedKept
<1> QED BY <1>1, <1>2, HttpIsClient, PhaseInductive, PTL DEF HttpSpec, Spec

----------------------------------------------------------------------------
(* The answer that SendAsync waits for in start is on its way in one place:  *)
(* a connect handler, a connect event, the attempt to connect, or a frame    *)
(* that sets the promise.                                                    *)

\* At most one element of a sequence is in H.
Lone(s, H) == NoneOf(s, H) \/ OneOf(s, H)

PushConnect == {hd \in Handler : hd.h = "push" /\ hd.ev.e = "connect"}
GameConnect == {ev \in Event : ev.e = "connect" /\ ev.by = "game"}
GameReturn  == {fr \in Frame : fr.f = "startReturns" /\ fr.by = "game"}
Active      == chain = "game" /\ (st = "starting" \/ ~NoneOf(todo, ConnectFrame))

LEMMA LoneRest ==
  ASSUME NEW S, NEW s \in Seq(S), s # <<>>, NEW H, Lone(s, H)
  PROVE  Lone(Tail(s), H) /\ (Head(s) \in H => NoneOf(Tail(s), H))
  BY FirstMark DEF Lone

LEMMA LoneConcat ==
  ASSUME NEW S, NEW s \in Seq(S), NEW t \in Seq(S), NEW H
  PROVE  /\ Lone(s, H) /\ NoneOf(t, H) => Lone(s \o t, H)
         /\ NoneOf(s, H) /\ Lone(t, H) => Lone(s \o t, H)
  BY ConcatMarks DEF Lone

\* Only SendAsync posts a connect.
LEMMA PushMoves ==
  ASSUME PhaseInv, AskedInv, [HttpNext]_hvars, [Next]_vars
  PROVE  /\ ~SendAsync => /\ NoneOf(ioq, PushConnect) => NoneOf(ioq', PushConnect)
                          /\ Lone(ioq, PushConnect) => Lone(ioq', PushConnect)
         /\ SendAsync /\ NoneOf(ioq, PushConnect) => Lone(ioq', PushConnect)
         /\ HandlePush => ~NoneOf(ioq, PushConnect) /\ (Lone(ioq, PushConnect) => NoneOf(ioq', PushConnect))
<1>1. ClientInv /\ ioq \in Seq(Handler)
  BY DEF PhaseInv, ClientInv, TypeOK
<1>2. ~Stop
  BY GameSteps DEF AskedInv, Stop
<1>3. ASSUME ~SendAsync
      PROVE  /\ NoneOf(ioq, PushConnect) => NoneOf(ioq', PushConnect)
             /\ Lone(ioq, PushConnect) => Lone(ioq', PushConnect)
  <2>1. PICK q, hs \in Seq(Handler) : Left(q) /\ Added(hs) /\ ioq' = q \o hs
    BY <1>1, HandlersAdded DEF Rehandled
  <2>2. \A hd \in Handler : Made(hd) => hd \notin PushConnect
    BY <1>2, <1>3, GameSteps DEF AskedInv, Made, PushConnect
  <2>3. NoneOf(hs, PushConnect)
    <3>1. \A i \in 1..Len(hs) : hs[i] \in Handler
      OBVIOUS
    <3> QED BY <2>1, <2>2, <3>1 DEF NoneOf, Unmade, Added
  <2>4. Lone(ioq, PushConnect) => Lone(q, PushConnect)
    BY <1>1, <2>1, LoneRest DEF Left
  <2> QED BY <1>1, <2>1, <2>2, <2>3, <2>4, LoneConcat, QueueKept
<1>4. ASSUME SendAsync, NoneOf(ioq, PushConnect) PROVE Lone(ioq', PushConnect)
  <2> DEFINE hd == Posted([e |-> "connect", by |-> "game", to |-> starts'])
  <2>1. ioq' = Append(ioq, hd) /\ starts' \in 1..MaxStarts
    BY <1>1, <1>4, NewCall DEF SendAsync, Start, Call, ClientInv
  <2>2. hd \in Handler
    BY <2>1, MakeEvent, MakeHandler DEF Posted, Caller
  <2>3. hd \in PushConnect
    BY <2>2 DEF PushConnect, Posted
  <2> HIDE DEF hd
  <2> QED BY <1>1, <1>4, <2>1, <2>2, <2>3, PutMark DEF Lone
<1>5. ASSUME HandlePush PROVE ~NoneOf(ioq, PushConnect) /\ (Lone(ioq, PushConnect) => NoneOf(ioq', PushConnect))
  <2>1. ioq # <<>> /\ Head(ioq).h = "push" /\ ioq' = Tail(ioq)
    BY <1>5 DEF HandlePush, Ready, Handled
  <2>2. Head(ioq) \in PushConnect
    <3>1. NoneOf(ioq, OtherPush)
      BY DEF AskedInv
    <3>2. Head(ioq) \in Handler /\ Head(ioq) \notin OtherPush
      BY <1>1, <2>1, <3>1, FirstMark
    <3> QED BY <2>1, <3>2 DEF OtherPush, PushConnect
  <2> QED BY <1>1, <2>1, <2>2, FirstMark, LoneRest
<1> QED BY <1>3, <1>4, <1>5

LEMMA ChainMoves == ASSUME [Next]_vars, ~RunConnect, ~RunReconnect PROVE chain' = chain
<1>1. ASSUME \/ HandlePush \/ NextEvent \/ RunSend \/ RunStop \/ RunDisconnect \/ HandleResolved \/ HandleConnected
             \/ HandleUpgraded \/ DoneConnect \/ AfterConnect \/ SetStartPromise \/ SetStopPromise \/ Disconnect
             \/ HandleClosed \/ HandleDisconnect \/ HandleDisconnectTimer \/ HandleConnectTimer
             \/ HandleReconnectTimer \/ HandleWritten \/ HandleControl \/ HandleRead \/ PostRecv \/ IoCallback
      PROVE  chain' = chain
  BY <1>1 DEF HandlePush, NextEvent, RunSend, RunStop, RunDisconnect, HandleResolved, HandleConnected,
     HandleUpgraded, DoneConnect, AfterConnect, SetStartPromise, SetStopPromise, Disconnect, HandleClosed,
     HandleDisconnect, HandleDisconnectTimer, HandleConnectTimer, HandleReconnectTimer, HandleWritten, HandleControl, HandleRead,
     PostRecv, IoCallback, NotifyConnect, Recv, StartInCallback
<1>2. ASSUME GameThread \/ Calls \/ Network \/ Clock \/ UNCHANGED vars PROVE chain' = chain
  BY <1>2 DEF GameThread, Calls, Network, Clock, StartReturned, StopPool, StopReturned, Start, Stop,
     ConnectTimerExpires, ReconnectDelayExpires, DisconnectTick, NetResolve, NetConnect, NetUpgrade, NetClose, NetCloseFrame,
     NetWrite, NetRead, io, quiet, vars
<1> QED BY <1>1, <1>2 DEF Next, IoThread, IoInternal

LEMMA NoRetry == ASSUME PhaseInv, AskedInv PROVE ~RunReconnect
<1>1. events \in Seq(Event) /\ ClientInv
  BY DEF PhaseInv, ClientInv, TypeOK
<1>2. NoneOf(events, RetryEvent)
  BY DEF AskedInv
<1>3. ASSUME RunReconnect PROVE FALSE
  <2>1. events # <<>> /\ Head(events) \in Event /\ Head(events).e = "reconnect"
    BY <1>1, <1>3, RunEvent DEF RunReconnect
  <2> QED BY <1>1, <1>2, <2>1, FirstMark DEF RetryEvent
<1> QED BY <1>3

\* Unless the client is starting, a step puts no frame of an attempt on the stack.
LEMMA AttemptFramesKept ==
  ASSUME PhaseInv, [Next]_vars, st # "starting", NEW H, H \subseteq ConnectFrame, NoneOf(todo, H), ~DoneConnect
  PROVE  NoneOf(todo', H)
<1>1. ClientInv /\ FitInv
  BY DEF PhaseInv
<1>2. ~HandleResolved /\ ~HandleConnected /\ ~HandleUpgraded
  BY <1>1, FirstFits DEF HandleResolved, HandleConnected, HandleUpgraded, Ready, HandlerFits, Dialling, HoldingHandler
<1>3. \A fr \in Frame : Put(fr) => fr \notin ConnectFrame
  BY <1>2 DEF Put, ConnectFrame
<1> QED BY <1>1, <1>3, FramesKept

\* The attempt of the game thread begins with its connect event ...
LEMMA ActiveBegins ==
  ASSUME PhaseInv, AskedInv, [Next]_vars, ~Active, Active'
  PROVE  RunConnect /\ Head(events) \in GameConnect /\ st = "stopped" /\ todo' = Tail(todo)
<1>1. CASE RunConnect
  BY <1>1, RunConnectTakes DEF Active, GameConnect
<1>2. ASSUME ~RunConnect PROVE FALSE
  <2>1. chain' = chain /\ chain = "game"
    BY <1>2, NoRetry, ChainMoves DEF Active
  <2>2. st # "starting" /\ NoneOf(todo, ConnectFrame)
    BY <2>1 DEF Active
  <2>3. st' # "starting"
    BY <1>2, <2>2, NoRetry, WhoStops DEF PhaseInv
  <2>4. ~DoneConnect
    <3>1. todo \in Seq(Frame)
      BY DEF PhaseInv, ClientInv, TypeOK
    <3> QED BY <2>2, <3>1, FirstMark DEF DoneConnect, Top, ConnectFrame
  <2> QED BY <2>2, <2>3, <2>4, AttemptFramesKept DEF Active
<1> QED BY <1>1, <1>2

\* ... and ends with the frame that follows its notification.
LEMMA AfterConnectTakes ==
  ASSUME PhaseInv, ClientInv', ReadInv, AfterConnect
  PROVE  /\ chain = "game" => Active
         /\ ~Active' /\ st' # "starting" /\ NoneOf(todo', ConnectFrame)
<1>1. todo # <<>> /\ Head(todo).f = "afterConnect" /\ todo \in Seq(Frame) /\ ClientInv /\ FitInv
  BY DEF PhaseInv, ClientInv, TypeOK, AfterConnect, Top
<1>2. ~NoneOf(todo, ConnectFrame)
  BY <1>1, FirstMark DEF ConnectFrame
<1>3. IF Head(todo).ec = "ok" THEN st = "started" ELSE st = "starting"
  BY <1>1, TopFits DEF FrameFits, HoldingFrame, Dialling
<1>4. st' # "starting"
  BY <1>3 DEF AfterConnect, DisconnectInPlace, Connected
<1>5. NoneOf(todo', ConnectFrame)
  BY AfterConnectReads
<1> QED BY <1>2, <1>4, <1>5 DEF Active

LEMMA LoneReturns ==
  ASSUME TypeOK, NEW by \in Caller \cup {"reconnect"}, NEW v \in {"ok", "failed", "already_started"}, NEW rs,
         rs = IF by = "reconnect" THEN <<>> ELSE StartReturns(by, v)
  PROVE  rs \in Seq(Frame) /\ Lone(rs, GameReturn)
<1>1. CASE by = "reconnect"
  BY <1>1, EmptyMarks, NoFrame DEF Lone
<1>2. CASE by # "reconnect"
  <2>1. PICK fr \in Frame : rs = <<fr>>
    BY <1>2, MakeFrame DEF StartReturns
  <2>2. NoneOf(<<fr>>, GameReturn) \/ OneOf(<<fr>>, GameReturn)
    BY SingleMarks
  <2>3. <<fr>> \in Seq(Frame)
    BY OnlyFrame
  <2> QED BY <2>1, <2>2, <2>3 DEF Lone
<1> QED BY <1>1, <1>2

\* Frames that set no promise of the game thread.
LEMMA PlainReturns ==
  ASSUME NEW fr \in Frame, fr.f # "startReturns" PROVE <<fr>> \in Seq(Frame) /\ NoneOf(<<fr>>, GameReturn)
  BY SingleMarks DEF GameReturn

LEMMA ReturnMoves ==
  ASSUME PhaseInv, [Next]_vars
  PROVE  /\ ~(RunConnect /\ Head(events) \in GameConnect) /\ ~(AfterConnect /\ chain = "game") =>
                /\ NoneOf(todo, GameReturn) => NoneOf(todo', GameReturn)
                /\ Lone(todo, GameReturn) => Lone(todo', GameReturn)
         /\ (RunConnect \/ AfterConnect) /\ NoneOf(todo, GameReturn) => Lone(todo', GameReturn)
         /\ SetStartPromise /\ Head(todo).by = "game" =>
                ~NoneOf(todo, GameReturn) /\ (Lone(todo, GameReturn) => NoneOf(todo', GameReturn))
<1>1. ClientInv /\ TypeOK /\ Stacked(todo) /\ todo \in Seq(Frame)
  BY DEF PhaseInv, ClientInv, TypeOK
<1>2. ASSUME ~(RunConnect /\ Head(events) \in GameConnect), ~(AfterConnect /\ chain = "game")
      PROVE  /\ NoneOf(todo, GameReturn) => NoneOf(todo', GameReturn)
             /\ Lone(todo, GameReturn) => Lone(todo', GameReturn)
  <2>1. \A fr \in Frame : Put(fr) => fr \notin GameReturn
    BY <1>2, RunConnectTakes DEF Put, GameReturn, GameConnect
  <2>2. PICK gs \in Seq(Frame) : /\ NoneOf(gs, Unput)
                                 /\ todo' = gs \o todo \/ (todo # <<>> /\ todo' = gs \o Tail(todo))
    BY <1>1, FramesPut DEF Restacked
  <2>3. NoneOf(gs, GameReturn)
    <3>1. \A i \in 1..Len(gs) : gs[i] \in Frame
      OBVIOUS
    <3> QED BY <2>1, <2>2, <3>1 DEF NoneOf, Unput
  <2>4. todo # <<>> => /\ Tail(todo) \in Seq(Frame)
                       /\ Lone(todo, GameReturn) => Lone(Tail(todo), GameReturn)
    BY <1>1, FirstMark, LoneRest
  <2> QED BY <1>1, <2>1, <2>2, <2>3, <2>4, LoneConcat, FramesKept
<1>3. ASSUME RunConnect, NoneOf(todo, GameReturn) PROVE Lone(todo', GameReturn)
  <2> DEFINE rs == StartReturns(Head(events).by, "already_started")
             ls == <<Release>>
  <2>1. rs \in Seq(Frame) /\ Lone(rs, GameReturn)
    <3>1. Head(events).by \in Caller
      BY <1>3, RunConnectTakes, EventKinds
    <3> QED BY <1>1, <3>1, LoneReturns DEF Caller
  <2>2. ls \in Seq(Frame) /\ NoneOf(ls, GameReturn)
    BY MakeFrame, PlainReturns DEF Release
  <2>3. Tail(todo) \in Seq(Frame) /\ NoneOf(Tail(todo), GameReturn)
    BY <1>1, <1>3, RunConnectTakes, FirstMark
  <2>4. todo' = Tail(todo) \/ todo' = (rs \o ls) \o Tail(todo)
    BY <1>3, RunConnectTakes
  <2> HIDE DEF rs, ls
  <2>5. rs \o ls \in Seq(Frame) /\ Lone(rs \o ls, GameReturn)
    BY <2>1, <2>2, LoneConcat, ConcatProperties
  <2> QED BY <2>3, <2>4, <2>5, LoneConcat DEF Lone
<1>4. ASSUME AfterConnect PROVE Lone(todo', GameReturn)
  <2> DEFINE rs(v) == ChainReturns(v)
             ls == <<Release>>
             ds == <<Disconnecting("none")>>
  <2>1. Tail(todo) = <<>>
    BY <1>1, <1>4, StackTop DEF AfterConnect, Top
  <2>2. \A v \in {"ok", "failed"} : rs(v) \in Seq(Frame) /\ Lone(rs(v), GameReturn)
    BY <1>1, LoneReturns DEF ChainReturns, TypeOK
  <2>3. ls \in Seq(Frame) /\ NoneOf(ls, GameReturn)
    BY MakeFrame, PlainReturns DEF Release
  <2>4. ds \in Seq(Frame) /\ NoneOf(ds, GameReturn)
    <3>1. Disconnecting("none") \in Frame /\ Disconnecting("none").f # "startReturns"
      BY <1>1, MakeFrame DEF Disconnecting, TypeOK
    <3> QED BY <3>1, PlainReturns
  <2>5. \/ todo' = (rs("ok") \o ls) \o <<>>
        \/ todo' = (ds \o rs("failed")) \o <<>>
        \/ todo' = (ls \o rs("failed")) \o <<>>
    BY <1>4, <2>1 DEF AfterConnect, DisconnectInPlace, Then
  <2> HIDE DEF rs, ls, ds
  <2>6. \A s \in Seq(Frame) : s \o <<>> = s
    BY ConcatEmptySeq
  <2>7. /\ rs("ok") \o ls \in Seq(Frame) /\ Lone(rs("ok") \o ls, GameReturn)
        /\ ds \o rs("failed") \in Seq(Frame) /\ Lone(ds \o rs("failed"), GameReturn)
        /\ ls \o rs("failed") \in Seq(Frame) /\ Lone(ls \o rs("failed"), GameReturn)
    BY <2>2, <2>3, <2>4, LoneConcat, ConcatProperties
  <2> QED BY <2>5, <2>6, <2>7
<1>5. ASSUME SetStartPromise, Head(todo).by = "game"
      PROVE  ~NoneOf(todo, GameReturn) /\ (Lone(todo, GameReturn) => NoneOf(todo', GameReturn))
  <2>1. todo # <<>> /\ Head(todo).f = "startReturns" /\ todo' = Tail(todo)
    BY <1>1, <1>5, FirstMark, NoFrame DEF SetStartPromise, Top, Then
  <2>2. Head(todo) \in GameReturn
    BY <1>1, <1>5, <2>1, FirstMark DEF GameReturn
  <2> QED BY <1>1, <2>1, <2>2, FirstMark, LoneRest
<1> QED BY <1>2, <1>3, <1>4, <1>5

\* A connect event of the game thread waits from its handler until it begins.
LEMMA GameWaits ==
  ASSUME PhaseInv, ClientInv', [Next]_vars, NEW W, W = Waiting(events, todo), NEW Z, Z = Waiting(events', todo')
  PROVE  /\ NoneOf(W, GameConnect) => Lone(Z, GameConnect)
         /\ ~HandlePush => /\ NoneOf(W, GameConnect) => NoneOf(Z, GameConnect)
                           /\ Lone(W, GameConnect) => Lone(Z, GameConnect)
         /\ RunConnect /\ Head(events) \in GameConnect =>
                ~NoneOf(W, GameConnect) /\ (Lone(W, GameConnect) => NoneOf(Z, GameConnect))
<1>1. ClientInv /\ PushInv /\ events \in Seq(Event)
  BY DEF PhaseInv, ClientInv, TypeOK
<1>2. W \in Seq(Event)
  BY <1>1, WaitingMoves
<1> DEFINE Kept == /\ NoneOf(W, GameConnect) => Lone(Z, GameConnect)
                   /\ ~HandlePush => /\ NoneOf(W, GameConnect) => NoneOf(Z, GameConnect)
                                     /\ Lone(W, GameConnect) => Lone(Z, GameConnect)
<1>3. ASSUME Z = W PROVE Kept
  BY <1>3 DEF Lone
<1>4. ASSUME NEW ev \in Event, Queued(ev), Z = Append(W, ev) PROVE Kept
  <2>1. ~HandlePush => ev \notin GameConnect
    BY <1>4 DEF Queued, GameConnect
  <2>2. /\ NoneOf(Append(W, ev), GameConnect) <=> NoneOf(W, GameConnect) /\ ev \notin GameConnect
        /\ OneOf(W, GameConnect) /\ ev \notin GameConnect => OneOf(Append(W, ev), GameConnect)
        /\ NoneOf(W, GameConnect) /\ ev \in GameConnect => OneOf(Append(W, ev), GameConnect)
    BY <1>2, PutMark
  <2> QED BY <1>4, <2>1, <2>2 DEF Lone
<1>5. ASSUME W # <<>>, Z = Tail(W) PROVE Kept
  <2>1. NoneOf(W, GameConnect) => NoneOf(Z, GameConnect)
    BY <1>2, <1>5, FirstMark
  <2>2. Lone(W, GameConnect) => Lone(Z, GameConnect)
    BY <1>2, <1>5, LoneRest
  <2> QED BY <2>1, <2>2 DEF Lone
<1>6. ASSUME RunConnect, Head(events) \in GameConnect
      PROVE  ~NoneOf(W, GameConnect) /\ (Lone(W, GameConnect) => NoneOf(Z, GameConnect))
  <2>1. W # <<>> /\ Head(W) \in GameConnect /\ Z = Tail(W)
    BY <1>6, RunConnectTakes
  <2>2. ~NoneOf(W, GameConnect)
    BY <1>2, <2>1, FirstMark
  <2>3. Lone(W, GameConnect) => NoneOf(Z, GameConnect)
    BY <1>2, <2>1, LoneRest
  <2> QED BY <2>2, <2>3
<1>7. \/ Z = W
      \/ \E ev \in Event : Queued(ev) /\ Z = Append(W, ev)
      \/ W # <<>> /\ Z = Tail(W)
  BY <1>1, WaitingMoves
<1>8. Kept
  <2> HIDE DEF Kept
  <2> QED BY <1>3, <1>4, <1>5, <1>7
<1> QED BY <1>6, <1>8

\* The promise is set by the frame of the game thread's start, and read once.
LEMMA PromiseMoves ==
  ASSUME PhaseInv, AskedInv, [HttpNext]_hvars, [Next]_vars, ret' # "none"
  PROVE  ret # "none" \/ (SetStartPromise /\ Head(todo).by = "game" /\ game = "starting")
<1>1. CASE SetStartPromise
  BY <1>1 DEF SetStartPromise
<1>2. ASSUME SetStopPromise PROVE ret' = ret
  <2>1. todo # <<>> /\ Head(todo).f = "stopReturns" /\ todo \in Seq(Frame) /\ NoneOf(todo, GameStopFrame)
    BY <1>2 DEF SetStopPromise, Top, PhaseInv, ClientInv, TypeOK, AskedInv
  <2>2. Head(todo).by # "game"
    BY <2>1, FirstMark DEF GameStopFrame
  <2> QED BY <1>2, <2>2 DEF SetStopPromise
<1>3. ASSUME \/ HandlePush \/ NextEvent \/ RunConnect \/ RunReconnect \/ RunSend \/ RunStop \/ RunDisconnect
             \/ HandleResolved \/ HandleConnected \/ HandleUpgraded \/ DoneConnect \/ AfterConnect \/ Disconnect
             \/ HandleClosed \/ HandleDisconnect \/ HandleDisconnectTimer \/ HandleConnectTimer
             \/ HandleReconnectTimer \/ HandleWritten \/ HandleControl \/ HandleRead \/ PostRecv \/ IoCallback
      PROVE  ret' = ret
  BY <1>3 DEF HandlePush, NextEvent, RunConnect, RunReconnect, RunSend, RunStop, RunDisconnect, HandleResolved,
     HandleConnected, HandleUpgraded, DoneConnect, AfterConnect, Disconnect, HandleClosed,
     HandleDisconnect, HandleDisconnectTimer, HandleConnectTimer, HandleReconnectTimer, HandleWritten, HandleControl, HandleRead,
     PostRecv, IoCallback, NotifyConnect, Recv, StartInCallback
<1>4. ASSUME GameThread \/ Calls \/ Network \/ Clock \/ UNCHANGED vars PROVE ret' \in {ret, "none"}
  BY <1>4 DEF GameThread, Calls, Network, Clock, StartReturned, StopPool, StopReturned, Start, Stop,
     ConnectTimerExpires, ReconnectDelayExpires, DisconnectTick, NetResolve, NetConnect, NetUpgrade, NetClose, NetCloseFrame,
     NetWrite, NetRead, io, quiet, vars
<1> QED BY <1>1, <1>2, <1>3, <1>4 DEF Next, IoThread, IoInternal

Nowhere ==
    /\ NoneOf(ioq, PushConnect) /\ NoneOf(Waiting(events, todo), GameConnect)
    /\ NoneOf(todo, GameReturn) /\ ~Active
AnswerInv ==
    /\ Lone(ioq, PushConnect) /\ Lone(Waiting(events, todo), GameConnect) /\ Lone(todo, GameReturn)
    /\ ~NoneOf(ioq, PushConnect) =>
            NoneOf(Waiting(events, todo), GameConnect) /\ NoneOf(todo, GameReturn) /\ ~Active
    /\ ~NoneOf(Waiting(events, todo), GameConnect) => NoneOf(todo, GameReturn) /\ ~Active
    /\ ~NoneOf(todo, GameReturn) => ~Active
    /\ game = "idle" \/ ret # "none" => Nowhere

LEMMA AnswerKept ==
  ASSUME PhaseInv, ClientInv', ReadInv, AskedInv, AnswerInv, [HttpNext]_hvars, [Next]_vars
  PROVE  AnswerInv'
<1> DEFINE W == Waiting(events, todo)
           P == NoneOf(ioq, PushConnect)
           G == NoneOf(W, GameConnect)
           R == NoneOf(todo, GameReturn)
<1>1. /\ Lone(ioq, PushConnect) /\ Lone(W, GameConnect) /\ Lone(todo, GameReturn)
      /\ ~P => G /\ R /\ ~Active
      /\ ~G => R /\ ~Active
      /\ ~R => ~Active
      /\ game = "idle" \/ ret # "none" => P /\ G /\ R /\ ~Active
      /\ game \in {"idle", "starting"}
  BY DEF AnswerInv, Nowhere, AskedInv
<1>2. /\ ~SendAsync => (P => P') /\ Lone(ioq', PushConnect)
      /\ SendAsync /\ P => Lone(ioq', PushConnect)
      /\ HandlePush => ~P /\ P'
  BY <1>1, PushMoves
<1>3. /\ G => Lone(W', GameConnect)
      /\ ~HandlePush => (G => G') /\ Lone(W', GameConnect)
      /\ RunConnect /\ Head(events) \in GameConnect => ~G /\ G'
  BY <1>1, GameWaits
<1>4. /\ ~(RunConnect /\ Head(events) \in GameConnect) /\ ~(AfterConnect /\ chain = "game") =>
            (R => R') /\ Lone(todo', GameReturn)
      /\ (RunConnect \/ AfterConnect) /\ R => Lone(todo', GameReturn)
      /\ SetStartPromise /\ Head(todo).by = "game" => ~R /\ R'
  BY <1>1, ReturnMoves
<1>5. ~Active /\ Active' => RunConnect /\ Head(events) \in GameConnect /\ (R => R')
  <2>1. RunConnect => todo # <<>> /\ todo \in Seq(Frame)
    BY RunConnectTakes DEF PhaseInv, ClientInv, TypeOK
  <2>2. RunConnect /\ R => NoneOf(Tail(todo), GameReturn)
    BY <2>1, FirstMark
  <2> QED BY <2>2, ActiveBegins
<1>6. AfterConnect /\ chain = "game" => Active /\ ~Active'
  BY AfterConnectTakes
<1>7. /\ SendAsync => game = "idle" /\ game' = "starting" /\ ret' = "none"
      /\ ~SendAsync => game' = game \/ ret # "none"
  BY <1>1, GameSteps
<1>8. ret' # "none" => ret # "none" \/ (SetStartPromise /\ Head(todo).by = "game")
  BY PromiseMoves
<1> HIDE DEF W, P, G, R
<1>9. /\ Lone(ioq', PushConnect) /\ Lone(W', GameConnect) /\ Lone(todo', GameReturn)
      /\ ~P' => G' /\ R' /\ ~Active'
      /\ ~G' => R' /\ ~Active'
      /\ ~R' => ~Active'
  <2>1. CASE SendAsync
    BY <1>1, <1>2, <1>3, <1>4, <1>5, <1>6, <1>7, <2>1
  <2>2. CASE ~SendAsync /\ HandlePush
    BY <1>1, <1>2, <1>3, <1>4, <1>5, <1>6, <2>2
  <2>3. CASE RunConnect /\ Head(events) \in GameConnect
    BY <1>1, <1>2, <1>3, <1>4, <1>5, <1>7, <2>3
  <2>4. CASE AfterConnect /\ chain = "game"
    BY <1>1, <1>2, <1>3, <1>4, <1>6, <1>7, <2>4
  <2>5. CASE /\ ~SendAsync /\ ~HandlePush /\ ~(RunConnect /\ Head(events) \in GameConnect)
             /\ ~(AfterConnect /\ chain = "game")
    BY <1>1, <1>2, <1>3, <1>4, <1>5, <2>5
  <2> QED BY <2>1, <2>2, <2>3, <2>4, <2>5
<1>10. game' = "idle" \/ ret' # "none" => P' /\ G' /\ R' /\ ~Active'
  BY <1>1, <1>2, <1>3, <1>4, <1>5, <1>6, <1>7, <1>8
<1> QED BY <1>9, <1>10 DEF AnswerInv, Nowhere, W, P, G, R

LEMMA AnswerInductive == HttpSpec => []AnswerInv
<1>1. HttpInit => AnswerInv
  <2> SUFFICES ASSUME HttpInit PROVE AnswerInv
    OBVIOUS
  <2>1. ioq = <<>> /\ todo = <<>> /\ Waiting(events, todo) = <<>> /\ st = "stopped"
    BY DEF HttpInit, Init, Waiting
  <2> QED BY <2>1, EmptyMarks DEF AnswerInv, Nowhere, Active, Lone
<1>2. PhaseInv /\ PhaseInv' /\ ReadInv /\ AskedInv /\ AnswerInv /\ [HttpNext]_hvars /\ [Next]_vars => AnswerInv'
  BY AnswerKept DEF PhaseInv
<1> QED BY <1>1, <1>2, HttpIsClient, AskedInductive, ReadInductive, PTL DEF HttpSpec, Spec

----------------------------------------------------------------------------
(* As long as no plugin has called SendAsync inside a receive listener after *)
(* it, the call that waits is the last: nothing will connect after its       *)
(* answer, and the request it waits with is the one the listeners refer to.  *)

AnyConnect == {ev \in Event : ev.e = "connect"}
LastCall(W) == \A i, j \in 1..Len(W) : W[i] \in GameConnect /\ W[j] \in AnyConnect => j <= i
NoConnect ==
    /\ NoneOf(ioq, PushConnect) /\ NoneOf(Waiting(events, todo), AnyConnect)
    /\ st # "starting" /\ NoneOf(todo, Announcement)
CallInv ==
    starts \notin nested =>
        /\ LastCall(Waiting(events, todo))
        /\ Active => NoneOf(Waiting(events, todo), AnyConnect)
        /\ game = "idle" \/ ret # "none" \/ ~NoneOf(todo, GameReturn) => NoConnect

LEMMA NoGameLast == ASSUME NEW W, NoneOf(W, GameConnect) PROVE LastCall(W)
  BY DEF NoneOf, LastCall

LEMMA LastIsAlone ==
  ASSUME NEW W \in Seq(Event), W # <<>>, LastCall(W)
  PROVE  LastCall(Tail(W)) /\ (Head(W) \in GameConnect => NoneOf(Tail(W), AnyConnect))
<1>1. /\ Head(W) = W[1] /\ Len(W) \in Nat \ {0} /\ Len(Tail(W)) = Len(W) - 1
      /\ \A i \in 1..Len(Tail(W)) : Tail(W)[i] = W[i + 1]
  BY HeadTailProperties, EmptySeq
<1> DEFINE n == Len(W)
           Z == Tail(W)
<1>2. n \in Nat \ {0} /\ Len(Z) = n - 1 /\ Head(W) = W[1] /\ \A i \in 1..n - 1 : i + 1 \in 1..n /\ Z[i] = W[i + 1]
  BY <1>1
<1>3. \A i, j \in 1..n : W[i] \in GameConnect /\ W[j] \in AnyConnect => j <= i
  BY DEF LastCall
<1> HIDE DEF n, Z
<1>4. LastCall(Z)
  <2> SUFFICES ASSUME NEW i \in 1..n - 1, NEW j \in 1..n - 1, Z[i] \in GameConnect, Z[j] \in AnyConnect
               PROVE  j <= i
    BY <1>2 DEF LastCall
  <2>1. i + 1 \in 1..n /\ j + 1 \in 1..n /\ W[i + 1] \in GameConnect /\ W[j + 1] \in AnyConnect
    BY <1>2
  <2>2. j + 1 <= i + 1
    BY <1>3, <2>1
  <2> QED BY <1>2, <2>2
<1>5. Head(W) \in GameConnect => NoneOf(Z, AnyConnect)
  BY <1>2, <1>3 DEF NoneOf
<1> QED BY <1>4, <1>5 DEF Z

LEMMA LastAppend ==
  ASSUME NEW W \in Seq(Event), NEW ev \in Event
  PROVE  /\ LastCall(W) /\ ev \notin AnyConnect => LastCall(Append(W, ev))
         /\ NoneOf(W, GameConnect) => LastCall(Append(W, ev))
<1>1. /\ Len(W) \in Nat /\ Len(Append(W, ev)) = Len(W) + 1
      /\ \A i \in 1..Len(W) : Append(W, ev)[i] = W[i]
      /\ Append(W, ev)[Len(W) + 1] = ev
  BY AppendProperties
<1> DEFINE n == Len(W)
           Z == Append(W, ev)
<1>2. n \in Nat /\ Len(Z) = n + 1 /\ Z[n + 1] = ev /\ \A i \in 1..n + 1 : i = n + 1 \/ (i \in 1..n /\ Z[i] = W[i])
  BY <1>1
<1> HIDE DEF Z
<1>3. GameConnect \subseteq AnyConnect
  BY DEF GameConnect, AnyConnect
<1>4. ASSUME LastCall(W), ev \notin AnyConnect PROVE LastCall(Z)
  BY <1>2, <1>3, <1>4 DEF LastCall
<1>5. ASSUME NoneOf(W, GameConnect) PROVE LastCall(Z)
  BY <1>2, <1>5 DEF LastCall, NoneOf
<1> QED BY <1>4, <1>5 DEF Z

\* The waiting connect events, while no call is made.
LEMMA ConnectWaits ==
  ASSUME PhaseInv, ClientInv', [Next]_vars, ~StartInCallback,
         NEW W, W = Waiting(events, todo), NEW Z, Z = Waiting(events', todo')
  PROVE  /\ ~HandlePush /\ NoneOf(W, AnyConnect) => NoneOf(Z, AnyConnect)
         /\ LastCall(W) /\ (HandlePush => NoneOf(W, GameConnect)) => LastCall(Z)
<1>1. ClientInv /\ PushInv
  BY DEF PhaseInv
<1>2. W \in Seq(Event)
  BY <1>1, WaitingMoves
<1> DEFINE Kept == /\ ~HandlePush /\ NoneOf(W, AnyConnect) => NoneOf(Z, AnyConnect)
                   /\ LastCall(W) /\ (HandlePush => NoneOf(W, GameConnect)) => LastCall(Z)
<1>3. ASSUME Z = W PROVE Kept
  BY <1>3
<1>4. ASSUME NEW ev \in Event, Queued(ev), Z = Append(W, ev) PROVE Kept
  <2>1. ev \in AnyConnect => HandlePush
    BY <1>4 DEF Queued, AnyConnect
  <2>2. NoneOf(Append(W, ev), AnyConnect) <=> NoneOf(W, AnyConnect) /\ ev \notin AnyConnect
    BY <1>2, PutMark
  <2> QED BY <1>2, <1>4, <2>1, <2>2, LastAppend
<1>5. ASSUME W # <<>>, Z = Tail(W) PROVE Kept
  BY <1>2, <1>5, FirstMark, LastIsAlone
<1> QED BY <1>1, <1>3, <1>4, <1>5, WaitingMoves

LEMMA NoConnectKept ==
  ASSUME PhaseInv, PhaseInv', AskedInv, [HttpNext]_hvars, [Next]_vars, ~SendAsync, ~StartInCallback, NoConnect
  PROVE  NoConnect'
<1>1. ClientInv /\ FitInv /\ ClientInv' /\ events \in Seq(Event)
  BY DEF PhaseInv, ClientInv, TypeOK
<1>2. /\ NoneOf(ioq, PushConnect) /\ NoneOf(Waiting(events, todo), AnyConnect)
      /\ st # "starting" /\ NoneOf(todo, Announcement)
  BY DEF NoConnect
<1>3. ~HandlePush /\ NoneOf(ioq', PushConnect)
  BY <1>2, PushMoves
<1>4. NoneOf(Waiting(events, todo)', AnyConnect)
  BY <1>1, <1>2, <1>3, ConnectWaits
<1>5. ASSUME RunConnect PROVE FALSE
  <2>1. events # <<>> /\ Head(events) \in AnyConnect /\ NoneOf(events, AnyConnect)
    BY <1>2, <1>5, RunConnectTakes DEF AnyConnect
  <2> QED BY <1>1, <2>1, FirstMark
<1>6. st' # "starting"
  BY <1>1, <1>2, <1>5, NoRetry, WhoStops
<1>7. ~DoneConnect
  BY <1>1, <1>2, TopFits DEF DoneConnect, Top, FrameFits, HoldingFrame, Dialling
<1>8. Announcement \subseteq ConnectFrame
  BY DEF Announcement, ConnectFrame
<1>9. NoneOf(todo', Announcement)
  BY <1>2, <1>7, <1>8, AttemptFramesKept
<1> QED BY <1>3, <1>4, <1>6, <1>9 DEF NoConnect

LEMMA CallKept ==
  ASSUME PhaseInv, PhaseInv', ReadInv, AskedInv, AnswerInv, AnswerInv', CallInv, [HttpNext]_hvars, [Next]_vars
  PROVE  CallInv'
<1> SUFFICES ASSUME starts' \notin nested'
             PROVE  /\ LastCall(Waiting(events, todo)')
                    /\ Active' => NoneOf(Waiting(events, todo)', AnyConnect)
                    /\ game' = "idle" \/ ret' # "none" \/ ~NoneOf(todo', GameReturn) => NoConnect'
  BY DEF CallInv
<1> DEFINE W == Waiting(events, todo)
<1>1. ClientInv /\ ClientInv' /\ events \in Seq(Event) /\ todo \in Seq(Frame) /\ game \in {"idle", "starting"}
      /\ starts \in Nat
  BY ClientAssumption DEF PhaseInv, ClientInv, TypeOK, AskedInv
<1>2. CASE SendAsync
  <2>1. game = "idle" /\ game' = "starting" /\ ret' = "none"
    BY <1>1, <1>2, GameSteps
  <2>2. NoneOf(ioq, PushConnect) /\ NoneOf(W, GameConnect) /\ NoneOf(todo, GameReturn) /\ ~Active
    BY <2>1 DEF AnswerInv, Nowhere
  <2>3. NoneOf(W', GameConnect) /\ ~(RunConnect /\ Head(events) \in GameConnect)
    BY <1>1, <2>2, PushMoves, GameWaits
  <2>4. ~Active' /\ NoneOf(todo', GameReturn)
    BY <1>1, <2>2, <2>3, ActiveBegins, AfterConnectTakes, ReturnMoves
  <2> QED BY <2>1, <2>3, <2>4, NoGameLast
<1>3. ASSUME ~SendAsync
      PROVE  /\ LastCall(W')
             /\ Active' => NoneOf(W', AnyConnect)
             /\ game' = "idle" \/ ret' # "none" \/ ~NoneOf(todo', GameReturn) => NoConnect'
  <2>1. ~SendAsyncInCallback /\ UNCHANGED <<starts, nested>>
    BY <1>3, ClientCaller DEF HttpNext, hvars, vars, caller, bonds, CreateRequest, CloseRequest,
       Send, SendAsyncSecure, Native, SendAsyncReturns, StartReturned, OnConnect, OnRecv, NotifyConnect, Recv, SendAsyncInCallback
  <2>2. ~StartInCallback
    BY <1>1, <2>1 DEF StartInCallback
  <2>3. /\ LastCall(W)
        /\ Active => NoneOf(W, AnyConnect)
        /\ game = "idle" \/ ret # "none" \/ ~NoneOf(todo, GameReturn) => NoConnect
    BY <2>1 DEF CallInv
  <2>4. HandlePush => ~NoneOf(ioq, PushConnect) /\ NoneOf(W, GameConnect) /\ ~Active
    BY PushMoves DEF AnswerInv
  <2>5. LastCall(W') /\ (~HandlePush /\ NoneOf(W, AnyConnect) => NoneOf(W', AnyConnect))
    BY <1>1, <2>2, <2>3, <2>4, ConnectWaits
  <2>6. ASSUME RunConnect, Head(events) \in GameConnect
        PROVE  NoneOf(ioq', PushConnect) /\ NoneOf(W', AnyConnect)
    <3>1. events # <<>> /\ W = events /\ W' = Tail(events)
      BY <2>6, RunConnectTakes
    <3>2. NoneOf(W', AnyConnect)
      BY <1>1, <2>3, <2>6, <3>1, LastIsAlone
    <3>3. ~NoneOf(W, GameConnect)
      BY <1>1, <2>6, <3>1, FirstMark
    <3>4. NoneOf(ioq', PushConnect)
      BY <1>3, <3>3, PushMoves DEF AnswerInv
    <3> QED BY <3>2, <3>4
  <2>7. ASSUME Active' PROVE NoneOf(W', AnyConnect)
    <3>1. CASE Active
      BY <2>3, <2>4, <2>5, <3>1
    <3>2. CASE ~Active
      BY <2>6, <2>7, <3>2, ActiveBegins
    <3> QED BY <3>1, <3>2
  <2>8. NoConnect => NoConnect'
    BY <1>3, <2>2, NoConnectKept
  <2>9. ASSUME NoneOf(todo, GameReturn), ~NoneOf(todo', GameReturn) PROVE NoConnect'
    <3>1. (RunConnect /\ Head(events) \in GameConnect) \/ (AfterConnect /\ chain = "game")
      BY <2>9, ReturnMoves
    <3>2. ASSUME RunConnect, Head(events) \in GameConnect PROVE NoConnect'
      <4>1. ~(todo' = Tail(todo))
        <5>1. todo # <<>>
          BY <1>1, <3>2, RunConnectTakes
        <5>2. NoneOf(Tail(todo), GameReturn)
          BY <1>1, <2>9, <5>1, FirstMark
        <5> QED BY <2>9, <5>2
      <4>2. st' # "starting" /\ NoneOf(todo', ConnectFrame)
        BY <3>2, <4>1, RunConnectTakes
      <4> QED BY <2>6, <3>2, <4>2, NoAnnouncement DEF NoConnect
    <3>3. ASSUME AfterConnect, chain = "game" PROVE NoConnect'
      <4>1. Active /\ st' # "starting" /\ NoneOf(todo', ConnectFrame)
        BY <1>1, <3>3, AfterConnectTakes
      <4>2. NoneOf(ioq, PushConnect) /\ ~HandlePush
        BY <2>4, <4>1 DEF AnswerInv
      <4>3. NoneOf(ioq', PushConnect) /\ NoneOf(W', AnyConnect)
        BY <1>3, <2>3, <2>5, <4>1, <4>2, PushMoves
      <4> QED BY <4>1, <4>3, NoAnnouncement DEF NoConnect
    <3> QED BY <3>1, <3>2, <3>3
  <2>10. ASSUME game' = "idle" \/ ret' # "none" PROVE NoConnect'
    <3>1. SetStartPromise /\ Head(todo).by = "game" => ~NoneOf(todo, GameReturn)
      BY ReturnMoves
    <3>2. game = "idle" \/ ret # "none" \/ ~NoneOf(todo, GameReturn)
      BY <1>1, <1>3, <2>10, <3>1, GameSteps, PromiseMoves
    <3> QED BY <2>3, <2>8, <3>2
  <2> QED BY <2>3, <2>5, <2>7, <2>8, <2>9, <2>10
<1> QED BY <1>2, <1>3

\* The request of the call that waits.
SendingInv ==
    game = "starting" =>
        /\ sending \in live
        /\ starts \notin nested => raw[starts] = sending

LEMMA SendingKept ==
  ASSUME HttpTypeOK, AskedInv, SendingInv, [HttpNext]_hvars PROVE SendingInv'
<1>1. CASE SendAsync
  <2>1. starts' \in Call
    BY <1>1, NewCall DEF SendAsync, HttpTypeOK
  <2>2. PICK r \in live : raw' = [raw EXCEPT ![starts'] = r] /\ sending' = r /\ live' = live
    BY <1>1 DEF SendAsync, Bind
  <2> QED BY <2>1, <2>2 DEF SendingInv, HttpTypeOK
<1>2. CASE SendAsyncInCallback
  <2>1. starts' \in nested' /\ game' = game /\ sending' = sending
    BY <1>2 DEF SendAsyncInCallback, StartInCallback
  <2>2. PICK r \in live \ {sending} : live' = live \ {r}
    BY <1>2 DEF SendAsyncInCallback
  <2> QED BY <2>1, <2>2 DEF SendingInv
<1>3. ASSUME ~SendAsync, ~SendAsyncInCallback, game' = "starting" PROVE SendingInv'
  <2>1. game = "starting"
    BY <1>3, GameSteps DEF AskedInv
  <2>2. UNCHANGED <<live, sending, raw, starts, nested>>
    BY <1>3, <2>1, ClientCaller DEF HttpNext, hvars, vars, caller, bonds, CreateRequest, CloseRequest,
       Send, SendAsyncSecure, Native, SendAsyncReturns, StartReturned, OnConnect, OnRecv, NotifyConnect, Recv
  <2> QED BY <2>1, <2>2 DEF SendingInv
<1> QED BY <1>1, <1>2, <1>3 DEF SendingInv

LEMMA CallInductive == HttpSpec => [](CallInv /\ SendingInv)
<1>1. HttpInit => CallInv /\ SendingInv
  <2> SUFFICES ASSUME HttpInit PROVE CallInv /\ SendingInv
    OBVIOUS
  <2>1. ioq = <<>> /\ todo = <<>> /\ Waiting(events, todo) = <<>> /\ st = "stopped" /\ game = "idle"
    BY DEF HttpInit, Init, Waiting
  <2> QED BY <2>1, EmptyMarks, NoGameLast DEF CallInv, SendingInv, NoConnect
<1>2. PhaseInv /\ PhaseInv' /\ ReadInv /\ AskedInv /\ AnswerInv /\ AnswerInv' /\ CallInv /\ [HttpNext]_hvars
        /\ [Next]_vars => CallInv'
  BY CallKept
<1>3. HttpTypeOK /\ AskedInv /\ SendingInv /\ [HttpNext]_hvars => SendingInv'
  BY SendingKept
<1> QED BY <1>1, <1>2, <1>3, HttpIsClient, HttpTypeSafe, AskedInductive, AnswerInductive, ReadInductive, PTL
        DEF HttpSpec, Spec

\* The connect listener of SendAsync reads its request through a captured
\* reference (native.cpp).  The request it finds is there: the game thread frees
\* it only after its start has returned, and by then nothing is left that could
\* announce a connection, unless a plugin called SendAsync inside its receive
\* function.
THEOREM RequestOutlivesStart == HttpSpec => []RequestAliveOnConnect
<1>1. HttpTypeOK /\ BoundInv /\ PoolInv /\ AskedInv /\ CallInv /\ SendingInv => RequestAliveOnConnect
  <2> SUFFICES ASSUME HttpTypeOK, BoundInv, PoolInv, AskedInv, CallInv, SendingInv, Connects, bound.connect \notin nested
               PROVE  raw[bound.connect] \in live
    BY DEF RequestAliveOnConnect
  <2>1. todo # <<>> /\ Head(todo).f = "notifyConnect" /\ Head(todo).ec = "ok" /\ todo \in Seq(Frame)
    BY DEF Connects, Top, HttpTypeOK, TypeOK
  <2>2. bound.connect = starts
    BY <2>1, ListenerBound
  <2>3. ~NoneOf(todo, Announcement)
    BY <2>1, FirstMark DEF Announcement
  <2>4. game = "starting"
    BY <2>2, <2>3 DEF CallInv, NoConnect, AskedInv
  <2> QED BY <2>2, <2>4 DEF SendingInv
<1> QED BY <1>1, CallInductive, SendAsyncInductive, AskedInductive, HttpIsClient, PoolInductive, PTL

----------------------------------------------------------------------------
(* What goes out on the wire.                                              *)

LEMMA PreparedIs ==
  ASSUME NEW m \in Message
  PROVE  /\ Prepared(m) \in Message
         /\ Prepared(m).coding # "other" => Framed(Prepared(m))
         /\ Prepared(m).coding \in {"none", "other"} /\ Prepared(m).coding \in {"none", m.coding}
         /\ Prepared(m).body = m.body /\ Prepared(m).length \in {NoLength, m.body}
<1>1. m.body \in Body /\ m.body \in Nat /\ m.coding \in Coding /\ m.length \in Body \cup {NoLength} /\ m.method \in Method
  BY MessageAssumption DEF Message
<1> DEFINE len == IF m.body > 0 \/ m.method = "POST" THEN m.body ELSE NoLength
           cod == IF m.coding = "chunked" THEN "none" ELSE m.coding
<1>2. Prepared(m) = [m EXCEPT !.length = len, !.coding = cod]
  BY DEF Prepared
<1>3. len \in {NoLength, m.body} /\ (len # m.body => m.body = 0)
  BY <1>1
<1>4. cod \in {"none", "other"} /\ cod \in {"none", m.coding}
  BY <1>1 DEF Coding
<1> HIDE DEF len, cod
<1>5. len \in Body \cup {NoLength} /\ cod \in Coding
  BY <1>1, <1>3, <1>4 DEF Coding
<1>6. /\ Prepared(m) \in Message /\ Prepared(m).body = m.body
      /\ Prepared(m).length = len /\ Prepared(m).coding = cod
  BY <1>2, <1>5 DEF Message
<1>7. Prepared(m).coding # "other" => Framed(Prepared(m))
  BY <1>1, <1>3, <1>4, <1>6 DEF Framed
<1>8. m.body > 0 => len # NoLength
  BY <1>1, <1>3, MessageAssumption
<1> QED BY <1>3, <1>4, <1>6, <1>7, <1>8

\* As long as the plugin has set nothing that Prepare puts right, the message is
\* not coded and its length, if there is one, is its body's.
FramingInv ==
    /\ "coding" \notin edits => message.coding = "none"
    /\ edits = {} => message.length \in {NoLength, message.body}
    /\ prepared /\ edits = {} => Framed(message)
    /\ onWire # Nothing => onWire = [by |-> "Send", as |-> message]
                           \/ onWire = [by |-> "SendAsync", as |-> Checked(message)]

LEMMA FramingKept ==
  ASSUME MessageTypeOK, FramingInv, [MessageNext]_mvars PROVE MessageTypeOK' /\ FramingInv'
<1>1. CASE SetMethod
  BY <1>1 DEF SetMethod, Editing, MessageTypeOK, FramingInv, Message, Framed
<1>2. CASE SetHeader
  BY <1>2 DEF SetHeader, Editing, MessageTypeOK, FramingInv, Message, Coding
<1>3. CASE SetBodyText
  BY <1>3 DEF SetBodyText, Editing, MessageTypeOK, FramingInv, Message
<1>4. CASE Prepare
  <2>1. CASE Refused(message)
    BY <1>4, <2>1 DEF Prepare, MessageTypeOK, FramingInv
  <2>2. ASSUME ~Refused(message) PROVE MessageTypeOK' /\ FramingInv'
    <3>1. /\ message' = Prepared(message) /\ prepared' = TRUE /\ onWire = Nothing /\ UNCHANGED <<onWire, died>>
          /\ edits' = IF message'.coding = "other" THEN edits \cap {"coding"} ELSE {}
      BY <1>4, <2>2 DEF Prepare
    <3>2. message \in Message
      BY DEF MessageTypeOK
    <3>3. /\ message' \in Message /\ message'.coding \in {"none", "other"} /\ message'.coding \in {"none", message.coding}
          /\ message'.length \in {NoLength, message'.body} /\ (message'.coding # "other" => Framed(message'))
      BY <3>1, <3>2, PreparedIs
    <3> QED BY <3>1, <3>3 DEF MessageTypeOK, FramingInv
  <2> QED BY <2>1, <2>2
<1>5. CASE Execute \/ AsyncSend
  <2>1. Checked(message) \in Message
    BY PreparedIs DEF Checked, MessageTypeOK
  <2>2. UNCHANGED <<message, prepared, edits, died>>
    BY <1>5 DEF Execute, AsyncSend
  <2>3. \/ onWire' = [by |-> "Send", as |-> message]
        \/ onWire' = [by |-> "SendAsync", as |-> Checked(message)]
    BY <1>5 DEF Execute, AsyncSend
  <2>4. message \in Message
    BY DEF MessageTypeOK
  <2>5. onWire' \in [by : Way, as : Message]
    BY <2>1, <2>3, <2>4 DEF Way
  <2>6. MessageTypeOK'
    BY <2>2, <2>5 DEF MessageTypeOK
  <2>7. Checked(message)' = Checked(message)
    BY <2>2 DEF Checked
  <2>8. FramingInv'
    BY <2>2, <2>3, <2>7 DEF FramingInv
  <2> QED BY <2>6, <2>8
<1>6. CASE UNCHANGED mvars
  BY <1>6 DEF mvars, MessageTypeOK, FramingInv
<1> QED BY <1>1, <1>2, <1>3, <1>4, <1>5, <1>6 DEF MessageNext

\* A message and what became of it keep their types.
THEOREM MessageTypeSafe == MessageSpec => [](MessageTypeOK /\ FramingInv)
<1>1. MessageInit => MessageTypeOK /\ FramingInv
  <2>1. NewMessage \in Message
    BY MessageAssumption DEF NewMessage, Message, Method, Coding
  <2>2. NewMessage.coding = "none" /\ NewMessage.length = NoLength
    BY DEF NewMessage
  <2> QED BY <2>1, <2>2 DEF MessageInit, MessageTypeOK, FramingInv
<1>2. MessageTypeOK /\ FramingInv /\ [MessageNext]_mvars => MessageTypeOK' /\ FramingInv'
  BY FramingKept
<1> QED BY <1>1, <1>2, PTL DEF MessageSpec

\* What SendAsync writes can be taken apart (_check_http_message, http_send_op.hpp),
\* and what Send writes after Prepare, whatever was set before and in which order:
\* a header the plugin set to frame the message itself, and a body behind a length,
\* are what can break it, and a TRACE with a body.
THEOREM MessagesAreFramed == MessageSpec => []FramedOnWire
<1>1. MessageTypeOK /\ FramingInv => FramedOnWire
  <2> SUFFICES ASSUME MessageTypeOK, FramingInv, onWire # Nothing, edits = {}
               PROVE  /\ onWire.by = "SendAsync" => Framed(onWire.as) \/ Refused(onWire.as)
                      /\ onWire.by = "Send" /\ prepared => Framed(onWire.as)
    BY DEF FramedOnWire
  <2>1. message \in Message /\ message.coding = "none" /\ message.length \in {NoLength, message.body}
    BY DEF MessageTypeOK, FramingInv
  <2>2. Framed(Checked(message)) \/ Refused(Checked(message))
    BY <2>1, PreparedIs DEF Checked, Framed
  <2>3. prepared => Framed(message)
    BY DEF FramingInv
  <2> QED BY <2>2, <2>3 DEF FramingInv
<1> QED BY <1>1, MessageTypeSafe, PTL
=============================================================================
