---------------------------- MODULE Asio2Client ----------------------------
(***************************************************************************)
(* The life cycle of one asio2 client (src/src/common/asio2): http_client  *)
(* under SendAsync, ws_client under the WebSocket natives.                 *)
(*                                                                         *)
(* Two threads.  The game thread calls start and stop; everything else     *)
(* runs on the client's one io thread, which takes completed handlers from *)
(* asio's queue (ioq) in completion order.  A handler may run several      *)
(* library functions inside one another; todo is what is left of that call *)
(* stack, and each action runs its top frame, so the game thread reads the *)
(* shared state between any two of them.                                   *)
(*                                                                         *)
(* The library serialises connecting, sending and stopping in an event     *)
(* queue (event_queue_cp.hpp): the front event holds a guard, which        *)
(* travels with its asynchronous operations; when the guard is destroyed   *)
(* the event is popped and the next one runs.                              *)
(***************************************************************************)
EXTENDS Integers, Sequences, FiniteSets

CONSTANTS
    Endpoints,      \* how many addresses the host name resolves to
    AutoReconnect,  \* reconnect_enable_
    WebSocket,      \* ws_client: an upgrade follows the connect, a close handshake ends it
    SyncStart,      \* start() waits for the connection, async_start() does not
    SendOnConnect,  \* the connect callback calls async_send
    StopOnRecv,     \* the receive callback calls stop
    StartOnRecv,    \* the receive callback may call start before that
    MaxStarts,      \* bound: calls of start
    MaxAttempts,    \* bound: connection attempts, reconnections included
    MaxRecvs        \* bound: messages received

ASSUME ClientAssumption ==
    /\ Endpoints \in Nat \ {0}
    /\ AutoReconnect \in BOOLEAN /\ WebSocket \in BOOLEAN /\ SyncStart \in BOOLEAN
    /\ SendOnConnect \in BOOLEAN /\ StopOnRecv \in BOOLEAN /\ StartOnRecv \in BOOLEAN
    /\ MaxStarts \in Nat /\ MaxAttempts \in Nat /\ MaxRecvs \in Nat

VARIABLES
    st,         \* state_, atomic, read by both threads
    events,     \* events_: the queue, its front holding the guard
    todo,       \* frames left on the io thread's stack, top first
    ioq,        \* completed handlers, oldest first
    op,         \* operations not yet completed: a resolve, a connect to endpoint ep or an
                \* upgrade, reads (the last posted by attempt on), writes, and the close
                \* handshake of a disconnect; and ws, the WebSocket stream is open
    sockOpen,   \* socket().is_open()
    attempt,    \* connection attempts so far; the number of the current one
    chain,      \* whose attempt it is: a caller of start, or "reconnect"
    ctimer,     \* connect_timeout_timer_; id 0 is the null pointer
    rtimer,     \* reconnect_timer_; id 0 is the null pointer
    dtimer,     \* the attempt whose disconnect_timer_ is running, or 0
    pool,       \* the iopool: "down", "up", "closing" (stopped_ set, threads run)
    game,       \* what the game thread is waiting for
    ret,        \* value of the promise it waits on, or "none"
    starts, recvs,  \* calls and messages counted against the bounds
    linked,     \* history: connect succeeded was notified, disconnect was not
    wanted,     \* history: a start took effect and no stop has since
    host        \* host_ and port_: those of the start that last took effect, 0 at first

vars == <<st, events, todo, ioq, op, sockOpen, attempt, chain, ctimer, rtimer, dtimer,
          pool, game, ret, starts, recvs, linked, wanted, host>>
timers == <<ctimer, rtimer, dtimer>>
caller == <<pool, game, starts>>

State   == {"stopped", "stopping", "starting", "started"}
Failure == {"refused", "aborted", "timed_out"}
Caller  == {"game", "io"}
Attempt == Nat

Event == [e : {"send"}] \cup [e : {"connect"}, by : Caller, to : 1..MaxStarts]
    \cup [e : {"stop"}, by : Caller] \cup [e : {"disconnect"}, old : State] \cup [e : {"reconnect"}, id : Attempt]

Frame == [f : {"run", "release", "recv", "postRecv"}]
    \cup [f : {"done", "notifyConnect", "afterConnect"}, ec : Failure \cup {"ok"}]
    \cup [f : {"startReturns"}, by : Caller, value : {"ok", "failed", "already_started"}]
    \cup [f : {"stopReturns"}, by : Caller]
    \cup [f : {"disconnect"}, old : State, by : Caller \cup {"none"}]
    \cup [f : {"disconnected"}, by : Caller \cup {"none"}]

Handler == [h : {"push"}, ev : Event]
    \cup [h : {"resolved", "connected", "upgraded"}, ec : Failure \cup {"ok"}]
    \cup [h : {"written"}, ok : BOOLEAN]
    \cup [h : {"read"}, ok : BOOLEAN, on : Attempt]
    \cup [h : {"ctimer", "rtimer"}, id : Attempt, expired : BOOLEAN]
    \cup [h : {"dtimer"}, id : Attempt] \cup [h : {"control"}]
    \cup [h : {"closed"}, by : Caller \cup {"none"}]

TypeOK ==
    /\ st \in State
    /\ events \in Seq(Event) /\ todo \in Seq(Frame) /\ ioq \in Seq(Handler)
    /\ op \in [dial : {"none", "resolve", "connect", "upgrade"}, ep : 1..Endpoints,
             read : Nat, on : Attempt, write : Nat,
             close : Caller \cup {"none", "no"}, ws : BOOLEAN]
    /\ sockOpen \in BOOLEAN /\ attempt \in Attempt /\ chain \in Caller \cup {"reconnect"}
    /\ ctimer \in [id : Attempt, waiting : BOOLEAN, canceled : BOOLEAN]
    /\ rtimer \in [id : Attempt, wait : {"none", "never", "delay"}, canceled : BOOLEAN]
    /\ dtimer \in Attempt
    /\ pool \in {"down", "up", "closing"}
    /\ game \in {"idle", "starting", "stopping", "joining"}
    /\ ret \in {"none", "ok", "failed", "already_started"} \cup State
    /\ starts \in 0..MaxStarts /\ recvs \in 0..MaxRecvs
    /\ linked \in BOOLEAN /\ wanted \in BOOLEAN /\ host \in 0..MaxStarts

Init ==
    /\ st = "stopped" /\ events = <<>> /\ todo = <<>> /\ ioq = <<>>
    /\ op = [dial |-> "none", ep |-> 1, read |-> 0, on |-> 0, write |-> 0,
            close |-> "no", ws |-> FALSE]
    /\ sockOpen = FALSE /\ attempt = 0 /\ chain = "game"
    /\ ctimer = [id |-> 0, waiting |-> FALSE, canceled |-> FALSE]
    /\ rtimer = [id |-> 0, wait |-> "none", canceled |-> FALSE]
    /\ dtimer = 0
    /\ pool = "down" /\ game = "idle" /\ ret = "none"
    /\ starts = 0 /\ recvs = 0
    /\ linked = FALSE /\ wanted = FALSE /\ host = 0

(***************************************************************************)
(* Frames and handlers.                                                    *)
(***************************************************************************)
Run     == [f |-> "run"]
Release == [f |-> "release"]
Top(f)  == todo # <<>> /\ Head(todo).f = f
Then(fs) == todo' = fs \o Tail(todo)

Ready(h) == todo = <<>> /\ ioq # <<>> /\ Head(ioq).h = h
Handled  == ioq' = Tail(ioq)

IsStarted == st = "started" /\ sockOpen

PostRead == op' = [op EXCEPT !.read = @ + 1, !.on = attempt]

\* What closing or cancelling completes, in the order of asio's reactor.
AbortedReads  == [i \in 1..op.read |-> [h |-> "read", ok |-> FALSE, on |-> op.on]]
AbortedWrites == [i \in 1..op.write |-> [h |-> "written", ok |-> FALSE]]
AbortedDial   ==
    CASE op.dial = "connect" -> <<[h |-> "connected", ec |-> "aborted"]>>
      [] op.dial = "upgrade" -> <<[h |-> "upgraded", ec |-> "aborted"]>>
      [] OTHER -> <<>>

\* A WebSocket stream has failed with the read or write that was aborted.
Aborted == [op EXCEPT !.read = 0, !.write = 0, !.ws = @ /\ op.read + op.write = 0]

\* The connect timer's handler closes the socket.
CloseSocket ==
    /\ sockOpen' = FALSE
    /\ ioq' = Tail(ioq) \o AbortedReads \o AbortedDial \o AbortedWrites
    /\ op' = [Aborted EXCEPT !.dial = IF @ \in {"connect", "upgrade"} THEN "none" ELSE @]

(***************************************************************************)
(* The event queue.                                                        *)
(***************************************************************************)
\* push_event on the io thread, followed by the frames fs.
Push(ev, fs) ==
    /\ events' = Append(events, ev)
    /\ todo' = (IF events = <<>> THEN <<Run>> ELSE <<>>) \o fs

\* push_event from the game thread reaches the io thread as a handler.
Posted(ev) == [h |-> "push", ev |-> ev]

HandlePush ==
    /\ Ready("push") /\ Handled
    /\ Push(Head(ioq).ev, <<>>)
    /\ UNCHANGED <<st, op, sockOpen, attempt, chain, timers, caller, ret, recvs, linked, wanted, host>>

\* Mutant: the event is popped and the next one left waiting.
NextEventIdle ==
    /\ Top("release")
    /\ events' = Tail(events)
    /\ Then(<<>>)
    /\ UNCHANGED <<st, ioq, op, sockOpen, attempt, chain, timers, caller, ret, recvs, linked, wanted, host>>

\* ~event_queue_guard, next_event: pop, and run the next event if there is one.
NextEvent ==
    /\ Top("release")
    /\ events' = Tail(events)
    /\ Then(IF Len(events) > 1 THEN <<Run>> ELSE <<>>)
    /\ UNCHANGED <<st, ioq, op, sockOpen, attempt, chain, timers, caller, ret, recvs, linked, wanted, host>>

RunNow(e) == Top("run") /\ Head(events).e = e

(***************************************************************************)
(* Disconnecting (disconnect_cp.hpp).                                      *)
(***************************************************************************)
Connected == st \in {"started", "starting"}

Disconnecting(by) == [f |-> "disconnect", old |-> st, by |-> by]

\* _do_disconnect by the holder of the guard: the rest runs in place.
DisconnectInPlace(by, otherwise, fs) ==
    IF Connected
        THEN st' = "stopping" /\ dtimer' = attempt /\ Then(<<Disconnecting(by)>> \o fs)
        ELSE UNCHANGED <<st, dtimer>> /\ Then(otherwise \o fs)

\* Mutant: the old state is read after it was exchanged.
DisconnectQueuedLate(fs) ==
    IF Connected
        THEN st' = "stopping" /\ dtimer' = attempt /\ Push([e |-> "disconnect", old |-> st'], fs)
        ELSE UNCHANGED <<st, dtimer, events>> /\ todo' = fs

\* _do_disconnect without a guard: the rest waits its turn in the queue.
DisconnectQueued(fs) ==
    IF Connected
        THEN st' = "stopping" /\ dtimer' = attempt /\ Push([e |-> "disconnect", old |-> st], fs)
        ELSE UNCHANGED <<st, dtimer, events>> /\ todo' = fs

RunDisconnect ==
    /\ RunNow("disconnect")
    /\ Then(<<[f |-> "disconnect", old |-> Head(events).old, by |-> "none"]>>)
    /\ UNCHANGED <<st, events, ioq, op, sockOpen, attempt, chain, timers, caller, ret, recvs,
                   linked, wanted, host>>

CancelReconnect == rtimer' = [rtimer EXCEPT !.wait = "none", !.canceled = TRUE]

\* The callback of _post_disconnect: the state, the disconnect notification,
\* and _handle_disconnect, which for an open WebSocket begins with _ws_stop: it
\* sends a close frame and waits for the peer's.
Disconnect ==
    LET frame == Head(todo) IN
    /\ Top("disconnect")
    /\ st' = IF st = "stopping" THEN "stopped" ELSE st
    /\ linked' = (linked /\ ~ (st = "stopping" /\ frame.old = "started"))
    /\ dtimer' = 0
    /\ IF op.ws
        THEN op' = [op EXCEPT !.close = frame.by] /\ Then(<<>>)
        ELSE Then(<<[f |-> "disconnected", by |-> frame.by]>>) /\ UNCHANGED op
    /\ UNCHANGED <<events, ioq, sockOpen, attempt, chain, ctimer, rtimer, caller, ret, recvs, wanted, host>>

\* The close handshake is over, or has failed.
HandleClosed ==
    /\ Ready("closed") /\ Handled
    /\ todo' = <<[f |-> "disconnected", by |-> Head(ioq).by]>>
    /\ UNCHANGED <<st, events, op, sockOpen, attempt, chain, timers, caller, ret, recvs, linked, wanted, host>>

\* Mutant: _handle_disconnect leaves the socket open.
HandleDisconnectKeepsSocket ==
    LET by    == Head(todo).by
        wakes == by = "none" /\ AutoReconnect /\ rtimer.wait # "none"
    IN
    /\ Top("disconnected")
    /\ ioq' = IF wakes THEN Append(ioq, [h |-> "rtimer", id |-> rtimer.id, expired |-> FALSE]) ELSE ioq
    /\ IF wakes THEN rtimer' = [rtimer EXCEPT !.wait = "none"] ELSE CancelReconnect
    /\ Then(IF by = "none" THEN <<Release>> ELSE <<[f |-> "stopReturns", by |-> by]>>)
    /\ UNCHANGED <<st, events, op, sockOpen, attempt, chain, ctimer, dtimer, caller, ret, recvs,
                   linked, wanted, host>>

\* tcp_client's _handle_disconnect closes the socket; then the end of the
\* chain: _do_stop for a stop, else _wake_ or _stop_reconnect_timer.
HandleDisconnect ==
    LET by    == Head(todo).by
        wakes == by = "none" /\ AutoReconnect /\ rtimer.wait # "none"
        woken == [h |-> "rtimer", id |-> rtimer.id, expired |-> FALSE]
    IN
    /\ Top("disconnected")
    /\ sockOpen' = FALSE
    /\ op' = Aborted
    /\ ioq' = ioq \o AbortedReads \o AbortedWrites \o (IF wakes THEN <<woken>> ELSE <<>>)
    /\ CASE wakes -> rtimer' = [rtimer EXCEPT !.wait = "none"]
         [] by = "none" /\ ~AutoReconnect -> CancelReconnect
         [] OTHER -> UNCHANGED rtimer
    /\ Then(IF by = "none" THEN <<Release>> ELSE <<[f |-> "stopReturns", by |-> by]>>)
    /\ UNCHANGED <<st, events, attempt, chain, ctimer, dtimer, caller, ret, recvs, linked, wanted, host>>

\* Ten milliseconds have passed: shut down and cancel the socket, again and
\* again, until the pending write gives the guard back.
HandleDisconnectTimer ==
    /\ Ready("dtimer")
    /\ IF Head(ioq).id = dtimer
        THEN /\ ioq' = Tail(ioq) \o AbortedReads \o AbortedWrites
             /\ op' = Aborted
        ELSE Handled /\ UNCHANGED op
    /\ UNCHANGED <<st, events, todo, sockOpen, attempt, chain, timers, caller, ret, recvs,
                   linked, wanted, host>>

(***************************************************************************)
(* Connecting (tcp_client.hpp _do_connect, connect_cp.hpp).                *)
(***************************************************************************)
\* Mutant: no connect timer.
StartConnectUntimed(c) ==
    /\ st' = "starting"
    /\ attempt' = attempt + 1
    /\ chain' = c
    /\ rtimer' = [id |-> attempt', wait |-> "never", canceled |-> FALSE]
    /\ ctimer' = [id |-> attempt', waiting |-> FALSE, canceled |-> FALSE]
    /\ op' = [op EXCEPT !.dial = "resolve"]
    /\ Then(<<>>)

\* _start_connect: new timers, then resolve.  A timer replaced is cancelled.
StartConnect(c) ==
    /\ st' = "starting"
    /\ attempt' = attempt + 1
    /\ chain' = c
    /\ rtimer' = [id |-> attempt', wait |-> "never", canceled |-> FALSE]
    /\ ctimer' = [id |-> attempt', waiting |-> TRUE, canceled |-> FALSE]
    /\ op' = [op EXCEPT !.dial = "resolve"]
    /\ Then(<<>>)

StartReturns(by, v) == <<[f |-> "startReturns", by |-> by, value |-> v]>>
ChainReturns(v) == IF chain = "reconnect" THEN <<>> ELSE StartReturns(chain, v)

\* Mutant: host_ and port_ are stored whether or not the start takes effect.
RunConnectStoresFirst ==
    LET by == Head(events).by IN
    /\ RunNow("connect")
    /\ host' = Head(events).to
    /\ IF st = "stopped"
        THEN StartConnect(by) /\ wanted' = TRUE
        ELSE /\ Then(StartReturns(by, "already_started") \o <<Release>>)
             /\ UNCHANGED <<st, attempt, chain, ctimer, rtimer, op, wanted>>
    /\ UNCHANGED <<events, ioq, sockOpen, dtimer, caller, ret, recvs, linked>>

RunConnect ==
    LET by == Head(events).by IN
    /\ RunNow("connect")
    /\ IF st = "stopped"
        THEN StartConnect(by) /\ wanted' = TRUE /\ host' = Head(events).to
        ELSE /\ Then(StartReturns(by, "already_started") \o <<Release>>)
             /\ UNCHANGED <<st, attempt, chain, ctimer, rtimer, op, wanted, host>>
    /\ UNCHANGED <<events, ioq, sockOpen, dtimer, caller, ret, recvs, linked>>

\* Mutant: only a newer timer invalidates the event, not a stop.
CanceledById(id) == id # rtimer.id

\* The reconnect event holds the timer it was pushed by.
Canceled(id) == id # rtimer.id \/ rtimer.canceled

RunReconnect ==
    /\ RunNow("reconnect")
    /\ IF ~Canceled(Head(events).id) /\ st = "stopped"
        THEN StartConnect("reconnect")
        ELSE /\ Then(<<Release>>)
             /\ UNCHANGED <<st, attempt, chain, ctimer, rtimer, op>>
    /\ UNCHANGED <<events, ioq, sockOpen, dtimer, caller, ret, recvs, linked, wanted, host>>

\* connect_timeout_timer_ is empty: its handler has run.
TimedOut == ctimer.id = 0

Done(ec) == todo' = <<[f |-> "done", ec |-> ec]>>

\* Mutant: one endpoint too many.
PostConnectTooFar(n, ec) ==
    IF n > Endpoints + 1
        THEN Done(ec) /\ UNCHANGED <<op, sockOpen>>
        ELSE /\ op' = [op EXCEPT !.dial = "connect", !.ep = n]
             /\ sockOpen' = TRUE
             /\ todo' = <<>>

\* _post_connect: dial endpoint n, or give up after the last one.
PostConnect(n, ec) ==
    IF n > Endpoints
        THEN Done(ec) /\ UNCHANGED <<op, sockOpen>>
        ELSE /\ op' = [op EXCEPT !.dial = "connect", !.ep = n]
             /\ sockOpen' = TRUE
             /\ todo' = <<>>

HandleResolved ==
    LET ec == IF TimedOut THEN "timed_out" ELSE Head(ioq).ec IN
    /\ Ready("resolved") /\ Handled
    /\ IF ec = "ok" THEN PostConnect(1, ec) ELSE Done(ec) /\ UNCHANGED <<op, sockOpen>>
    /\ UNCHANGED <<st, events, attempt, chain, timers, caller, ret, recvs, linked, wanted, host>>

\* A WebSocket is upgraded first: the request fails at once on a closed socket.
PostUpgrade ==
    /\ IF sockOpen
        THEN op' = [op EXCEPT !.dial = "upgrade"] /\ Handled
        ELSE ioq' = Append(Tail(ioq), [h |-> "upgraded", ec |-> "aborted"]) /\ UNCHANGED op
    /\ UNCHANGED <<todo, sockOpen>>

HandleConnected ==
    LET ec == Head(ioq).ec IN
    /\ Ready("connected")
    /\ CASE ec = "refused" -> PostConnect(op.ep + 1, ec) /\ Handled
         [] ec = "ok" /\ WebSocket /\ st = "starting" -> PostUpgrade
         [] OTHER -> Done(ec) /\ Handled /\ UNCHANGED <<op, sockOpen>>
    /\ UNCHANGED <<st, events, attempt, chain, timers, caller, ret, recvs, linked, wanted, host>>

HandleUpgraded ==
    /\ Ready("upgraded") /\ Handled
    /\ Done(Head(ioq).ec)
    /\ UNCHANGED <<st, events, op, sockOpen, attempt, chain, timers, caller, ret, recvs, linked, wanted, host>>

\* _done_connect up to the connect notification.
DoneConnect ==
    LET error == IF TimedOut THEN "timed_out" ELSE Head(todo).ec
        ec    == IF error = "ok" /\ st # "starting" THEN "aborted" ELSE error
    IN
    /\ Top("done")
    /\ st' = IF ec = "ok" THEN "started" ELSE st
    /\ Then(<<[f |-> "notifyConnect", ec |-> ec], [f |-> "afterConnect", ec |-> ec]>>)
    /\ UNCHANGED <<events, ioq, op, sockOpen, attempt, chain, timers, caller, ret, recvs,
                   linked, wanted, host>>

\* _fire_connect: the callback SendAsync binds sends the request.
NotifyConnect ==
    LET ok == Head(todo).ec = "ok" /\ st # "stopped" IN
    /\ Top("notifyConnect")
    /\ linked' = (linked \/ ok)
    /\ events' = IF ok /\ SendOnConnect /\ IsStarted THEN Append(events, [e |-> "send"]) ELSE events
    /\ Then(<<>>)
    /\ UNCHANGED <<st, ioq, op, sockOpen, attempt, chain, timers, caller, ret, recvs, wanted, host>>

\* _stop_connect_timeout_timer
CancelConnectTimer(queue) ==
    /\ ctimer' = [ctimer EXCEPT !.waiting = FALSE, !.canceled = TRUE]
    /\ ioq' = IF ctimer.waiting
                THEN Append(queue, [h |-> "ctimer", id |-> ctimer.id, expired |-> FALSE])
                ELSE queue

\* The rest of _done_connect: start receiving, or disconnect again.  On
\* success the promise of start() is set before the guard is destroyed; on
\* failure only after it.
AfterConnect ==
    LET ok == Head(todo).ec = "ok" /\ st = "started" IN
    /\ Top("afterConnect")
    /\ CancelConnectTimer(ioq)
    /\ IF ok
        THEN /\ PostRead
             /\ Then(ChainReturns("ok") \o <<Release>>)
             /\ UNCHANGED <<st, dtimer>>
        ELSE /\ DisconnectInPlace("none", <<Release>>, ChainReturns("failed"))
             /\ UNCHANGED op
    /\ UNCHANGED <<events, sockOpen, attempt, chain, rtimer, caller, ret, recvs, linked, wanted, host>>

\* The promise of _do_connect.
SetStartPromise ==
    /\ Top("startReturns")
    /\ ret' = IF game = "starting" /\ Head(todo).by = "game" THEN Head(todo).value ELSE ret
    /\ Then(<<>>)
    /\ UNCHANGED <<st, events, ioq, op, sockOpen, attempt, chain, timers, caller, recvs,
                   linked, wanted, host>>

\* Mutant: the canceled flag of the timer is not looked at.
HandleConnectTimerUnflagged ==
    /\ Ready("ctimer")
    /\ IF Head(ioq).id # ctimer.id
        THEN Handled /\ UNCHANGED <<ctimer, sockOpen, op>>
        ELSE /\ ctimer' = [ctimer EXCEPT !.id = 0, !.waiting = FALSE]
             /\ IF Head(ioq).expired
                 THEN CloseSocket
                 ELSE Handled /\ UNCHANGED <<sockOpen, op>>
    /\ UNCHANGED <<st, events, todo, attempt, chain, rtimer, dtimer, caller, ret, recvs,
                   linked, wanted, host>>

\* _handle_connect_timeout_timer
HandleConnectTimer ==
    /\ Ready("ctimer")
    /\ IF Head(ioq).id # ctimer.id
        THEN Handled /\ UNCHANGED <<ctimer, sockOpen, op>>
        ELSE /\ ctimer' = [ctimer EXCEPT !.id = 0, !.waiting = FALSE]
             /\ IF Head(ioq).expired /\ ~ctimer.canceled
                 THEN CloseSocket
                 ELSE Handled /\ UNCHANGED <<sockOpen, op>>
    /\ UNCHANGED <<st, events, todo, attempt, chain, rtimer, dtimer, caller, ret, recvs,
                   linked, wanted, host>>

(***************************************************************************)
(* Reconnecting (reconnect_timer_cp.hpp).                                  *)
(***************************************************************************)
\* Mutant: woken, the timer is armed for ever instead of for the delay.
HandleReconnectTimerNever ==
    LET id == Head(ioq).id IN
    /\ Ready("rtimer") /\ Handled
    /\ IF Canceled(id) THEN UNCHANGED rtimer ELSE rtimer' = [rtimer EXCEPT !.wait = "never"]
    /\ IF ~Canceled(id) /\ Head(ioq).expired
        THEN Push([e |-> "reconnect", id |-> id], <<>>)
        ELSE UNCHANGED <<events, todo>>
    /\ UNCHANGED <<st, op, sockOpen, attempt, chain, ctimer, dtimer, caller, ret, recvs,
                   linked, wanted, host>>

\* _handle_reconnect_timer: woken by a disconnect, or expired.
HandleReconnectTimer ==
    LET id == Head(ioq).id IN
    /\ Ready("rtimer") /\ Handled
    /\ CASE Canceled(id) ->
                UNCHANGED <<rtimer, events, todo>>
         [] ~Canceled(id) /\ ~Head(ioq).expired ->
                /\ rtimer' = [rtimer EXCEPT !.wait = "delay"]
                /\ UNCHANGED <<events, todo>>
         [] OTHER ->
                /\ rtimer' = [rtimer EXCEPT !.wait = "never"]
                /\ Push([e |-> "reconnect", id |-> id], <<>>)
    /\ UNCHANGED <<st, op, sockOpen, attempt, chain, ctimer, dtimer, caller, ret, recvs,
                   linked, wanted, host>>

(***************************************************************************)
(* Sending and receiving (http_send_op.hpp, http_recv_op.hpp).             *)
(***************************************************************************)
\* The write completes at once, with an error, on a closed socket.
RunSend ==
    /\ RunNow("send")
    /\ IF sockOpen
        THEN op' = [op EXCEPT !.write = @ + 1] /\ UNCHANGED ioq
        ELSE ioq' = Append(ioq, [h |-> "written", ok |-> FALSE]) /\ UNCHANGED op
    /\ Then(<<>>)
    /\ UNCHANGED <<st, events, sockOpen, attempt, chain, timers, caller, ret, recvs, linked, wanted, host>>

\* Mutant: a failed write takes its guard with it.
HandleWrittenKeepsGuard ==
    /\ Ready("written") /\ Handled
    /\ IF ~Head(ioq).ok /\ st = "started"
        THEN DisconnectQueued(<<>>)
        ELSE todo' = <<Release>> /\ UNCHANGED <<st, dtimer, events>>
    /\ UNCHANGED <<op, sockOpen, attempt, chain, ctimer, rtimer, caller, ret, recvs, linked, wanted, host>>

\* The handler looks at the error first; its guard is destroyed with it.
HandleWritten ==
    /\ Ready("written") /\ Handled
    /\ IF ~Head(ioq).ok /\ st = "started"
        THEN DisconnectQueued(<<Release>>)
        ELSE todo' = <<Release>> /\ UNCHANGED <<st, dtimer, events>>
    /\ UNCHANGED <<op, sockOpen, attempt, chain, ctimer, rtimer, caller, ret, recvs, linked, wanted, host>>

\* _handle_control_close: the callback the stream calls for the peer's close
\* frame, inside its read.
HandleControl ==
    /\ Ready("control") /\ Handled
    /\ IF st = "started"
        THEN DisconnectQueued(<<>>)
        ELSE UNCHANGED <<st, dtimer, events, todo>>
    /\ UNCHANGED <<op, sockOpen, attempt, chain, ctimer, rtimer, caller, ret, recvs, linked, wanted, host>>

HandleRead ==
    LET bad == ~Head(ioq).ok IN
    /\ Ready("read") /\ Handled
    /\ CASE IsStarted /\ ~bad ->
                todo' = <<[f |-> "recv"], [f |-> "postRecv"]>> /\ UNCHANGED <<st, dtimer, events>>
         [] st = "started" /\ (bad \/ ~sockOpen) -> DisconnectQueued(<<>>)
         [] OTHER -> UNCHANGED <<st, dtimer, events, todo>>
    /\ UNCHANGED <<op, sockOpen, attempt, chain, ctimer, rtimer, caller, ret, recvs, linked, wanted, host>>

\* _fire_recv: the callback SendAsync binds ends with stop(), which does not
\* wait on the io thread.
Recv ==
    /\ Top("recv")
    /\ IF StopOnRecv /\ pool = "up"
        THEN Push([e |-> "stop", by |-> "io"], Tail(todo))
        ELSE Then(<<>>) /\ UNCHANGED events
    /\ UNCHANGED <<st, ioq, op, sockOpen, attempt, chain, timers, caller, ret, recvs, linked, wanted, host>>

\* start called inside the receive callback, on the io thread: it does not
\* wait, and the callback goes on.
StartInCallback ==
    /\ Top("recv") /\ StartOnRecv /\ starts < MaxStarts /\ pool = "up"
    /\ starts' = starts + 1
    /\ Push([e |-> "connect", by |-> "io", to |-> starts'], todo)
    /\ UNCHANGED <<st, ioq, op, sockOpen, attempt, chain, timers, pool, game, ret, recvs,
                   linked, wanted, host>>

\* Mutant: the next read is posted whatever the callback has done.
PostRecvUnasked ==
    /\ Top("postRecv")
    /\ PostRead
    /\ Then(<<>>)
    /\ UNCHANGED <<st, dtimer, events, ioq, sockOpen, attempt, chain, ctimer, rtimer, caller, ret,
                   recvs, linked, wanted, host>>

\* _http_post_recv
PostRecv ==
    /\ Top("postRecv")
    /\ CASE IsStarted ->
                /\ PostRead
                /\ Then(<<>>)
                /\ UNCHANGED <<st, dtimer, events>>
         [] st = "started" /\ ~sockOpen -> DisconnectQueued(Tail(todo)) /\ UNCHANGED op
         [] OTHER -> Then(<<>>) /\ UNCHANGED <<op, st, dtimer, events>>
    /\ UNCHANGED <<ioq, sockOpen, attempt, chain, ctimer, rtimer, caller, ret, recvs, linked, wanted, host>>

(***************************************************************************)
(* Stopping (tcp_client.hpp stop).                                         *)
(***************************************************************************)
RunStop ==
    LET by == Head(events).by IN
    /\ RunNow("stop")
    /\ CancelReconnect
    /\ DisconnectInPlace(by, <<[f |-> "stopReturns", by |-> by]>>, <<>>)
    /\ wanted' = FALSE
    /\ UNCHANGED <<events, ioq, op, sockOpen, attempt, chain, ctimer, caller, ret, recvs, linked, host>>

\* _do_stop, client_impl_t::stop and the promise of stop().
SetStopPromise ==
    /\ Top("stopReturns")
    /\ CancelReconnect
    /\ CancelConnectTimer(ioq)
    /\ ret' = IF Head(todo).by = "game" THEN st ELSE ret
    /\ Then(<<Release>>)
    /\ UNCHANGED <<st, events, op, sockOpen, attempt, chain, dtimer, caller, recvs, linked, wanted, host>>

(***************************************************************************)
(* The game thread.                                                        *)
(***************************************************************************)
io == <<st, events, todo, op, sockOpen, attempt, chain, timers, recvs, linked, wanted, host>>

\* start or async_start: the iopool is started if it is down.
Start ==
    /\ game = "idle" /\ starts < MaxStarts
    /\ starts' = starts + 1
    /\ pool' = "up"
    /\ ioq' = Append(ioq, Posted([e |-> "connect", by |-> "game", to |-> starts']))
    /\ game' = IF SyncStart THEN "starting" ELSE "idle"
    /\ ret' = "none"
    /\ UNCHANGED io

StartReturned ==
    /\ game = "starting" /\ ret # "none"
    /\ game' = "idle"
    /\ UNCHANGED <<io, ioq, pool, ret, starts>>

\* stop, up to the wait for its promise; at once when the iopool is stopped.
Stop ==
    /\ game = "idle" /\ pool = "up"
    /\ ioq' = Append(ioq, Posted([e |-> "stop", by |-> "game"]))
    /\ game' = "stopping"
    /\ ret' = "none"
    /\ UNCHANGED <<io, pool, starts>>

\* The promise is set: stop_iopool gives the work guard back ...
StopPool ==
    /\ game = "stopping" /\ ret # "none"
    /\ pool' = "closing"
    /\ game' = "joining"
    /\ UNCHANGED <<io, ioq, ret, starts>>

NoWork ==
    /\ ioq = <<>> /\ todo = <<>>
    /\ op.dial = "none" /\ op.read = 0 /\ op.write = 0 /\ op.close = "no"
    /\ ~ctimer.waiting /\ rtimer.wait = "none" /\ dtimer = 0

\* Mutant: the io thread is not waited for.
StopReturnedEarly ==
    /\ game = "joining"
    /\ pool' = "down"
    /\ game' = "idle"
    /\ UNCHANGED <<io, ioq, ret, starts>>

\* ... and waits until the io_context runs out of work and the thread ends.
StopReturned ==
    /\ game = "joining" /\ NoWork
    /\ pool' = "down"
    /\ game' = "idle"
    /\ UNCHANGED <<io, ioq, ret, starts>>

(***************************************************************************)
(* The network and the clock.                                              *)
(***************************************************************************)
Complete(handler) == ioq' = Append(ioq, handler)
quiet == <<st, events, todo, sockOpen, attempt, chain, ctimer, dtimer, caller, ret, linked, wanted, host>>

NetResolve ==
    /\ op.dial = "resolve"
    /\ \E ec \in {"ok", "refused"} : Complete([h |-> "resolved", ec |-> ec])
    /\ op' = [op EXCEPT !.dial = "none"]
    /\ UNCHANGED <<quiet, rtimer, recvs>>

NetConnect ==
    /\ op.dial = "connect"
    /\ \E ec \in {"ok", "refused"} : Complete([h |-> "connected", ec |-> ec])
    /\ op' = [op EXCEPT !.dial = "none"]
    /\ UNCHANGED <<quiet, rtimer, recvs>>

\* The peer accepts the upgrade, declines it, or breaks the connection.
NetUpgrade ==
    /\ op.dial = "upgrade"
    /\ \E ec \in {"ok", "refused"} :
        /\ Complete([h |-> "upgraded", ec |-> ec])
        /\ op' = [op EXCEPT !.dial = "none", !.ws = ec = "ok"]
    /\ UNCHANGED <<quiet, rtimer, recvs>>

\* The peer's close frame, an error, or the time the handshake is given is over.
\* A pending read ends before.
NetClose ==
    /\ op.close # "no"
    /\ ioq' = ioq \o AbortedReads \o <<[h |-> "closed", by |-> op.close]>>
    /\ op' = [op EXCEPT !.close = "no", !.read = 0, !.ws = FALSE]
    /\ UNCHANGED <<quiet, rtimer, recvs>>

NetWrite ==
    /\ op.write > 0
    /\ \E ok \in BOOLEAN :
        /\ Complete([h |-> "written", ok |-> ok])
        /\ op' = [op EXCEPT !.write = @ - 1, !.ws = @ /\ ok]
    /\ UNCHANGED <<quiet, rtimer, recvs>>

\* A message, or the peer closes or resets the connection.
NetRead ==
    /\ op.read > 0
    /\ \E ok \in BOOLEAN :
        /\ ok => recvs < MaxRecvs
        /\ Complete([h |-> "read", ok |-> ok, on |-> op.on])
        /\ recvs' = IF ok THEN recvs + 1 ELSE recvs
        /\ op' = [op EXCEPT !.read = @ - 1, !.ws = @ /\ ok]
    /\ UNCHANGED <<quiet, rtimer>>

\* The peer's close frame: the read goes on, and fails once the answer is sent.
\* A second one comes to a client no longer started.
NetCloseFrame ==
    /\ op.read > 0 /\ op.ws
    /\ ~ \E i \in 1..Len(ioq) : ioq[i].h = "control"
    /\ Complete([h |-> "control"])
    /\ UNCHANGED <<io, caller, ret>>

ConnectTimerExpires ==
    /\ ctimer.id # 0 /\ ctimer.waiting
    /\ Complete([h |-> "ctimer", id |-> ctimer.id, expired |-> TRUE])
    /\ ctimer' = [ctimer EXCEPT !.waiting = FALSE]
    /\ UNCHANGED <<st, events, todo, op, sockOpen, attempt, chain, rtimer, dtimer, caller, ret,
                   recvs, linked, wanted, host>>

ReconnectDelayExpires ==
    /\ rtimer.wait = "delay" /\ attempt < MaxAttempts
    /\ Complete([h |-> "rtimer", id |-> rtimer.id, expired |-> TRUE])
    /\ rtimer' = [rtimer EXCEPT !.wait = "none"]
    /\ UNCHANGED <<quiet, op, recvs>>

\* A tick with nothing to cancel changes nothing and is left out.
DisconnectTick ==
    /\ dtimer # 0 /\ op.read + op.write > 0
    /\ ~ \E i \in 1..Len(ioq) : ioq[i].h = "dtimer"
    /\ Complete([h |-> "dtimer", id |-> dtimer])
    /\ UNCHANGED <<io, caller, ret>>

\* What the io thread does by itself, what it does inside user callbacks, and the
\* disconnecting, whose callback is called only for a connection that was there.
IoInternal ==
    \/ HandlePush \/ NextEvent
    \/ RunConnect \/ RunReconnect \/ RunSend \/ RunStop \/ RunDisconnect
    \/ HandleResolved \/ HandleConnected \/ HandleUpgraded \/ DoneConnect \/ AfterConnect
    \/ SetStartPromise \/ SetStopPromise
    \/ HandleClosed \/ HandleDisconnect \/ HandleDisconnectTimer \/ HandleConnectTimer \/ HandleReconnectTimer
    \/ HandleWritten \/ HandleControl \/ HandleRead \/ PostRecv
IoCallback == NotifyConnect \/ Recv \/ StartInCallback
IoThread == IoInternal \/ IoCallback \/ Disconnect

GameThread == StartReturned \/ StopPool \/ StopReturned
Calls      == Start \/ Stop
Clock      == ConnectTimerExpires \/ ReconnectDelayExpires \/ DisconnectTick
Network    == NetResolve \/ NetConnect \/ NetUpgrade \/ NetWrite \/ NetRead \/ NetClose \/ NetCloseFrame

Next == IoThread \/ GameThread \/ Calls \/ Clock \/ Network

Spec == Init /\ [][Next]_vars

\* Threads run, timers expire, the resolver answers, and a close handshake has a
\* time limit.  The peer need do nothing: connecting, upgrading, receiving and
\* writing carry no fairness.
Fairness ==
    /\ WF_vars(IoThread) /\ WF_vars(GameThread)
    /\ WF_vars(ConnectTimerExpires) /\ WF_vars(ReconnectDelayExpires) /\ WF_vars(DisconnectTick)
    /\ WF_vars(NetResolve) /\ WF_vars(NetClose)

FairSpec == Spec /\ Fairness

(***************************************************************************)
(* Properties.                                                             *)
(***************************************************************************)
\* Whoever holds the guard of the front event: a frame, an operation, or the
\* completed handler of one.
HoldingFrame == {"run", "release", "done", "afterConnect", "disconnect", "disconnected",
                 "stopReturns"}
HoldingHandler == {"resolved", "connected", "upgraded", "written", "closed"}
Holders ==
    {<<"frame", i>> : i \in {j \in 1..Len(todo) : todo[j].f \in HoldingFrame}}
        \cup {<<"handler", i>> : i \in {j \in 1..Len(ioq) : ioq[j].h \in HoldingHandler}}
        \cup {<<"dial", i>> : i \in IF op.dial = "none" THEN {} ELSE {1}}
        \cup {<<"write", i>> : i \in 1..op.write}
        \cup {<<"close", i>> : i \in IF op.close = "no" THEN {} ELSE {1}}

\* event_queue_cp.hpp: as long as an event is queued exactly one thing holds
\* the guard, so the queue neither stalls nor runs two events at once.
OneGuard == Cardinality(Holders) = (IF events = <<>> THEN 0 ELSE 1)

Running == events # <<>> /\ ~ \E i \in 1..Len(todo) : todo[i] = Run

\* Two waits have no bound.  A peer that stops reading leaves the guard with a
\* send; once the client disconnects the disconnect timer must get it back.  And
\* an address dialled after the connect timer has run out may never answer.
Untimed   == TimedOut /\ op.dial = "connect"
PeerMoves == []<>~(op.write > 0 /\ st = "started") /\ []<>~Untimed

\* The event queue implements a serial executor: it runs the events one at a
\* time, in order and to their end, and it gets to every one of them unless one of
\* the two waits goes on for ever.
Serial == INSTANCE SerialExecutor WITH
            Task <- Event, tasks <- events,
            running <- Running
QueueIsSerial == Serial!Spec
QueueIsFair   == Serial!Spec /\ (PeerMoves => Serial!Fairness)

\* What the client promises the thread that uses it: its calls are the connect
\* and stop events that wait, in the queue or on their way to it.
CallOf(ev) ==
    CASE ev.e = "connect" -> <<[call |-> "start", to |-> ev.to]>>
      [] ev.e = "stop"    -> <<[call |-> "stop"]>>
      [] OTHER            -> <<>>
CallBy(handler) == IF handler.h = "push" THEN CallOf(handler.ev) ELSE <<>>

\* What F gives along s, joined.
CallsAlong(F(_), s) ==
    LET join[i \in 0..Len(s)] == IF i = 0 THEN <<>> ELSE join[i - 1] \o F(s[i])
    IN join[Len(s)]
PendingCalls ==
    CallsAlong(CallOf, IF Running THEN Tail(events) ELSE events) \o CallsAlong(CallBy, ioq)
PoolSeen ==
    CASE pool = "down" -> "down"
      [] pool # "down" /\ game \in {"stopping", "joining"} -> "ending"
      [] OTHER -> "up"
Promise == INSTANCE ClientPromise WITH
            Host <- 1..MaxStarts, NoHost <- 0,
            client <- [pool |-> PoolSeen, st |-> st,
                       calls |-> PendingCalls, wanted |-> wanted, host |-> host]
KeepsPromise     == Promise!Spec
KeepsPromiseFair == Promise!Spec /\ (PeerMoves => Promise!Fairness)

\* send_cp.hpp: "there is only one operation to send data at the same time",
\* and one to receive: beast forbids a second before the first completes.
OneReadOneWrite == op.read <= 1 /\ op.write <= 1

\* A connection in use has a socket: no late connect timer closes it.
StartedHasSocket == st = "started" => sockOpen

\* tcp_client.hpp _handle_disconnect: the failed read of a connection that is
\* gone never disconnects the one that came after it.
StaleReadHarmless ==
    Ready("read") /\ ~Head(ioq).ok /\ st = "started" => Head(ioq).on = attempt

\* The user hears of each connection's end exactly once, and of no end
\* without a beginning.
EndPending ==
    \/ \E i \in 1..Len(events) : events[i].e = "disconnect" /\ events[i].old = "started"
    \/ \E i \in 1..Len(todo) : todo[i].f = "disconnect" /\ todo[i].old = "started"
Announcing == \E i \in 1..Len(todo) : todo[i].f = "notifyConnect" /\ todo[i].ec = "ok"
NotifiedOnce ==
    linked <=> (st = "started" /\ ~Announcing) \/ (st = "stopping" /\ EndPending)

\* After a stop has run nothing connects until the next start.
NoReconnectAfterStop == [][attempt' # attempt => wanted \/ wanted']_vars

\* Once stop has returned and the io thread is gone nothing of the connection
\* is left behind: the next start finds a stopped client.
StopLeavesNothing ==
    pool = "down" => st = "stopped" /\ ~sockOpen /\ events = <<>> /\ ~linked

\* start and stop return, unless one of the two waits goes on for ever.
CallsReturn ==
    PeerMoves =>
        /\ game = "starting" ~> game = "idle"
        /\ game = "stopping" ~> game = "idle"

\* A client that lost its connection, or never got one, tries again.
KeepsTrying ==
    AutoReconnect /\ wanted /\ st = "stopped" /\ attempt < MaxAttempts
        ~> st = "starting" \/ ~wanted

\* connect_timeout_cp.hpp: the expired timer closes the socket "so the
\* async_connect will returned with operation_aborted".
TimeoutEndsDial == TimedOut => op.dial # "connect"

\* tcp_client.hpp _do_stop asserts that the client is stopped.
StopFindsStopped == Top("stopReturns") => st = "stopped"
============================================================================
