----------------------------- MODULE ClientCalls -----------------------------
(***************************************************************************)
(* An asio2 client as the thread that starts and stops it sees it: a       *)
(* record, and for each step of the client the set of records the step may *)
(* lead to (empty where the step is not possible).  ClientPromise makes a  *)
(* specification of them, which Asio2Client implements; Extension has      *)
(* several clients.                                                        *)
(***************************************************************************)
EXTENDS Integers, Sequences

CONSTANTS Host, NoHost

Call == [call : {"start"}, to : Host] \cup [call : {"stop"}]

Client == [pool : {"down", "up", "ending"},     \* the io thread; a stop waits for its end
           st : {"stopped", "stopping", "starting", "started"},
           calls : Seq(Call),           \* made and not yet taken
           wanted : BOOLEAN,            \* a start took effect, no stop since
           host : Host \cup {NoHost}]   \* what it dials

NewClient == [pool |-> "down", st |-> "stopped", calls |-> <<>>, wanted |-> FALSE, host |-> NoHost]

\* Mutant: start is not told what to dial.
StartedNowhere(c, h) ==
    [c EXCEPT !.pool = "up", !.calls = Append(@, [call |-> "start", to |-> NoHost])]

\* start and stop, up to where they wait.  stop of a stopped client does nothing.
Started(c, h) == [c EXCEPT !.pool = "up", !.calls = Append(@, [call |-> "start", to |-> h])]
Stopping(c)   ==
    IF c.pool = "down" THEN c ELSE [c EXCEPT !.pool = "ending", !.calls = Append(@, [call |-> "stop"])]

\* Called inside a callback they do not wait, and overtake calls still on their
\* way to the io thread.
CutIn(c, call) ==
    {[c EXCEPT !.calls = SubSeq(@, 1, i) \o <<call>> \o SubSeq(@, i + 1, Len(@))] :
        i \in 0..Len(c.calls)}
StartedInCallback(c, h) == IF c.pool # "down" THEN CutIn(c, [call |-> "start", to |-> h]) ELSE {}
StoppedInCallback(c)    == IF c.pool # "down" THEN CutIn(c, [call |-> "stop"]) ELSE {}

Comes(c, call) == c.calls # <<>> /\ Head(c.calls).call = call
Rest(c) == [c EXCEPT !.calls = Tail(@)]

TakeStart(c) ==
    IF ~Comes(c, "start") THEN {}
    ELSE IF c.st # "stopped" THEN {Rest(c)}
    ELSE {[Rest(c) EXCEPT !.st = "starting", !.wanted = TRUE, !.host = Head(c.calls).to]}

\* Mutant: the reconnect timer survives.
TakeStopKeepsTimer(c) ==
    IF ~Comes(c, "stop") THEN {}
    ELSE {[Rest(c) EXCEPT !.st = IF @ \in {"starting", "started"} THEN "stopping" ELSE @]}

TakeStop(c) ==
    IF ~Comes(c, "stop") THEN {}
    ELSE {[Rest(c) EXCEPT !.wanted = FALSE,
                          !.st = IF @ \in {"starting", "started"} THEN "stopping" ELSE @]}

Take(c) == TakeStart(c) \cup TakeStop(c)

\* A connection attempt comes to an end, a connection is lost, ...
Settle(c) == IF c.st = "starting" THEN {[c EXCEPT !.st = s] : s \in {"started", "stopping"}} ELSE {}
Lose(c)   == IF c.st = "started" THEN {[c EXCEPT !.st = "stopping"]} ELSE {}
Finish(c) == IF c.st = "stopping" THEN {[c EXCEPT !.st = "stopped"]} ELSE {}

\* ... and another attempt is made.
Redial(c) == IF c.st = "stopped" /\ c.wanted THEN {[c EXCEPT !.st = "starting"]} ELSE {}

\* The io thread ends, and with it the wait of stop.  A stop called inside a
\* callback does not end it.
End(c) ==
    IF c.pool = "ending" /\ c.st = "stopped" /\ c.calls = <<>> /\ ~c.wanted
        THEN {[c EXCEPT !.pool = "down"]}
        ELSE {}
==============================================================================
