---------------------------- MODULE ClientPromise ----------------------------
(***************************************************************************)
(* What an asio2 client promises the thread that uses it: its io thread    *)
(* takes the calls in the order they were made; a start takes effect only  *)
(* on a stopped client; a client that was stopped does not dial again; and *)
(* stop returns, to find the io thread gone.                               *)
(***************************************************************************)
EXTENDS ClientCalls

CONSTANT AutoReconnect

VARIABLE client

Init == client = NewClient

StartCalled == client.pool # "ending" /\ \E h \in Host : client' = Started(client, h)
StopCalled  == client.pool = "up" /\ client' = Stopping(client)
Callback ==
    \/ \E h \in Host : client' \in StartedInCallback(client, h)
    \/ client' \in StoppedInCallback(client)
IoThread ==
    \/ client' \in Take(client) \/ client' \in Settle(client) \/ client' \in Lose(client)
    \/ client' \in Finish(client) \/ client' \in End(client)
    \/ AutoReconnect /\ client' \in Redial(client)

Spec == Init /\ [][StartCalled \/ StopCalled \/ Callback \/ IoThread]_client

Fairness ==
    /\ WF_client(client' \in Take(client)) /\ WF_client(client' \in Settle(client))
    /\ WF_client(client' \in Finish(client)) /\ WF_client(client' \in End(client))
==============================================================================
