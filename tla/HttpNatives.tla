----------------------------- MODULE HttpNatives -----------------------------
(***************************************************************************)
(* The HTTPRequest natives (src/src/net/http) on top of the one static     *)
(* asio2 client that SendAsync shares between all its calls.  A call binds *)
(* the client's listeners to itself, starts the client, and frees the      *)
(* request when start returns; the listeners fire on the io thread.        *)
(*                                                                         *)
(* Plugins run on the game thread, between calls of start and stop, and on *)
(* the io thread, inside the receive listener, where SendAsync may be      *)
(* called again.  Each request has one handle: clones, plugin unload and   *)
(* failing creations are the subject of NetJson.  What a request says, and *)
(* how it is framed, is the subject of HttpMessage.                        *)
(***************************************************************************)
EXTENDS Asio2Client

CONSTANTS
    Request,    \* addresses of web_request objects (bound)
    NoRequest

ASSUME HttpAssumption ==
    /\ ~AutoReconnect /\ SyncStart /\ SendOnConnect /\ StopOnRecv
    /\ NoRequest \notin Request

VARIABLES
    live,       \* the requests that are allocated
    sending,    \* the request of the SendAsync that waits in start, or NoRequest
    bound,      \* listener -> the call of SendAsync that bound it; 0: none
    raw,        \* call -> the request its connect listener refers to
    wire,       \* the call whose request went out on this connection; 0: none
    outcome,    \* history, call -> what its plugin has heard of it: that it
                \* failed to connect, an answer, that its connection ended
    overlap,    \* history: calls made while the client was not at rest
    nested      \* history: the calls made inside a receive listener

hvars == <<vars, live, sending, bound, raw, wire, outcome, overlap, nested>>
bonds == <<sending, bound, raw, wire, outcome, overlap, nested>>

Call     == 1..MaxStarts
Listener == {"connect", "recv", "disconnect"}

HttpTypeOK ==
    /\ TypeOK
    /\ live \subseteq Request
    /\ sending \in Request \cup {NoRequest}
    /\ bound \in [Listener -> {0} \cup Call] /\ wire \in {0} \cup Call
    /\ raw \in [Call -> Request \cup {NoRequest}]
    /\ outcome \in [Call -> SUBSET {"failed", "answered", "ended"}]
    /\ overlap \subseteq Call /\ nested \subseteq Call

HttpInit ==
    /\ Init
    /\ live = {}
    /\ sending = NoRequest /\ wire = 0
    /\ bound = [l \in Listener |-> 0]
    /\ raw = [n \in Call |-> NoRequest]
    /\ outcome = [n \in Call |-> {}]
    /\ overlap = {} /\ nested = {}

(***************************************************************************)
(* Making a request.  Plugins run these on the game thread while it is not *)
(* in start or stop; they leave the client alone.                          *)
(***************************************************************************)
Native == game = "idle" /\ UNCHANGED <<vars, bonds>>

CreateRequest == Native /\ \E r \in Request \ live : live' = live \cup {r}

\* CloseHandle by the plugin.
CloseRequest == Native /\ \E r \in live : live' = live \ {r}

\* Send runs a client of its own to the end and frees the request, whatever
\* comes of it: a response handle, a reported error, or no handle for the
\* response, which is then deleted.
Send == Native /\ \E r \in live : live' = live \ {r}

\* SendAsync over https makes a client, sends nothing and frees the request.
SendAsyncSecure == Native /\ \E r \in live : live' = live \ {r}

(***************************************************************************)
(* SendAsync and its listeners.                                            *)
(***************************************************************************)
AtRest == st = "stopped" /\ events = <<>> /\ todo = <<>> /\ ioq = <<>>

\* Mutant: the receive listener is bound once, with the static client.
BindRecvOnce(r) ==
    /\ bound' = [l \in Listener |-> IF l = "recv" /\ bound.recv # 0 THEN bound.recv ELSE starts']
    /\ raw' = [raw EXCEPT ![starts'] = r]

\* Mutant: so is the disconnect listener.
BindDisconnectOnce(r) ==
    /\ bound' = [l \in Listener |-> IF l = "disconnect" /\ bound.disconnect # 0 THEN bound.disconnect ELSE starts']
    /\ raw' = [raw EXCEPT ![starts'] = r]

\* The call's number is that of its start.  The listeners capture the request
\* and the plugin's context by reference.
Bind(r) ==
    /\ bound' = [l \in Listener |-> starts']
    /\ raw' = [raw EXCEPT ![starts'] = r]

\* Mutant: the handle is freed before start.
SendAsyncFreesFirst ==
    \E r \in live :
        /\ Start /\ Bind(r)
        /\ sending' = r
        /\ live' = live \ {r}
        /\ overlap' = IF AtRest THEN overlap ELSE overlap \cup {starts'}
        /\ UNCHANGED <<wire, outcome, nested>>

\* On the game thread, up to the wait inside start ...
SendAsync ==
    \E r \in live :
        /\ Start /\ Bind(r)
        /\ sending' = r
        /\ overlap' = IF AtRest THEN overlap ELSE overlap \cup {starts'}
        /\ UNCHANGED <<live, wire, outcome, nested>>

\* ... and after it: FreeHandle, whether or not the client was started.
SendAsyncReturns ==
    /\ StartReturned
    /\ live' = live \ {sending}
    /\ sending' = NoRequest
    /\ UNCHANGED <<bound, raw, wire, outcome, overlap, nested>>

\* On the io thread start does not wait and the request is freed at once.
SendAsyncInCallback ==
    \E r \in live \ {sending} :
        /\ StartInCallback /\ Bind(r)
        /\ live' = live \ {r}
        /\ overlap' = overlap \cup {starts'}
        /\ nested' = nested \cup {starts'}
        /\ UNCHANGED <<sending, wire, outcome>>

Connects == Top("notifyConnect") /\ st # "stopped" /\ Head(todo).ec = "ok"

Heard(n, what) == outcome' = [outcome EXCEPT ![n] = @ \cup {what}]

\* The connect listener: send the request, or report the error.
OnConnect ==
    /\ NotifyConnect
    /\ CASE st = "stopped" -> UNCHANGED <<wire, outcome>>
         [] Connects -> wire' = bound.connect /\ UNCHANGED outcome
         [] OTHER -> Heard(bound.connect, "failed") /\ UNCHANGED wire
    /\ UNCHANGED <<live, sending, bound, raw, overlap, nested>>

\* The receive listener: call the plugin's function, stop the client.
OnRecv ==
    /\ Recv
    /\ Heard(bound.recv, "answered")
    /\ UNCHANGED <<live, sending, bound, raw, wire, overlap, nested>>

\* The disconnect listener reports "Disconnected", for a connection that was there.
OnDisconnect ==
    /\ Disconnect
    /\ IF st = "stopping" /\ Head(todo).old = "started"
        THEN Heard(bound.disconnect, "ended")
        ELSE UNCHANGED outcome
    /\ UNCHANGED <<live, sending, bound, raw, wire, overlap, nested>>

\* All the client does on its own.  stop is not called on the game thread
\* before the library is unloaded.
Client ==
    /\ IoInternal \/ Clock \/ Network
    /\ UNCHANGED <<live, bonds>>

HttpNext ==
    \/ CreateRequest \/ CloseRequest \/ Send \/ SendAsyncSecure
    \/ SendAsync \/ SendAsyncReturns \/ SendAsyncInCallback
    \/ OnConnect \/ OnRecv \/ OnDisconnect
    \/ Client

HttpSpec == HttpInit /\ [][HttpNext]_hvars

(***************************************************************************)
(* Properties.                                                             *)
(***************************************************************************)
\* native.cpp SendAsync: the connect listener reads the request through a
\* captured reference, yet never after FreeHandle, because start waits for it.
\* Only a SendAsync inside a plugin's response function can break that.
RequestAliveOnConnect == Connects => raw[bound.connect] \in live \/ bound.connect \in nested

\* The plugin function that a response is given to belongs to the request
\* that was sent, unless another SendAsync found the client at work and bound
\* its listeners over the first one's.
AnswerBelongs == Top("recv") => bound.recv = wire \/ bound.recv \in overlap

\* native.cpp SendAsync: once the client is at rest each call has been heard of in one
\* of three ways: it failed to connect; its connection ended; or it was answered, and
\* then its connection ended.  Two calls that met share what there is to hear.
Apart(n) == n \notin overlap /\ n + 1 \notin overlap
EveryCallHeardOf ==
    AtRest /\ game = "idle" =>
        \A n \in 1..starts :
            Apart(n) => outcome[n] \in {{"failed"}, {"ended"}, {"answered", "ended"}}
==============================================================================
