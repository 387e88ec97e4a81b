------------------------------ MODULE Extension ------------------------------
(***************************************************************************)
(* The extension in the game server: loading and unloading it              *)
(* (src/src/extension.cpp, src/src/net), the WebSocket objects of its      *)
(* plugins (src/src/net/websocket), each with a plain and a TLS client,    *)
(* and the one static http client behind SendAsync.                        *)
(*                                                                         *)
(* Each client has an io thread and keeps the promise of ClientPromise.    *)
(* Natives, handle destruction and unloading run on the game thread, which *)
(* waits whenever one of them stops a client.  An exception that leaves a  *)
(* native ends the server.                                                 *)
(***************************************************************************)
EXTENDS ClientCalls, FiniteSets

CONSTANTS
    WebSocket,      \* addresses of WebSocket objects (bound)
    BadUrl,         \* the URLs of Host that cannot be parsed
    UnbuildableUrl, \* those that can, and cannot be written again
    NoUrl,          \* the URL of Host a new object has: empty
    MaxConnects,    \* bound: calls of Connect
    MaxSends,       \* bound: calls of SendAsync
    MaxFaults       \* bound: failing creations of handles and forwards

ASSUME ExtensionAssumption ==
    /\ BadUrl \subseteq Host /\ UnbuildableUrl \subseteq Host \ BadUrl
    /\ NoUrl \in Host \ (BadUrl \cup UnbuildableUrl) /\ NoHost \notin Host
    /\ MaxConnects \in Nat /\ MaxSends \in Nat /\ MaxFaults \in Nat

Kind     == {"cl", "cl_ssl"}
WsClient == WebSocket \X Kind
Idle     == [for |-> "nothing"]

VARIABLES
    phase,      \* of the extension; "unloading" while RemoveType destroys handles,
                \* "closing" while the library's static objects are destroyed
    forward,    \* OnMessageReceived exists
    types,      \* the handle types registered
    object,     \* WebSocket -> its url and use_ssl, or Free
    doomed,     \* the objects whose handles are being destroyed
    client,     \* WsClient -> the client's record
    http,       \* the record of SendAsync's client
    game,       \* what the game thread waits for
    connects, sends, faults,    \* counted against the bounds
    leaked,     \* objects without a handle
    asked       \* history: the URLs Connect has given to a client

vars == <<phase, forward, types, object, doomed, client, http, game, connects, sends, faults,
          leaked, asked>>
life   == <<phase, forward, types>>
counts == <<connects, sends, faults, leaked>>

JsonTypes == {"NetJSON", "NetJSONObjectIterator"}
HttpTypes == {"HTTPRequest", "HTTPResponse"}
Free      == [freed |-> TRUE]
Live      == {w \in WebSocket : object[w] # Free}

ExtTypeOK ==
    /\ phase \in {"unloaded", "loaded", "unloading", "closing", "crashed"}
    /\ forward \in BOOLEAN
    /\ types \subseteq JsonTypes \cup HttpTypes \cup {"WebSocket"}
    /\ object \in [WebSocket -> [url : Host, use_ssl : BOOLEAN] \cup {Free}]
    /\ doomed \subseteq WebSocket
    /\ client \in [WsClient -> Client] /\ http \in Client
    /\ game \in {Idle} \cup [for : {"stop"}, client : WsClient]
            \cup [for : {"http_start", "http_stop"}]
    /\ connects \in 0..MaxConnects /\ sends \in 0..MaxSends
    /\ faults \in 0..MaxFaults /\ leaked \in 0..faults
    /\ asked \in [WsClient -> SUBSET Host]

Init ==
    /\ phase = "unloaded" /\ forward = FALSE /\ types = {}
    /\ object = [w \in WebSocket |-> Free] /\ doomed = {}
    /\ client = [c \in WsClient |-> NewClient] /\ http = NewClient
    /\ game = Idle
    /\ connects = 0 /\ sends = 0 /\ faults = 0 /\ leaked = 0
    /\ asked = [c \in WsClient |-> {}]

Fault == faults < MaxFaults /\ faults' = faults + 1

(***************************************************************************)
(* Loading.  What SDK_OnLoad of the parts returns is ignored: without the  *)
(* forward there are no WebSocket natives and no WebSocket type, and the   *)
(* extension is loaded all the same.                                       *)
(***************************************************************************)
Load ==
    /\ phase = "unloaded"
    /\ phase' = "loaded"
    /\ http' = NewClient
    /\ \/ forward' = TRUE /\ types' = JsonTypes \cup HttpTypes \cup {"WebSocket"} /\ UNCHANGED faults
       \/ forward' = FALSE /\ types' = JsonTypes \cup HttpTypes /\ Fault
    /\ UNCHANGED <<object, doomed, client, game, connects, sends, leaked, asked>>

(***************************************************************************)
(* The natives of WebSocket objects.                                       *)
(***************************************************************************)
Native       == phase = "loaded" /\ game = Idle /\ doomed = {}
WsNative(w)  == Native /\ w \in Live
Crash        == phase' = "crashed" /\ UNCHANGED <<forward, types>>
Chosen(w)    == <<w, IF object[w].use_ssl THEN "cl_ssl" ELSE "cl">>
NotChosen(w) == <<w, IF object[w].use_ssl THEN "cl" ELSE "cl_ssl">>

\* new WebSocket() zeroes use_ssl.  Without a handle the object is lost.
CreateWebSocket ==
    /\ Native /\ forward
    /\ \/ /\ \E w \in WebSocket \ Live :
                /\ object' = [object EXCEPT ![w] = [url |-> NoUrl, use_ssl |-> FALSE]]
                /\ client' = [c \in WsClient |-> IF c[1] = w THEN NewClient ELSE client[c]]
                /\ asked' = [c \in WsClient |-> IF c[1] = w THEN {} ELSE asked[c]]
          /\ UNCHANGED <<faults, leaked>>
       \/ Fault /\ leaked' = leaked + 1 /\ UNCHANGED <<object, client, asked>>
    /\ UNCHANGED <<life, doomed, http, game, connects, sends>>

Edit(w, o) ==
    /\ WsNative(w)
    /\ object' = [object EXCEPT ![w] = o]
    /\ UNCHANGED <<life, doomed, client, http, game, counts, asked>>

\* SetURL does not look at the URL.
SetURL == \E w \in Live, u \in Host : Edit(w, [object[w] EXCEPT !.url = u])
SetSSL == \E w \in Live, b \in BOOLEAN : Edit(w, [object[w] EXCEPT !.use_ssl = b])

\* str() parses the URL and builds it again, and lets both exceptions out.
GetURLThrows ==
    /\ \E w \in Live : WsNative(w) /\ object[w].url \in BadUrl \cup UnbuildableUrl
    /\ Crash
    /\ UNCHANGED <<object, doomed, client, http, game, counts, asked>>

\* Mutant: the flag is read the wrong way round.
ConnectOther ==
    \E w \in Live :
        LET url == object[w].url IN
        /\ WsNative(w) /\ connects < MaxConnects
        /\ connects' = connects + 1
        /\ IF url \in BadUrl
            THEN Crash /\ UNCHANGED <<client, asked>>
            ELSE /\ client' = [client EXCEPT ![NotChosen(w)] = Started(@, url)]
                 /\ asked' = [asked EXCEPT ![Chosen(w)] = @ \cup {url}]
                 /\ UNCHANGED life
        /\ UNCHANGED <<object, doomed, http, game, sends, faults, leaked>>

\* Connect binds listeners to the client use_ssl selects and starts it, without
\* waiting; host() and port() parse the URL and do not build it.
Connect ==
    \E w \in Live :
        LET url == object[w].url IN
        /\ WsNative(w) /\ connects < MaxConnects
        /\ connects' = connects + 1
        /\ IF url \in BadUrl
            THEN Crash /\ UNCHANGED <<client, asked>>
            ELSE /\ client' = [client EXCEPT ![Chosen(w)] = Started(@, url)]
                 /\ asked' = [asked EXCEPT ![Chosen(w)] = @ \cup {url}]
                 /\ UNCHANGED life
        /\ UNCHANGED <<object, doomed, http, game, sends, faults, leaked>>

\* stop() up to its wait.
Stop(c) ==
    /\ game' = [for |-> "stop", client |-> c]
    /\ client' = [client EXCEPT ![c] = Stopping(@)]
StopReturned == game.for = "stop" /\ client[game.client].pool = "down"

\* Disconnect stops the other client.
Disconnect ==
    /\ \E w \in Live : WsNative(w) /\ Stop(NotChosen(w))
    /\ UNCHANGED <<life, object, doomed, http, counts, asked>>

DisconnectReturns ==
    /\ StopReturned /\ game.client[1] \notin doomed
    /\ game' = Idle
    /\ UNCHANGED <<life, object, doomed, client, http, counts, asked>>

(***************************************************************************)
(* The end of an object: its destructor stops the clients, the last member *)
(* first, and waits for each.                                              *)
(***************************************************************************)
\* CloseHandle by a plugin, or the unloading of a plugin with its handles.
CloseHandles ==
    /\ Native
    /\ \E ws \in SUBSET Live : ws # {} /\ doomed' = ws
    /\ UNCHANGED <<life, object, client, http, game, counts, asked>>

OnHandleDestroy ==
    /\ game = Idle
    /\ \E w \in doomed : Stop(<<w, "cl_ssl">>)
    /\ UNCHANGED <<life, object, doomed, http, counts, asked>>

\* Mutant: one client is stopped for both.
DestroyPlainLetsGo ==
    /\ StopReturned /\ game.client[1] \in doomed /\ game.client[2] = "cl_ssl"
    /\ game' = [for |-> "stop", client |-> <<game.client[1], "cl">>]
    /\ object' = [object EXCEPT ![game.client[1]] = Free]
    /\ doomed' = doomed \ {game.client[1]}
    /\ UNCHANGED <<life, client, http, counts, asked>>

DestroyPlain ==
    /\ StopReturned /\ game.client[1] \in doomed /\ game.client[2] = "cl_ssl"
    /\ Stop(<<game.client[1], "cl">>)
    /\ UNCHANGED <<life, object, doomed, http, counts, asked>>

Destroyed ==
    /\ StopReturned /\ game.client[1] \in doomed /\ game.client[2] = "cl"
    /\ object' = [object EXCEPT ![game.client[1]] = Free]
    /\ doomed' = doomed \ {game.client[1]}
    /\ game' = Idle
    /\ UNCHANGED <<life, client, http, counts, asked>>

(***************************************************************************)
(* Unloading: the parts in the reverse order of loading, and then the      *)
(* library's static objects.                                               *)
(***************************************************************************)
Unload ==
    /\ Native
    /\ phase' = "unloading" /\ forward' = FALSE
    /\ doomed' = IF "WebSocket" \in types THEN Live ELSE {}
    /\ UNCHANGED <<types, object, client, http, game, counts, asked>>

UnloadRest ==
    /\ phase = "unloading" /\ game = Idle /\ doomed = {}
    /\ phase' = "closing" /\ types' = {}
    /\ http' = Stopping(http)
    /\ game' = [for |-> "http_stop"]
    /\ UNCHANGED <<forward, object, doomed, client, counts, asked>>

Unloaded ==
    /\ phase = "closing" /\ http.pool = "down"
    /\ phase' = "unloaded" /\ game' = Idle
    /\ UNCHANGED <<forward, types, object, doomed, client, http, counts, asked>>

(***************************************************************************)
(* SendAsync, which waits in start; the response's listener stops the      *)
(* client.                                                                 *)
(***************************************************************************)
SendAsync ==
    /\ Native /\ sends < MaxSends
    /\ sends' = sends + 1
    /\ http' = Started(http, NoUrl)
    /\ game' = [for |-> "http_start"]
    /\ UNCHANGED <<life, object, doomed, client, connects, faults, leaked, asked>>

SendAsyncReturns ==
    /\ game.for = "http_start" /\ http.st # "starting"
    /\ ~ \E i \in 1..Len(http.calls) : http.calls[i].call = "start"
    /\ game' = Idle
    /\ UNCHANGED <<life, object, doomed, client, http, counts, asked>>

\* One stop waiting at a time (bound).
OnResponse ==
    /\ phase # "crashed" /\ http.st = "started"
    /\ ~ \E i \in 1..Len(http.calls) : http.calls[i].call = "stop"
    /\ http' \in StoppedInCallback(http)
    /\ UNCHANGED <<life, object, doomed, client, game, counts, asked>>

(***************************************************************************)
(* The io threads.                                                         *)
(***************************************************************************)
Becomes(c, records) ==
    /\ phase # "crashed"
    /\ \E r \in records : client' = [client EXCEPT ![c] = r]
    /\ UNCHANGED <<life, object, doomed, http, game, counts, asked>>
HttpBecomes(records) ==
    /\ phase # "crashed"
    /\ http' \in records
    /\ UNCHANGED <<life, object, doomed, client, game, counts, asked>>

Promised(r) == Take(r) \cup Settle(r) \cup Finish(r) \cup End(r)
Io(c)       == Becomes(c, Promised(client[c]) \cup Lose(client[c]) \cup Redial(client[c]))
HttpIo      == HttpBecomes(Promised(http) \cup Lose(http))

\* Mutant: the plain client has the listener too.
InitListenerOfBoth ==
    /\ phase # "crashed"
    /\ \E c \in WsClient : client[c].st = "starting"
    /\ Crash
    /\ UNCHANGED <<object, doomed, client, http, game, counts, asked>>

\* The init listener of the TLS client follows a reference to a local variable
\* of Connect, which has returned: it may find the object, or anything.
InitListener ==
    /\ phase # "crashed"
    /\ \E w \in WebSocket : client[<<w, "cl_ssl">>].st = "starting"
    /\ Crash
    /\ UNCHANGED <<object, doomed, client, http, game, counts, asked>>

Natives == CreateWebSocket \/ SetURL \/ GetURLThrows \/ SetSSL \/ Connect \/ Disconnect \/ SendAsync
Game ==
    /\ phase # "crashed"
    /\ \/ DisconnectReturns \/ SendAsyncReturns
       \/ OnHandleDestroy \/ DestroyPlain \/ Destroyed \/ UnloadRest \/ Unloaded

Next ==
    \/ Load \/ Unload \/ CloseHandles \/ Natives \/ Game
    \/ \E c \in WsClient : Io(c)
    \/ HttpIo \/ OnResponse \/ InitListener

\* The game thread goes on.
Fairness == WF_vars(Game)

Spec == Init /\ [][Next]_vars /\ Fairness

(***************************************************************************)
(* Properties.                                                             *)
(***************************************************************************)
Resting(r) == r.pool = "down" /\ r.st = "stopped" /\ r.calls = <<>>

\* session.h, the destructor of WebSocket: no io thread outlives the object its
\* client is part of, and none the library.
ThreadsBelong ==
    /\ \A c \in WsClient : object[c[1]] = Free => Resting(client[c])
    /\ phase = "unloaded" => Live = {} /\ Resting(http)

\* native.cpp Connect: what a client dials was the URL when Connect was called
\* with that client selected.
DialsWhatWasAsked == \A c \in WsClient : client[c].wanted => client[c].host \in asked[c]

\* native.cpp GetURL, Connect: a step that brings the server down is a native that
\* reads a URL that cannot be parsed, GetURL (the step does not count as a Connect)
\* of one that cannot be built, or a TLS client that dials, and no other.
CrashExplained ==
    [][phase # "crashed" /\ phase' = "crashed" =>
        \/ \E w \in Live : object[w].url \in BadUrl
        \/ connects' = connects /\ \E w \in Live : object[w].url \in UnbuildableUrl
        \/ \E w \in Live : client[<<w, "cl_ssl">>].st = "starting"]_vars

\* What a client promises of its end (KeepsPromiseFair of Asio2Client): it takes
\* its calls, an attempt and a disconnection come to an end, and so does the io
\* thread that stop waits for.  A host of two addresses may break it.
Ends(c) ==
    /\ WF_vars(Becomes(c, Take(client[c]))) /\ WF_vars(Becomes(c, Settle(client[c])))
    /\ WF_vars(Becomes(c, Finish(client[c]))) /\ WF_vars(Becomes(c, End(client[c])))
HttpEnds ==
    /\ WF_vars(HttpBecomes(Take(http))) /\ WF_vars(HttpBecomes(Settle(http)))
    /\ WF_vars(HttpBecomes(Finish(http))) /\ WF_vars(HttpBecomes(End(http)))

\* extension.cpp, session.h: a native, or the destructor of an object, comes back
\* from a client that keeps its promise, whatever the other clients do; and the
\* unloading ends if all keep it.
GameReturns ==
    /\ \A c \in WsClient :
        Ends(c) => (game = [for |-> "stop", client |-> c] ~>
                        game # [for |-> "stop", client |-> c] \/ phase = "crashed")
    /\ HttpEnds => (game.for \in {"http_start", "http_stop"} ~> game = Idle \/ phase = "crashed")
    /\ (\A c \in WsClient : Ends(c)) /\ HttpEnds =>
            (phase \in {"unloading", "closing"} ~> phase \in {"unloaded", "crashed"})
==============================================================================
