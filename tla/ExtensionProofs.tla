--------------------------- MODULE ExtensionProofs ---------------------------
(***************************************************************************)
(* The safety properties of Extension, for any number of WebSocket         *)
(* objects, URLs and calls.  First what one step of a client can do to its *)
(* record, then the inductive invariant, one lemma per group of actions.   *)
(***************************************************************************)
EXTENDS Extension, TLAPS

(***************************************************************************)
(* One client.                                                             *)
(***************************************************************************)
\* A client whose io thread is down has nothing left to do.
Sound(r)   == r.pool = "down" => r.st = "stopped" /\ r.calls = <<>> /\ ~r.wanted
\* All it dials, or will dial, is in A.
Knows(r, A) ==
    /\ r.wanted => r.host \in A
    /\ \A i \in 1..Len(r.calls) : r.calls[i].call = "start" => r.calls[i].to \in A

\* What a step of the io thread leaves of a client.
Follows(r, s) ==
    /\ s \in Client /\ Sound(s)
    /\ r.pool = "down" => s.pool = "down"

\* Taking a call leaves the rest of the record as it was.
LEMMA RestOfCalls ==
    ASSUME NEW r \in Client, r.calls # <<>>
    PROVE  /\ Rest(r) \in Client /\ Rest(r).calls = Tail(r.calls) /\ Head(r.calls) \in Call
           /\ Rest(r).pool = r.pool /\ Rest(r).st = r.st
           /\ Rest(r).wanted = r.wanted /\ Rest(r).host = r.host
           /\ \A A : Knows(r, A) => Knows(Rest(r), A)
           /\ Head(r.calls) = r.calls[1] /\ 1 \in 1..Len(r.calls)
<1>1. r.calls \in Seq(Call)
  BY DEF Client
<1>2. /\ Tail(r.calls) \in Seq(Call) /\ Head(r.calls) = r.calls[1] /\ Head(r.calls) \in Call
      /\ Len(Tail(r.calls)) = Len(r.calls) - 1 /\ 1 \in 1..Len(r.calls)
      /\ \A i \in 1..Len(Tail(r.calls)) :
            Tail(r.calls)[i] = r.calls[i + 1] /\ i + 1 \in 1..Len(r.calls)
  BY <1>1
<1>3. /\ Rest(r) \in Client /\ Rest(r).calls = Tail(r.calls)
      /\ Rest(r).pool = r.pool /\ Rest(r).st = r.st
      /\ Rest(r).wanted = r.wanted /\ Rest(r).host = r.host
  BY <1>2 DEF Rest, Client
<1>4. \A A : Knows(r, A) => Knows(Rest(r), A)
  BY <1>2, <1>3 DEF Knows
<1> QED
  BY <1>2, <1>3, <1>4

\* An accepted start.
LEMMA TakeStartStep ==
    ASSUME NEW r \in Client, Sound(r), NEW s \in TakeStart(r)
    PROVE  Follows(r, s) /\ \A A : Knows(r, A) => Knows(s, A)
<1> DEFINE q == Rest(r)
<1>1. r.calls # <<>> /\ Head(r.calls).call = "start"
  BY DEF TakeStart, Comes
<1>2. Head(r.calls).to \in Host
  BY <1>1, RestOfCalls DEF Call
<1>3. /\ q \in Client /\ q.pool = r.pool /\ q.st = r.st /\ q.wanted = r.wanted /\ q.host = r.host
      /\ \A A : Knows(r, A) => Knows(q, A)
  BY <1>1, RestOfCalls
<1>4. r.pool # "down"
  BY <1>1 DEF Sound
<1>5. CASE r.st # "stopped"
  <2>1. s = q
    BY <1>5, <1>1 DEF TakeStart, Comes
  <2> QED
    BY <2>1, <1>3, <1>4 DEF Sound, Follows
<1>6. CASE r.st = "stopped"
  <2>1. s = [q EXCEPT !.st = "starting", !.wanted = TRUE, !.host = Head(r.calls).to]
    BY <1>6, <1>1 DEF TakeStart, Comes
  <2>2. s \in Client /\ s.pool = q.pool /\ s.calls = q.calls /\ s.host = Head(r.calls).to /\ s.wanted
    <3> HIDE DEF q
    <3> QED
      BY <2>1, <1>2, <1>3 DEF Client
  <2>4. \A A : Knows(r, A) => Head(r.calls).to \in A
    BY <1>1, RestOfCalls DEF Knows
  <2>5. \A A : Knows(r, A) => Knows(s, A)
    <3> HIDE DEF q
    <3> QED
      BY <2>2, <2>4, <1>3 DEF Knows
  <2> QED
    BY <2>2, <2>5, <1>3, <1>4 DEF Sound, Follows
<1> QED
  BY <1>5, <1>6

\* A stop.
LEMMA TakeStopStep ==
    ASSUME NEW r \in Client, Sound(r), NEW s \in TakeStop(r)
    PROVE  Follows(r, s) /\ \A A : Knows(r, A) => Knows(s, A)
<1> DEFINE q == Rest(r)
           t == IF q.st \in {"starting", "started"} THEN "stopping" ELSE q.st
<1>1. r.calls # <<>> /\ Head(r.calls).call = "stop"
  BY DEF TakeStop, Comes
<1>2. s = [q EXCEPT !.wanted = FALSE, !.st = t]
  BY <1>1 DEF TakeStop, Comes
<1>3. /\ q \in Client /\ q.pool = r.pool
      /\ \A A : Knows(r, A) => Knows(q, A)
  BY <1>1, RestOfCalls
<1>4. r.pool # "down"
  BY <1>1 DEF Sound
<1>5. t \in {"stopped", "stopping", "starting", "started"}
  BY <1>3 DEF Client
<1> HIDE DEF q, t
<1>6. s \in Client /\ s.pool = q.pool /\ s.calls = q.calls /\ ~s.wanted
  BY <1>2, <1>3, <1>5 DEF Client
<1>8. \A A : Knows(r, A) => Knows(s, A)
  BY <1>6, <1>3 DEF Knows
<1> QED
  BY <1>6, <1>8, <1>3, <1>4 DEF Sound, Follows

\* All other steps of the io thread.
LEMMA OtherStep ==
    ASSUME NEW r \in Client, Sound(r),
           NEW s \in Settle(r) \cup Lose(r) \cup Finish(r) \cup End(r) \cup Redial(r)
    PROVE  Follows(r, s) /\ \A A : Knows(r, A) => Knows(s, A)
<1>1. CASE s \in Settle(r)
  <2>1. s \in Client /\ Sound(s) /\ s.pool = r.pool /\ s.calls = r.calls /\ s.wanted = r.wanted /\ s.host = r.host
    BY <1>1 DEF Settle, Client, Sound
  <2> QED
    BY <2>1 DEF Follows, Knows
<1>2. CASE s \in Lose(r)
  <2>1. s \in Client /\ Sound(s) /\ s.pool = r.pool /\ s.calls = r.calls /\ s.wanted = r.wanted /\ s.host = r.host
    BY <1>2 DEF Lose, Client, Sound
  <2> QED
    BY <2>1 DEF Follows, Knows
<1>3. CASE s \in Finish(r)
  <2>1. s \in Client /\ Sound(s) /\ s.pool = r.pool /\ s.calls = r.calls /\ s.wanted = r.wanted /\ s.host = r.host
    BY <1>3 DEF Finish, Client, Sound
  <2> QED
    BY <2>1 DEF Follows, Knows
<1>4. CASE s \in End(r)
  <2>1. s \in Client /\ Sound(s) /\ s.pool = "down" /\ s.calls = r.calls /\ s.wanted = r.wanted /\ s.host = r.host
    BY <1>4 DEF End, Client, Sound
  <2> QED
    BY <2>1 DEF Follows, Knows
<1>5. CASE s \in Redial(r)
  <2>1. s \in Client /\ Sound(s) /\ s.pool = r.pool /\ s.calls = r.calls /\ s.wanted = r.wanted /\ s.host = r.host
    BY <1>5 DEF Redial, Client, Sound
  <2> QED
    BY <2>1 DEF Follows, Knows
<1> QED
  BY <1>1, <1>2, <1>3, <1>4, <1>5

LEMMA IoStep ==
    ASSUME NEW r \in Client, Sound(r), NEW s \in Promised(r) \cup Lose(r) \cup Redial(r)
    PROVE  Follows(r, s) /\ \A A : Knows(r, A) => Knows(s, A)
  BY TakeStartStep, TakeStopStep, OtherStep DEF Promised, Take

\* start and stop.
LEMMA StartedStep ==
    ASSUME NEW r \in Client, NEW h \in Host
    PROVE  /\ Started(r, h) \in Client /\ Sound(Started(r, h))
           /\ \A A : Knows(r, A) => Knows(Started(r, h), A \cup {h})
<1> DEFINE e == [call |-> "start", to |-> h]
           q == Append(r.calls, e)
<1>1. e \in Call /\ e.call = "start" /\ e.to = h
  BY DEF Call
<1>2. r.calls \in Seq(Call)
  BY DEF Client
<1> HIDE DEF e
<1>3. /\ q \in Seq(Call) /\ Len(q) = Len(r.calls) + 1 /\ q[Len(r.calls) + 1] = e
      /\ \A i \in 1..Len(r.calls) : q[i] = r.calls[i]
      /\ Len(r.calls) \in Nat
  BY <1>1, <1>2
<1>4. Started(r, h) = [r EXCEPT !.pool = "up", !.calls = q]
  BY DEF Started, e
<1> HIDE DEF q
<1>5. /\ Started(r, h) \in Client /\ Started(r, h).pool = "up" /\ Started(r, h).calls = q
      /\ Started(r, h).wanted = r.wanted /\ Started(r, h).host = r.host
  BY <1>3, <1>4 DEF Client
<1>6. \A i \in 1..Len(q) : i \in 1..Len(r.calls) \/ q[i] = e
  BY <1>3
<1>8. \A A : Knows(r, A) => Knows(Started(r, h), A \cup {h})
  BY <1>1, <1>3, <1>5, <1>6 DEF Knows
<1> QED
  BY <1>5, <1>8 DEF Sound

LEMMA StoppingStep ==
    ASSUME NEW r \in Client, Sound(r)
    PROVE  /\ Stopping(r) \in Client /\ Sound(Stopping(r))
           /\ r.pool = "down" => Stopping(r).pool = "down"
           /\ \A A : Knows(r, A) => Knows(Stopping(r), A)
<1>1. CASE r.pool = "down"
  BY <1>1 DEF Stopping
<1>2. CASE r.pool # "down"
  <2> DEFINE e == [call |-> "stop"]
             q == Append(r.calls, e)
  <2>1. e \in Call /\ e.call # "start"
    BY DEF Call
  <2>2. r.calls \in Seq(Call)
    BY DEF Client
  <2> HIDE DEF e
  <2>3. /\ q \in Seq(Call) /\ Len(q) = Len(r.calls) + 1 /\ q[Len(r.calls) + 1] = e
        /\ \A i \in 1..Len(r.calls) : q[i] = r.calls[i]
        /\ Len(r.calls) \in Nat
    BY <2>1, <2>2
  <2>4. Stopping(r) = [r EXCEPT !.pool = "ending", !.calls = q]
    BY <1>2 DEF Stopping, e
  <2> HIDE DEF q
  <2>5. /\ Stopping(r) \in Client /\ Stopping(r).pool = "ending" /\ Stopping(r).calls = q
        /\ Stopping(r).wanted = r.wanted /\ Stopping(r).host = r.host
    BY <2>3, <2>4 DEF Client
  <2>6. \A i \in 1..Len(q) : i \in 1..Len(r.calls) \/ q[i] = e
    BY <2>3
  <2>7. \A A : Knows(r, A) => Knows(Stopping(r), A)
    BY <2>1, <2>3, <2>5, <2>6 DEF Knows
  <2> QED
    BY <1>2, <2>5, <2>7 DEF Sound
<1> QED
  BY <1>1, <1>2

\* The response listener's stop.
LEMMA StoppedInCallbackStep ==
    ASSUME NEW r \in Client, Sound(r), NEW s \in StoppedInCallback(r)
    PROVE  s \in Client /\ Sound(s)
<1>1. r.pool # "down"
  BY DEF StoppedInCallback
<1>2. PICK i \in 0..Len(r.calls) :
        s = [r EXCEPT !.calls = SubSeq(@, 1, i) \o <<[call |-> "stop"]>> \o SubSeq(@, i + 1, Len(@))]
  BY <1>1 DEF StoppedInCallback, CutIn
<1> DEFINE q == SubSeq(r.calls, 1, i) \o <<[call |-> "stop"]>> \o SubSeq(r.calls, i + 1, Len(r.calls))
<1>3. r.calls \in Seq(Call) /\ [call |-> "stop"] \in Call
  BY DEF Client, Call
<1>4. q \in Seq(Call)
  <2>1. SubSeq(r.calls, 1, i) \in Seq(Call) /\ SubSeq(r.calls, i + 1, Len(r.calls)) \in Seq(Call)
    BY <1>3
  <2>2. <<[call |-> "stop"]>> \in Seq(Call)
    BY <1>3
  <2> QED
    BY <2>1, <2>2
<1>5. s = [r EXCEPT !.calls = q]
  BY <1>2
<1> HIDE DEF q
<1> QED
  BY <1>1, <1>4, <1>5 DEF Client, Sound

(***************************************************************************)
(* The inductive invariant.  An object whose destructor has come to its    *)
(* plain client has no thread of the other one, so that freeing it leaves  *)
(* none.                                                                   *)
(***************************************************************************)
Waiting == game.for = "stop"

ClientsOK ==
    /\ Sound(http)
    /\ \A c \in WsClient :
        /\ Sound(client[c]) /\ Knows(client[c], asked[c])
        /\ object[c[1]] = Free => client[c].pool = "down"

GameOK ==
    /\ doomed \subseteq Live
    /\ Waiting =>
        /\ game.client[1] \in Live
        /\ game.client[1] \in doomed /\ game.client[2] = "cl" =>
                client[<<game.client[1], "cl_ssl">>].pool = "down"

PhaseOK ==
    /\ phase = "loaded" => (forward => "WebSocket" \in types) /\ ("WebSocket" \in types \/ Live = {})
    /\ phase = "unloading" => Live \subseteq doomed
    /\ phase \in {"closing", "unloaded"} => Live = {}
    /\ phase = "unloaded" => http.pool = "down"
    /\ phase = "unloaded" => game = Idle

IInv == ExtTypeOK /\ ClientsOK /\ GameOK /\ PhaseOK

\* Pairs.
LEMMA ClientPairs ==
    /\ \A w \in WebSocket, k \in Kind : <<w, k>> \in WsClient /\ <<w, k>>[1] = w /\ <<w, k>>[2] = k
    /\ \A c \in WsClient : c[1] \in WebSocket /\ c[2] \in Kind /\ c = <<c[1], c[2]>>
  BY DEF WsClient

LEMMA ChoosesAClient ==
    ASSUME NEW w \in WebSocket
    PROVE  /\ Chosen(w) \in WsClient /\ Chosen(w)[1] = w
           /\ NotChosen(w) \in WsClient /\ NotChosen(w)[1] = w
  BY ClientPairs DEF Chosen, NotChosen, Kind

LEMMA InitInv == Init => IInv
<1> SUFFICES ASSUME Init PROVE IInv
  OBVIOUS
<1>1. NewClient \in Client /\ Sound(NewClient)
      /\ \A A : Knows(NewClient, A)
  BY DEF NewClient, Client, Sound, Knows
<1>2. NewClient.pool = "down"
  BY DEF NewClient
<1>3. ExtTypeOK
  <2>1. client \in [WsClient -> Client] /\ http \in Client
    BY <1>1 DEF Init
  <2>2. asked \in [WsClient -> SUBSET Host]
    BY DEF Init
  <2>3. object \in [WebSocket -> [url : Host, use_ssl : BOOLEAN] \cup {Free}]
    BY DEF Init
  <2>4. game \in {Idle} \cup [for : {"stop"}, client : WsClient] \cup [for : {"http_start", "http_stop"}]
    BY DEF Init
  <2>5. connects = 0 /\ sends = 0 /\ faults = 0 /\ leaked = 0
    BY DEF Init
  <2>6. /\ connects \in 0..MaxConnects /\ sends \in 0..MaxSends
        /\ faults \in 0..MaxFaults /\ leaked \in 0..faults
    BY <2>5, ExtensionAssumption
  <2>7. types = {} /\ doomed = {} /\ forward \in BOOLEAN /\ phase = "unloaded"
    BY DEF Init
  <2> QED
    BY <2>1, <2>2, <2>3, <2>4, <2>6, <2>7 DEF ExtTypeOK
<1>4. Live = {}
  BY DEF Init, Live
<1>5. ClientsOK
  BY <1>1, <1>2 DEF Init, ClientsOK
<1>6. GameOK
  BY <1>4 DEF Init, GameOK, Waiting, Idle
<1>7. PhaseOK
  BY <1>2, <1>4 DEF Init, PhaseOK
<1> QED
  BY <1>3, <1>5, <1>6, <1>7 DEF IInv

\* A step of one io thread.
LEMMA IoInv ==
    ASSUME IInv, NEW c \in WsClient, Io(c)
    PROVE  IInv'
<1>1. PICK r \in Promised(client[c]) \cup Lose(client[c]) \cup Redial(client[c]) :
        client' = [client EXCEPT ![c] = r]
  BY DEF Io, Becomes
<1>2. UNCHANGED <<life, object, doomed, http, game, counts, asked>> /\ phase # "crashed"
  BY DEF Io, Becomes
<1>3. client \in [WsClient -> Client] /\ Sound(client[c]) /\ Knows(client[c], asked[c])
  BY DEF IInv, ExtTypeOK, ClientsOK
<1>4. Follows(client[c], r) /\ Knows(r, asked[c])
  BY <1>1, <1>3, IoStep
<1>5. client[c].pool = "down" => r.pool = "down"
  BY <1>4 DEF Follows
<1>6. /\ client'[c] = r
      /\ \A d \in WsClient : d # c => client'[d] = client[d]
      /\ client' \in [WsClient -> Client]
  BY <1>1, <1>3, <1>4 DEF Follows
<1>7. ExtTypeOK'
  BY <1>2, <1>6 DEF IInv, ExtTypeOK, life, counts, WsClient, Client
<1>8. ClientsOK'
  BY <1>2, <1>4, <1>5, <1>6 DEF IInv, ClientsOK, Follows, Waiting
<1>9. GameOK'
  <2>1. \A w \in WebSocket : <<w, "cl_ssl">> \in WsClient
    BY ClientPairs DEF Kind
  <2>2. Live' = Live /\ Waiting' = Waiting
    BY <1>2 DEF Live, Waiting
  <2>3. \A d \in WsClient : client[d].pool = "down" => client'[d].pool = "down"
    BY <1>4, <1>5, <1>6 DEF Follows
  <2>5. \A w \in Live : w \in WebSocket
    BY DEF Live
  <2> QED
    BY <1>2, <2>1, <2>2, <2>3, <2>5 DEF IInv, GameOK
<1>10. PhaseOK'
  BY <1>2 DEF IInv, PhaseOK, Live, life
<1> QED
  BY <1>7, <1>8, <1>9, <1>10 DEF IInv

\* The http client's thread, and its response listener.
LEMMA HttpInv ==
    ASSUME IInv, HttpIo \/ OnResponse
    PROVE  IInv'
<1>1. UNCHANGED <<life, object, doomed, client, game, counts, asked>>
  BY DEF HttpIo, HttpBecomes, OnResponse
<1>2. http \in Client /\ Sound(http)
  BY DEF IInv, ExtTypeOK, ClientsOK
<1>3. http' \in Client /\ Sound(http') /\ phase # "crashed" /\ (http.pool = "down" => http'.pool = "down")
  <2>1. CASE HttpIo
    BY <2>1, <1>2, IoStep DEF HttpIo, HttpBecomes, Follows
  <2>2. CASE OnResponse
    <3>1. http.pool # "down"
      BY <2>2, <1>2 DEF OnResponse, Sound
    <3> QED
      BY <2>2, <3>1, <1>2, StoppedInCallbackStep DEF OnResponse
  <2> QED
    BY <2>1, <2>2
<1>4. ExtTypeOK'
  BY <1>1, <1>3 DEF IInv, ExtTypeOK, life, counts, WsClient, Client
<1>5. ClientsOK'
  BY <1>1, <1>3 DEF IInv, ClientsOK, Waiting
<1>6. GameOK'
  BY <1>1 DEF IInv, GameOK, Waiting, Live
<1>7. PhaseOK'
  BY <1>1, <1>2, <1>3 DEF IInv, PhaseOK, Live, life, Client
<1> QED
  BY <1>4, <1>5, <1>6, <1>7 DEF IInv

\* Whatever only brings the server down.
LEMMA CrashInv ==
    ASSUME IInv, Crash, UNCHANGED <<object, doomed, client, http, game, asked>>,
           sends' = sends, faults' = faults, leaked' = leaked, connects' \in 0..MaxConnects
    PROVE  IInv'
<1>1. ExtTypeOK'
  BY DEF IInv, ExtTypeOK, Crash, WsClient, Client
<1>2. ClientsOK'
  BY DEF IInv, ClientsOK, Waiting
<1>3. GameOK'
  BY DEF IInv, GameOK, Waiting, Live
<1>4. PhaseOK'
  BY DEF PhaseOK, Crash, Live
<1> QED
  BY <1>1, <1>2, <1>3, <1>4 DEF IInv

\* The game thread calls stop of the client c, c as GameOK wants it.
LEMMA StopInv ==
    ASSUME IInv, NEW c \in WsClient, Stop(c), phase \in {"loaded", "unloading"},
           UNCHANGED <<life, object, doomed, http, counts, asked>>,
           c[1] \in Live,
           c[1] \in doomed /\ c[2] = "cl" => client[<<c[1], "cl_ssl">>].pool = "down"
    PROVE  IInv'
<1> DEFINE r == Stopping(client[c])
<1>1. client \in [WsClient -> Client] /\ Sound(client[c]) /\ Knows(client[c], asked[c])
  BY DEF IInv, ExtTypeOK, ClientsOK
<1>2. /\ r \in Client /\ Sound(r) /\ Knows(r, asked[c])
      /\ client[c].pool = "down" => r.pool = "down"
  BY <1>1, StoppingStep
<1>3. client' = [client EXCEPT ![c] = r] /\ game' = [for |-> "stop", client |-> c]
  BY DEF Stop
<1> HIDE DEF r
<1>4. /\ client'[c] = r
      /\ \A d \in WsClient : d # c => client'[d] = client[d]
      /\ client' \in [WsClient -> Client]
  BY <1>1, <1>2, <1>3
<1>5. Waiting' /\ game'.client = c
  BY <1>3 DEF Waiting
<1>7. ExtTypeOK'
  BY <1>3, <1>4 DEF IInv, ExtTypeOK, life, counts, WsClient, Client
<1>8. ClientsOK'
  BY <1>2, <1>4, <1>5 DEF IInv, ClientsOK
<1>9. GameOK'
  <2>1. \A d \in WsClient : client[d].pool = "down" => client'[d].pool = "down"
    BY <1>2, <1>4
  <2>2. <<c[1], "cl_ssl">> \in WsClient
    BY ClientPairs DEF Kind
  <2> QED
    BY <1>5, <2>1, <2>2 DEF IInv, GameOK, Live
<1>10. PhaseOK'
  BY DEF IInv, PhaseOK, Live, life
<1> QED
  BY <1>7, <1>8, <1>9, <1>10 DEF IInv

LEMMA NewClientIsNew ==
    /\ NewClient \in Client /\ Sound(NewClient)
    /\ NewClient.pool = "down" /\ ~NewClient.wanted
    /\ \A A : Knows(NewClient, A)
  BY DEF NewClient, Client, Sound, Knows

\* Loading.
LEMMA LoadInv == IInv /\ Load => IInv'
<1> SUFFICES ASSUME IInv, Load PROVE IInv'
  OBVIOUS
<1>1. UNCHANGED <<object, doomed, client, game, connects, sends, leaked, asked>>
      /\ http' = NewClient /\ phase' = "loaded"
  BY DEF Load
<1>2. /\ faults' \in 0..MaxFaults /\ leaked' \in 0..faults' /\ forward' \in BOOLEAN
      /\ types' \subseteq JsonTypes \cup HttpTypes \cup {"WebSocket"}
      /\ forward' => "WebSocket" \in types'
  <2>1. faults \in 0..MaxFaults /\ leaked \in 0..faults /\ leaked' = leaked
    BY <1>1 DEF IInv, ExtTypeOK
  <2>2. CASE forward' = TRUE /\ types' = JsonTypes \cup HttpTypes \cup {"WebSocket"} /\ UNCHANGED faults
    BY <2>1, <2>2
  <2>3. CASE forward' = FALSE /\ types' = JsonTypes \cup HttpTypes /\ Fault
    <3>1. faults' \in 0..MaxFaults /\ leaked' \in 0..faults'
      BY <2>1, <2>3, ExtensionAssumption DEF Fault
    <3> QED
      BY <2>3, <3>1
  <2> QED
    BY <2>2, <2>3 DEF Load
<1>3. Live = {} /\ Live' = {}
  BY <1>1 DEF Load, IInv, PhaseOK, Live
<1>4. ExtTypeOK'
  BY <1>1, <1>2, NewClientIsNew DEF IInv, ExtTypeOK, WsClient, Client
<1>5. ClientsOK'
  BY <1>1, NewClientIsNew DEF IInv, ClientsOK, Waiting
<1>6. GameOK'
  BY <1>1 DEF IInv, GameOK, Waiting, Live
<1>7. PhaseOK'
  BY <1>1, <1>2, <1>3 DEF PhaseOK
<1> QED
  BY <1>4, <1>5, <1>6, <1>7 DEF IInv

\* A new object takes the place of a freed one.
LEMMA CreateInv == IInv /\ CreateWebSocket => IInv'
<1> SUFFICES ASSUME IInv, CreateWebSocket PROVE IInv'
  OBVIOUS
<1>1. /\ UNCHANGED <<life, doomed, http, game, connects, sends>>
      /\ phase = "loaded" /\ game = Idle /\ doomed = {} /\ forward
  BY DEF CreateWebSocket, Native
<1>2. ~Waiting /\ ~Waiting' /\ game.for # "stop"
  BY <1>1 DEF Waiting, Idle
<1>3. CASE UNCHANGED <<faults, leaked>>
           /\ \E w \in WebSocket \ Live :
                /\ object' = [object EXCEPT ![w] = [url |-> NoUrl, use_ssl |-> FALSE]]
                /\ client' = [c \in WsClient |-> IF c[1] = w THEN NewClient ELSE client[c]]
                /\ asked' = [c \in WsClient |-> IF c[1] = w THEN {} ELSE asked[c]]
  <2>1. PICK w \in WebSocket \ Live :
            /\ object' = [object EXCEPT ![w] = [url |-> NoUrl, use_ssl |-> FALSE]]
            /\ client' = [c \in WsClient |-> IF c[1] = w THEN NewClient ELSE client[c]]
            /\ asked' = [c \in WsClient |-> IF c[1] = w THEN {} ELSE asked[c]]
    BY <1>3
  <2>2. object' \in [WebSocket -> [url : Host, use_ssl : BOOLEAN] \cup {Free}]
    BY <2>1, ExtensionAssumption DEF IInv, ExtTypeOK
  <2>3. client' \in [WsClient -> Client] /\ asked' \in [WsClient -> SUBSET Host]
    BY <2>1, NewClientIsNew DEF IInv, ExtTypeOK
  <2>4. ExtTypeOK'
    BY <1>1, <1>3, <2>2, <2>3 DEF IInv, ExtTypeOK, life
  <2>5. \A c \in WsClient :
            \/ client'[c] = NewClient
            \/ client'[c] = client[c] /\ asked'[c] = asked[c] /\ object'[c[1]] = object[c[1]]
    BY <2>1, ClientPairs DEF IInv, ExtTypeOK
  <2>7. ClientsOK'
    BY <1>1, <2>5, NewClientIsNew DEF IInv, ClientsOK
  <2>8. GameOK'
    BY <1>1, <1>2 DEF GameOK
  <2>9. PhaseOK'
    BY <1>1 DEF IInv, PhaseOK, life
  <2> QED
    BY <2>4, <2>7, <2>8, <2>9 DEF IInv
<1>4. CASE Fault /\ leaked' = leaked + 1 /\ UNCHANGED <<object, client, asked>>
  <2>1. faults' \in 0..MaxFaults /\ leaked' \in 0..faults'
    BY <1>4, ExtensionAssumption DEF Fault, IInv, ExtTypeOK
  <2>2. ExtTypeOK'
    BY <1>1, <1>4, <2>1 DEF IInv, ExtTypeOK, life, WsClient, Client
  <2>3. ClientsOK' /\ GameOK'
    BY <1>1, <1>4 DEF IInv, ClientsOK, GameOK, Waiting, Live
  <2>4. PhaseOK'
    BY <1>1, <1>4 DEF IInv, PhaseOK, Live, life
  <2> QED
    BY <2>2, <2>3, <2>4 DEF IInv
<1> QED
  BY <1>3, <1>4 DEF CreateWebSocket

\* SetURL and SetSSL.
LEMMA EditInv == IInv /\ (SetURL \/ SetSSL) => IInv'
<1> SUFFICES ASSUME IInv, SetURL \/ SetSSL PROVE IInv'
  OBVIOUS
<1>1. PICK w \in Live, o \in [url : Host, use_ssl : BOOLEAN] : Edit(w, o)
  <2>1. \A w \in Live : object[w] \in [url : Host, use_ssl : BOOLEAN]
    BY DEF IInv, ExtTypeOK, Live
  <2> QED
    BY <2>1 DEF SetURL, SetSSL
<1>2. /\ UNCHANGED <<life, doomed, client, http, game, counts, asked>>
      /\ object' = [object EXCEPT ![w] = o]
      /\ phase = "loaded" /\ game = Idle /\ doomed = {}
  BY <1>1 DEF Edit, WsNative, Native
<1>3. o # Free
  BY DEF Free
<1>4. w \in WebSocket /\ object[w] # Free
  BY DEF Live
<1>5. object' \in [WebSocket -> [url : Host, use_ssl : BOOLEAN] \cup {Free}]
  BY <1>2 DEF IInv, ExtTypeOK
<1>6. \A v \in WebSocket : object'[v] = Free <=> object[v] = Free
  BY <1>2, <1>3, <1>4 DEF IInv, ExtTypeOK
<1>7. Live' = Live
  BY <1>6 DEF Live
<1>8. ExtTypeOK'
  BY <1>2, <1>5 DEF IInv, ExtTypeOK, life, counts, WsClient, Client
<1>9. ClientsOK'
  BY <1>2, <1>6, ClientPairs DEF IInv, ClientsOK, Waiting
<1>10. GameOK'
  BY <1>2 DEF GameOK, Waiting, Idle
<1>11. PhaseOK'
  BY <1>2, <1>7 DEF IInv, PhaseOK, life
<1> QED
  BY <1>8, <1>9, <1>10, <1>11 DEF IInv

\* Connect starts one client of a live object, or throws.
LEMMA ConnectInv == IInv /\ Connect => IInv'
<1> SUFFICES ASSUME IInv, Connect PROVE IInv'
  OBVIOUS
<1>1. PICK w \in Live :
        /\ WsNative(w) /\ connects < MaxConnects
        /\ connects' = connects + 1
        /\ IF object[w].url \in BadUrl
            THEN Crash /\ UNCHANGED <<client, asked>>
            ELSE /\ client' = [client EXCEPT ![Chosen(w)] = Started(@, object[w].url)]
                 /\ asked' = [asked EXCEPT ![Chosen(w)] = @ \cup {object[w].url}]
                 /\ UNCHANGED life
        /\ UNCHANGED <<object, doomed, http, game, sends, faults, leaked>>
  BY DEF Connect
<1>2. connects' \in 0..MaxConnects
  BY <1>1, ExtensionAssumption DEF IInv, ExtTypeOK
<1>3. CASE object[w].url \in BadUrl
  BY <1>1, <1>2, <1>3, CrashInv
<1>4. CASE object[w].url \notin BadUrl
  <2> DEFINE c == Chosen(w)
             u == object[w].url
             r == Started(client[c], u)
  <2>1. w \in WebSocket /\ object[w] # Free /\ u \in Host
    BY DEF Live, IInv, ExtTypeOK
  <2>2. c \in WsClient /\ c[1] = w
    BY <2>1, ChoosesAClient
  <2>3. game = Idle /\ doomed = {} /\ phase = "loaded"
    BY <1>1 DEF WsNative, Native
  <2>4. client[c] \in Client /\ Knows(client[c], asked[c])
    BY <2>2 DEF IInv, ExtTypeOK, ClientsOK
  <2>6. r \in Client /\ Sound(r) /\ Knows(r, asked[c] \cup {u})
    BY <2>1, <2>2, <2>4, StartedStep
  <2>7. /\ client' = [client EXCEPT ![c] = r] /\ asked' = [asked EXCEPT ![c] = @ \cup {u}]
        /\ UNCHANGED life
    BY <1>1, <1>4
  <2> HIDE DEF c, r
  <2>8. client' \in [WsClient -> Client] /\ asked' \in [WsClient -> SUBSET Host]
    BY <2>1, <2>2, <2>6, <2>7 DEF IInv, ExtTypeOK
  <2>9. \A d \in WsClient :
            IF d = c THEN client'[d] = r /\ asked'[d] = asked[c] \cup {u}
                     ELSE client'[d] = client[d] /\ asked'[d] = asked[d]
    BY <2>2, <2>7 DEF IInv, ExtTypeOK
  <2>10. ExtTypeOK'
    BY <1>1, <1>2, <2>7, <2>8 DEF IInv, ExtTypeOK, life, WsClient, Client
  <2>11. ClientsOK'
    BY <1>1, <2>1, <2>2, <2>6, <2>9 DEF IInv, ClientsOK
  <2>12. GameOK'
    BY <1>1, <2>3 DEF GameOK, Waiting, Idle
  <2>13. PhaseOK'
    BY <1>1, <2>3, <2>7 DEF IInv, PhaseOK, Live, life
  <2> QED
    BY <2>10, <2>11, <2>12, <2>13 DEF IInv
<1> QED
  BY <1>3, <1>4

\* Disconnect, and the destructors' calls of stop.
LEMMA StoppingInv ==
    ASSUME IInv, phase # "crashed", Disconnect \/ OnHandleDestroy \/ DestroyPlain
    PROVE  IInv'
<1>1. doomed \subseteq Live /\ Live \subseteq WebSocket
  BY DEF IInv, GameOK, Live
<1>2. doomed # {} => phase \in {"loaded", "unloading", "crashed"}
  BY <1>1 DEF IInv, PhaseOK, ExtTypeOK
<1>3. CASE Disconnect
  <2>1. PICK w \in Live : WsNative(w) /\ Stop(NotChosen(w))
    BY <1>3 DEF Disconnect
  <2>2. NotChosen(w) \in WsClient /\ NotChosen(w)[1] = w
    BY <1>1, ChoosesAClient
  <2>3. doomed = {} /\ game = Idle /\ phase = "loaded"
    BY <2>1 DEF WsNative, Native
  <2> QED
    BY <1>3, <2>1, <2>2, <2>3, StopInv DEF Disconnect, Idle
<1>4. CASE OnHandleDestroy
  <2>1. PICK w \in doomed : Stop(<<w, "cl_ssl">>)
    BY <1>4 DEF OnHandleDestroy
  <2>2. w \in WebSocket /\ w \in Live
    BY <1>1
  <2>3. <<w, "cl_ssl">> \in WsClient /\ <<w, "cl_ssl">>[1] = w /\ <<w, "cl_ssl">>[2] = "cl_ssl"
    BY <2>2, ClientPairs DEF Kind
  <2>4. phase \in {"loaded", "unloading"}
    BY <1>2, <1>4
  <2> QED
    BY <1>4, <2>1, <2>2, <2>3, <2>4, StopInv DEF OnHandleDestroy, Idle
<1>5. CASE DestroyPlain
  <2> DEFINE w == game.client[1]
  <2>1. StopReturned /\ w \in doomed /\ game.client[2] = "cl_ssl" /\ Stop(<<w, "cl">>)
    BY <1>5 DEF DestroyPlain
  <2>2. w \in WebSocket /\ w \in Live
    BY <1>1, <2>1
  <2>3. <<w, "cl">> \in WsClient /\ <<w, "cl">>[1] = w /\ <<w, "cl">>[2] = "cl"
    BY <2>2, ClientPairs DEF Kind
  <2>4. game.client \in WsClient
    BY <2>1 DEF StopReturned, IInv, ExtTypeOK, Idle
  <2>5. game.client = <<w, "cl_ssl">>
    BY <2>1, <2>4, ClientPairs
  <2>6. client[<<w, "cl_ssl">>].pool = "down"
    BY <2>1, <2>5 DEF StopReturned
  <2>7. phase \in {"loaded", "unloading"}
    BY <1>2, <1>5, <2>1
  <2> HIDE DEF w
  <2> QED
    BY <1>5, <2>1, <2>2, <2>3, <2>6, <2>7, StopInv DEF DestroyPlain, w
<1> QED
  BY <1>3, <1>4, <1>5

\* The destructor's end.
LEMMA DestroyedInv == IInv /\ Destroyed /\ phase # "crashed" => IInv'
<1> SUFFICES ASSUME IInv, Destroyed, phase # "crashed" PROVE IInv'
  OBVIOUS
<1> DEFINE w == game.client[1]
<1>1. /\ Waiting /\ client[game.client].pool = "down" /\ w \in doomed /\ game.client[2] = "cl"
      /\ object' = [object EXCEPT ![w] = Free] /\ doomed' = doomed \ {w} /\ game' = Idle
      /\ UNCHANGED <<life, client, http, counts, asked>>
  BY DEF Destroyed, StopReturned, Waiting
<1>2. game.client \in WsClient
  BY <1>1 DEF Waiting, IInv, ExtTypeOK, Idle
<1>3. game.client = <<w, "cl">>
  BY <1>1, <1>2, ClientPairs
<1>4. client[<<w, "cl_ssl">>].pool = "down"
  BY <1>1 DEF IInv, GameOK
<1> HIDE DEF w
<1>5. \A c \in WsClient : c[1] = w => client[c].pool = "down"
  BY <1>1, <1>3, <1>4, ClientPairs DEF Kind
<1>7. Live' = Live \ {w}
  BY <1>1 DEF Live, IInv, ExtTypeOK
<1>8. object' \in [WebSocket -> [url : Host, use_ssl : BOOLEAN] \cup {Free}]
  BY <1>1 DEF IInv, ExtTypeOK
<1>9. ExtTypeOK'
  BY <1>1, <1>8 DEF IInv, ExtTypeOK, life, counts, WsClient, Client
<1>10. ClientsOK'
  <2>1. \A c \in WsClient : object'[c[1]] = Free => object[c[1]] = Free \/ c[1] = w
    BY <1>1, ClientPairs DEF IInv, ExtTypeOK
  <2> QED
    BY <1>1, <1>5, <2>1 DEF IInv, ClientsOK
<1>11. GameOK'
  BY <1>1, <1>7 DEF IInv, GameOK, Waiting, Idle
<1>12. PhaseOK'
  BY <1>1, <1>7 DEF IInv, PhaseOK, life
<1> QED
  BY <1>9, <1>10, <1>11, <1>12 DEF IInv

\* GetURL, and the init listener's dangling reference.
LEMMA ThrowsInv == IInv /\ (GetURLThrows \/ InitListener) => IInv'
<1> SUFFICES ASSUME IInv, GetURLThrows \/ InitListener PROVE IInv'
  OBVIOUS
<1>1. Crash /\ UNCHANGED <<object, doomed, client, http, game, counts, asked>>
  BY DEF GetURLThrows, InitListener
<1>2. connects' \in 0..MaxConnects
  BY <1>1 DEF counts, IInv, ExtTypeOK
<1> QED
  BY <1>1, <1>2, CrashInv DEF counts

\* The game thread's wait is over.
LEMMA ReturnInv == IInv /\ (DisconnectReturns \/ SendAsyncReturns) => IInv'
<1> SUFFICES ASSUME IInv, DisconnectReturns \/ SendAsyncReturns PROVE IInv'
  OBVIOUS
<1>1. game' = Idle /\ UNCHANGED <<life, object, doomed, client, http, counts, asked>>
  BY DEF DisconnectReturns, SendAsyncReturns
<1>4. ExtTypeOK'
  BY <1>1 DEF IInv, ExtTypeOK, life, counts, WsClient, Client
<1>5. ClientsOK'
  BY <1>1 DEF IInv, ClientsOK
<1>6. GameOK'
  BY <1>1 DEF IInv, GameOK, Live, Waiting, Idle
<1>7. PhaseOK'
  BY <1>1 DEF IInv, PhaseOK, Live, life
<1> QED
  BY <1>4, <1>5, <1>6, <1>7 DEF IInv

\* SendAsync starts the http client and waits.
LEMMA SendAsyncInv == IInv /\ SendAsync => IInv'
<1> SUFFICES ASSUME IInv, SendAsync PROVE IInv'
  OBVIOUS
<1> DEFINE r == Started(http, NoUrl)
<1>1. /\ UNCHANGED <<life, object, doomed, client, connects, faults, leaked, asked>>
      /\ http' = r /\ game' = [for |-> "http_start"]
      /\ sends < MaxSends /\ sends' = sends + 1
      /\ phase = "loaded" /\ game = Idle
  BY DEF SendAsync, Native
<1>2. r \in Client /\ Sound(r)
  BY StartedStep, ExtensionAssumption DEF IInv, ExtTypeOK
<1> HIDE DEF r
<1>3. sends' \in 0..MaxSends
  BY <1>1, ExtensionAssumption DEF IInv, ExtTypeOK
<1>5. ExtTypeOK'
  BY <1>1, <1>2, <1>3 DEF IInv, ExtTypeOK, life, WsClient, Client
<1>6. ClientsOK'
  BY <1>1, <1>2 DEF IInv, ClientsOK
<1>7. GameOK'
  BY <1>1 DEF IInv, GameOK, Live, Waiting
<1>8. PhaseOK'
  BY <1>1 DEF IInv, PhaseOK, Live, life
<1> QED
  BY <1>5, <1>6, <1>7, <1>8 DEF IInv

\* Handles are about to be destroyed.
LEMMA DoomInv == IInv /\ (CloseHandles \/ Unload) => IInv'
<1> SUFFICES ASSUME IInv, CloseHandles \/ Unload PROVE IInv'
  OBVIOUS
<1>1. /\ UNCHANGED <<types, object, client, http, game, counts, asked>>
      /\ phase = "loaded" /\ game = Idle
  BY DEF CloseHandles, Unload, Native, life
<1>2. doomed' \subseteq Live /\ Live' = Live /\ Live \subseteq WebSocket
  BY DEF CloseHandles, Unload, Live
<1>3. /\ phase' \in {"loaded", "unloading"} /\ forward' \in BOOLEAN
      /\ phase' = "loaded" => forward' = forward
      /\ phase' = "unloading" => Live \subseteq doomed'
  <2>1. CASE CloseHandles
    BY <1>1, <2>1 DEF CloseHandles, life, IInv, ExtTypeOK
  <2>2. CASE Unload
    <3>1. "WebSocket" \in types \/ Live = {}
      BY <1>1 DEF IInv, PhaseOK
    <3> QED
      BY <2>2, <3>1 DEF Unload
  <2> QED
    BY <2>1, <2>2
<1>4. ExtTypeOK'
  BY <1>1, <1>2, <1>3 DEF IInv, ExtTypeOK, counts, WsClient, Client
<1>5. ClientsOK'
  BY <1>1 DEF IInv, ClientsOK, Waiting
<1>6. GameOK'
  BY <1>1, <1>2 DEF GameOK, Waiting, Idle
<1>7. PhaseOK'
  BY <1>1, <1>2, <1>3 DEF IInv, PhaseOK
<1> QED
  BY <1>4, <1>5, <1>6, <1>7 DEF IInv

\* The end of unloading.
LEMMA UnloadInv == IInv /\ (UnloadRest \/ Unloaded) => IInv'
<1> SUFFICES ASSUME IInv, UnloadRest \/ Unloaded PROVE IInv'
  OBVIOUS
<1>1. UNCHANGED <<forward, object, doomed, client, counts, asked>>
  BY DEF UnloadRest, Unloaded
<1>2. Live = {} /\ Live' = {}
  BY <1>1 DEF UnloadRest, Unloaded, IInv, PhaseOK, Live
<1>3. ~Waiting
  BY <1>2 DEF IInv, GameOK
<1>5. http \in Client /\ Sound(http)
  BY DEF IInv, ExtTypeOK, ClientsOK
<1>6. /\ http' \in Client /\ Sound(http')
      /\ phase' = "unloaded" => http'.pool = "down" /\ game' = Idle
      /\ phase' \in {"closing", "unloaded"} /\ types' \subseteq types
      /\ game' \in {Idle, [for |-> "http_stop"]}
  BY <1>5, StoppingStep DEF UnloadRest, Unloaded
<1>7. ~Waiting'
  BY <1>6 DEF Waiting, Idle
<1>8. ExtTypeOK'
  BY <1>1, <1>6 DEF IInv, ExtTypeOK, counts, WsClient, Client
<1>9. ClientsOK'
  BY <1>1, <1>6 DEF IInv, ClientsOK
<1>10. GameOK'
  BY <1>1, <1>2, <1>7 DEF IInv, GameOK
<1>11. PhaseOK'
  BY <1>2, <1>6 DEF PhaseOK
<1> QED
  BY <1>8, <1>9, <1>10, <1>11 DEF IInv

LEMMA NextInv == IInv /\ [Next]_vars => IInv'
<1> SUFFICES ASSUME IInv, [Next]_vars PROVE IInv'
  OBVIOUS
<1>1. CASE Load
  BY <1>1, LoadInv
<1>2. CASE Unload \/ CloseHandles
  BY <1>2, DoomInv
<1>3. CASE Natives
  <2>1. phase # "crashed" \/ ~Disconnect
    BY DEF Disconnect, WsNative, Native
  <2> QED
    BY <1>3, <2>1, CreateInv, EditInv, ThrowsInv, ConnectInv, StoppingInv, SendAsyncInv DEF Natives
<1>4. CASE Game
  BY <1>4, ReturnInv, StoppingInv, DestroyedInv, UnloadInv DEF Game
<1>5. CASE \E c \in WsClient : Io(c)
  BY <1>5, IoInv
<1>6. CASE HttpIo \/ OnResponse
  BY <1>6, HttpInv
<1>7. CASE InitListener
  BY <1>7, ThrowsInv
<1>8. CASE UNCHANGED vars
  <2>1. UNCHANGED <<life, object, doomed, client, http, game, counts, asked>>
    BY <1>8 DEF vars, life, counts
  <2>2. ExtTypeOK'
    BY <2>1 DEF IInv, ExtTypeOK, life, counts, WsClient, Client
  <2>3. ClientsOK' /\ GameOK'
    BY <2>1 DEF IInv, ClientsOK, GameOK, Waiting, Live
  <2>4. PhaseOK'
    BY <2>1 DEF IInv, PhaseOK, Live, life
  <2> QED
    BY <2>2, <2>3, <2>4 DEF IInv
<1> QED
  BY <1>1, <1>2, <1>3, <1>4, <1>5, <1>6, <1>7, <1>8 DEF Next

(***************************************************************************)
(* The theorems.                                                           *)
(***************************************************************************)
LEMMA AlwaysIInv == Spec => []IInv
  BY InitInv, NextInv, PTL DEF Spec

\* Every state of the extension, its objects and clients is well formed.
THEOREM TypesAlwaysOK == Spec => []ExtTypeOK
<1>1. IInv => ExtTypeOK
  BY DEF IInv
<1> QED
  BY <1>1, AlwaysIInv, PTL

\* session.h: the destructor stops both clients before the object is freed, so
\* that no io thread runs in freed memory, nor in a library that is gone.
THEOREM ThreadsAlwaysBelong == Spec => []ThreadsBelong
<1>1. IInv => ThreadsBelong
  BY DEF IInv, ClientsOK, PhaseOK, Sound, ThreadsBelong, Resting
<1> QED
  BY <1>1, AlwaysIInv, PTL

\* native.cpp Connect: whatever stops, reconnections and calls in between, a
\* client dials a URL that a Connect of it has had.
THEOREM AlwaysDialsWhatWasAsked == Spec => []DialsWhatWasAsked
<1>1. IInv => DialsWhatWasAsked
  BY DEF IInv, ClientsOK, Knows, DialsWhatWasAsked
<1> QED
  BY <1>1, AlwaysIInv, PTL

\* The step that brings the server down has one of the three reasons.
LEMMA CrashStep ==
    ASSUME IInv, Next, phase # "crashed", phase' = "crashed"
    PROVE  \/ \E w \in Live : object[w].url \in BadUrl
           \/ connects' = connects /\ \E w \in Live : object[w].url \in UnbuildableUrl
           \/ \E w \in Live : client[<<w, "cl_ssl">>].st = "starting"
<1>1. CASE GetURLThrows
  BY <1>1 DEF GetURLThrows, counts
<1>2. CASE Connect
  BY <1>2 DEF Connect, life
<1>3. CASE InitListener
  <2>1. PICK w \in WebSocket : client[<<w, "cl_ssl">>].st = "starting"
    BY <1>3 DEF InitListener
  <2> DEFINE c == <<w, "cl_ssl">>
  <2>2. c \in WsClient /\ c[1] = w
    BY ClientPairs DEF Kind
  <2>3. client[c].pool # "down"
    BY <2>1, <2>2 DEF IInv, ClientsOK, Sound
  <2>4. w \in Live
    BY <2>2, <2>3 DEF IInv, ClientsOK, Live
  <2> QED
    BY <2>1, <2>4
<1>4. GetURLThrows \/ Connect \/ InitListener
  BY DEF Next, Load, Unload, CloseHandles, Natives, Game, CreateWebSocket, SetURL, SetSSL, Edit, Disconnect,
         SendAsync, DisconnectReturns, SendAsyncReturns, OnHandleDestroy, DestroyPlain, Destroyed,
         UnloadRest, Unloaded, Io, Becomes, HttpIo, HttpBecomes, OnResponse, life
<1> QED
  BY <1>1, <1>2, <1>3, <1>4

\* native.cpp GetURL and Connect: a native reads a URL that cannot be parsed,
\* GetURL writes one that cannot be built, or a TLS client dials; nothing else
\* brings the server down.
THEOREM CrashesExplained == Spec => CrashExplained
<1>1. IInv /\ [Next]_vars =>
        [phase # "crashed" /\ phase' = "crashed" =>
            \/ \E w \in Live : object[w].url \in BadUrl
            \/ connects' = connects /\ \E w \in Live : object[w].url \in UnbuildableUrl
            \/ \E w \in Live : client[<<w, "cl_ssl">>].st = "starting"]_vars
  BY CrashStep DEF vars
<1> QED
  BY <1>1, AlwaysIInv, PTL DEF Spec, CrashExplained
==============================================================================
