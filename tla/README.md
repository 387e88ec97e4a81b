# sm-ext-Net: verification project

sm-ext-Net is a SourceMod extension. It gives SourcePawn plugins JSON documents,
HTTP requests and WebSockets. These TLA+ modules model the parts of it where
order, concurrency or failure decide what happens; TLC checks them on small
instances, and TLAPS proves the central invariants for all instances.

Paths below are relative to the repository; `asio2/` stands for
`src/common/asio2/`.

    tlc -workers 2 -config ClientWs.cfg Asio2Client      # one run
    tlapm NetJsonProofs.tla                              # the proofs of a module

## 1. Inventory

### Threads

- The **game thread** runs plugins; a plugin calls natives, SourceMod closes and
  clones handles and unloads plugins. Natives do not overlap with one another
  there, and a native that waits stops the game.
- Each asio2 client owns one **io thread**, on which its handlers, timers and
  listeners run. `SendAsync` binds a listener that calls a plugin function, so
  plugin code also runs on the io thread.

### Components

| component | source | state | operations | what is hard |
|---|---|---|---|---|
| JSON natives | `src/json/` | documents on the heap, iterator proxies, handles, files | 55 native entries over about 45 bodies | shared documents behind handles, iterators holding bare references, creation that fails half way, files that do not read back |
| JSON library | `src/common/json.hpp` (vendored) | one value | `operator[]`, assignment, `erase`, `clear`, `get`, `dump` | operations that change the type or the size of what they read |
| asio2 client | `asio2/base`, `asio2/tcp` (vendored) | state, socket, event queue, three timers, the io pool | start, stop, connect, reconnect, disconnect, send, receive | every interleaving of timers, completions, stops and starts |
| asio2 HTTP and WebSocket clients | `asio2/http` (vendored) | parser and stream | blocking `execute`, receive loop, upgrade | the receive loop around a user callback |
| HTTP natives | `src/net/http/` | requests, responses, one static client | create, edit, prepare, `Send`, `SendAsync`, response getters | one client shared by all calls, captured references, callbacks on the io thread |
| WebSocket natives | `src/net/websocket/` | a URL, a flag, two clients | create, set, connect, disconnect, send | destruction while connecting, the wrong client stopped, exceptions that leave a native |
| URL | `src/common/url.*` | parts and string with two lazy flags | parse, build, setters, copy, move, a reference to the query | flags out of step, numbers that overflow, texts that do not come back the same |
| Life cycle | `src/extension.cpp`, the `main.cpp` files | registered types and natives, the forward, one static client | load, unload | unloading while io threads run |
| io_context, interop, console variables, build | `src/common/io_context.cpp`, `interop.h`, `src/detail/cmd.cpp`, CMake | none that matters | | the global io_context is never polled |

The other asio2 protocols (mqtt, rpc, udp, icmp, serial, socks) are vendored and
unused.

How they interact: natives reach objects through SourceMod handles; `SendAsync`
and `WebSocket.Connect` hand work to an io thread by pushing an event, and
`start` and `stop` wait on a promise that thread sets; listeners come back from
it. `GetBodyAsJSON` turns a response into a document of the JSON natives.

What makes each component correct:

- JSON: a handle always resolves; an iteration over a changing object sees every
  key that stayed and none twice; an error changes nothing half way; nothing
  leaks; a file that was written can be read.
- client: exactly one event runs at a time and none is forgotten; `start` and
  `stop` return; a stop is final; nobody hears of a connection's end twice; old
  timers and old reads do not touch a new connection.
- HTTP: the request is alive when the listener reads it; the answer goes to the
  plugin that asked; a plugin hears what became of its call; a request is framed
  as its body is.
- WebSocket and life cycle: no io thread outlives the object, or the library, it
  belongs to; a client dials what it was asked to; destroying and unloading come
  back.
- URL: the lazy object cannot be told from an eager one; a text that is read back
  means what was written.

## 2. Plan

| step | modules | state |
|---|---|---|
| 1. JSON natives and their proofs | `JsonValue`, `NetJson`, `MCNetJson`, `NetJsonProofs` | done |
| 2. The client, its event queue, the WebSocket upgrade and close handshake | `SerialExecutor`, `Asio2Client` | done |
| 3. What the client promises its user | `ClientCalls`, `ClientPromise`, implemented by `Asio2Client` | done |
| 4. `SendAsync` over the client; how a request is framed | `HttpNatives`, `HttpMessage` | done |
| 5. WebSocket objects, loading and unloading, over clients that keep the promise; proofs | `Extension`, `ExtensionProofs` | done |
| 6. The URL: text there and back; the lazy object against an eager one; proofs | `Ipv6`, `UrlText`, `UrlRoundTrip`, `Url`, `EagerUrl`, `UrlProofs` | done |
| 7. The guard of the client's event queue, proved | `ClientProofs` | done |
| 8. Sockets, reads, notifications and timers of the client, proved | `ClientSafety` | done |
| 9. `SendAsync` over that client, proved | `HttpProofs` | done |
| 10. That the client implements `ClientPromise`, proved | `PromiseProofs` | done |
| 11. That the text of a URL comes back, proved | `RoundTripProofs` | done |

No module uses a RECURSIVE operator.

## 3. The modules

How they build on one another:

    JsonValue <- NetJson <- NetJsonProofs
    Ipv6 <- UrlText <- UrlRoundTrip <- RoundTripProofs
                    <- Url          <- UrlProofs          Url implements EagerUrl
    Asio2Client <- HttpNatives, HttpMessage     <- HttpProofs
                <- ClientProofs <- ClientSafety <-        Asio2Client implements SerialExecutor
                                                <- PromiseProofs  and ClientPromise
    ClientCalls <- ClientPromise
                <- Extension <- ExtensionProofs

### JsonValue, NetJson: the JSON natives

`JsonValue` has the values and, as operators, what nlohmann::json does to the
top level of one: `AtKey`, `AtIndex`, `WithoutKey`, `Pushed`, `Cleared`,
`Printed`. An object is a function from keys, an array a sequence; a scalar
keeps what the natives tell apart (the value `clear` resets it to, another, a
NaN, a string that is not UTF-8).

`NetJson` has one action per native, or per family of natives that differ in the
stored type only. `heap`, `proxy` and `handle` are the C++ documents, the
`ObjectIteratorProxy` objects and SourceMod's handle table, `file` is what a
parser would make of each file. `CloneHandle`, `CloseHandle` and `PluginUnload`
are what SourceMod does between natives; it is external to `src/`.
`GetResponseBodyAsJSON` is the native of `src/net/http` that makes a document of
a response. Wherever a native creates a handle, creation may fail, and the action
then does what that native's error path does: delete the document, or leak it.
Undefined behaviour (dereferencing an iterator at the end, an index of -1) sets
`ub` and ends the run: nothing is said about what follows it. `CreateIterator`
takes any document. Of a null or a scalar the iterator is a counter, and harmless
(`other`). Of an array it is a vector iterator (`array`); how far it has come and
whether the elements have moved is not tracked, so `More` and `Next` on it may
answer and may be undefined. One made of a null document was never set when the
document has become an object or an array. `Clear` first reads a second parameter,
which may be no address in the plugin's memory: the native's declaration is not in
the repository. With `Careful` the plugins keep to a discipline (the `CareOver`
operators: free and change nothing under an iterator, ask no iterator at the end,
walk no array with one, never index with -1, pass `Clear` an address); the question
is whether it suffices. `visit` and `faulted` are history.

### Asio2Client: the client

The io thread runs one handler after another. A handler may run several library
functions inside one another, and the game thread may read the shared state
between any two, so an action is not a handler but a function of the call stack:
`todo` is the stack of what is left to run, `ioq` the queue of completed
handlers, `op` the operations still pending.

- `events` is `event_queue_cp`. `Push` is `push_event`; the guard that keeps the
  front event there is implicit, in whichever frame, handler or operation
  carries it (`Holders`), and is released by the frame `Release`, whose action
  `NextEvent` is the guard's destructor. Called in a callback, `push_event` does
  not post: it queues at once, and overtakes what is still posted.
- `RunConnect`, `StartConnect`, `HandleResolved`, `HandleConnected`,
  `HandleUpgraded`, `DoneConnect`, `NotifyConnect`, `AfterConnect` are
  `_do_connect` through `_done_connect`; a WebSocket client upgrades in between,
  under the same connect timer. `chain` is the rest of the caller's promise.
- `DisconnectInPlace`, `DisconnectQueued` and `Disconnect` are `_do_disconnect`
  with and without a guard and the callback of `_post_disconnect`;
  `HandleClosed` and `HandleDisconnect` come after the close handshake that a
  WebSocket client makes first. `HandleControl` is the close frame of the peer: its
  control callback disconnects while the read is still pending.
- `ctimer`, `rtimer`, `dtimer` are the connect, reconnect and disconnect timers.
  A timer knows the attempt it was made in: the library compares shared
  pointers, the model numbers.
- `Start`, `StartReturned`, `Stop`, `StopPool`, `StopReturned` are the game
  thread in `start` and `stop`, up to the join of the io thread.
- `NetResolve` ... `NetClose` are the resolver, the peer and beast, external.

Six constants choose the client: `SendAsync` uses one that does not reconnect,
waits in `start`, sends in its connect listener and stops in its receive
listener; the WebSocket natives use one that upgrades, reconnects and is started
asynchronously.

### SerialExecutor, ClientPromise, ClientCalls: what the client promises

`SerialExecutor`: tasks run one at a time, in order, to their end, and each gets
its turn. `QueueIsFair` in `Asio2Client` says that the event queue implements
it, under the mapping tasks = `events`, running = the front event has left the
frame `Run`.

`ClientPromise` is the client as the thread that uses it sees it: calls are
taken in the order they were made (a call made in a callback may cut in), a
start takes effect on a stopped client only, a client that was stopped does not
dial again, and `stop` comes back to find the io thread gone. `KeepsPromise`
(safety) and `KeepsPromiseFair` say that `Asio2Client` implements it; the calls
of the abstract client are the connect and stop events that wait in the queue
or are posted to it (`PendingCalls`), and `host` is the call it dials for.
`ClientCalls` has the promise's steps as sets of successor records, so that
`Extension` can have many clients, each of which does all that its promise
allows and nothing else.

### HttpNatives: SendAsync

Extends `Asio2Client` by the requests, the listeners and what they capture.
`SendAsync` is split where it waits: up to `start`, and `SendAsyncReturns` with
its `FreeHandle`. Inside a response function, on the io thread, it does not wait
(`SendAsyncInCallback`). `bound` says which call each listener of the static
client belongs to, `raw` which request a call's listeners refer to. The connect
listener sends or reports, the receive listener calls the plugin's function, the
disconnect listener reports. Over https the native makes a client and sends nothing
(`SendAsyncSecure`). `outcome`, what a plugin has heard of each call, `wire`,
`overlap` and `nested` are history.

### HttpMessage: how a request is framed

One request: its method, the length of its body, its Content-Length and its
Transfer-Encoding. `SetMethod`, `SetHeader` and `SetBodyText` change one of them
each, `Prepare` is beast's `prepare_payload`, which throws for a TRACE with a body,
and nobody catches it (`died`). `Execute` writes the message as it is (`Send`);
`AsyncSend` prepares one that has neither length nor chunks (`Checked`, which is
`_check_http_message`). `prepared` and `edits` are history.

### Extension: the life cycle and the WebSocket natives

`phase`, `forward` and `types` are what `SDK_OnLoad` and `SDK_OnUnload` of the
parts register and take back; `object` is each `WebSocket`'s URL and flag (or
`Free`), `client` its two clients as `ClientCalls` records, `http` the client of
`SendAsync`. `game` is what the game thread waits for: `CloseHandles`,
`OnHandleDestroy`, `DestroyPlain` and `Destroyed` are `delete` of a `WebSocket`,
whose destructor stops `cl_ssl`, waits, stops `cl`, and waits. `Unload`,
`UnloadRest` and `Unloaded` are unloading, up to the destructor of the static
client. `Disconnect` stops the client that `use_ssl` does *not* select, as the
code does. A native that lets `parse_error` out (`GetURLThrows`, `Connect`) or
`build_error` (`GetURLThrows`: a URL that parses and cannot be written, as one with
an empty query key) ends the server, and so may the TLS client's init listener,
which follows a reference to a local variable of `Connect`. `asked` is history.

### Ipv6, UrlText, UrlRoundTrip: the text of a URL

`UrlText` is `parse_url`, `build_url`, `normalize_path` and the setters'
checks, on the components between the delimiters; `Ipv6` is `is_valid_ipv6`,
`decode_IPv6` and `normalize_IPv6`, field by field, next to what RFC 4291 and
RFC 5952 call an address, a spelling and the recommended one (`Spellings`,
`Recommended`). What goes along a sequence (`Walked`, `Groups`) is a recursive
function. `UrlRoundTrip` is a plugin that sets a URL, reads it and sets what it
has read, again and again. `Written` may be any set of texts (`IsText`): strings
for the names, any number for a port, any path, query and IPv6 literal, right or
wrong, as long as no part holds the delimiter that ends it (`Delimited`); the
fields of an address are any set of numbers below 2^16 with 0 among them
(`Field`). The words of `is_uint` are counted modulo `Word`; TLC's
integers have 32 bits, so the run takes 100000 for 2^32 and offers the port
100080, which wraps to 80.

Where the code departs from the RFCs the properties exempt the case by name, and
say so. `Legal` leaves out

- `0::` and the like, which normalise to `:` (`SpoiltZero`);
- `[v4.name]`, `[v0.1.2.3.4]` and `[v0.a:80]`: under version 0 and 4 a host is
  written without the brackets and then means something else, the last one a host
  and its port (`Coloned`, `Reread`);
- IPv6 hosts that are no spelling of an address.

`ValidExactly` names two cases where `is_valid_ipv6` is wrong: six fields, a double
colon that stands for nothing, and a dotted tail are accepted (`SixAndTail`); a
spelling with a dotted tail that is longer than 39 characters is refused, although
it may have 45 (`TextLength`, with the length of the tail a constant). A version of
two digits is always refused (`BadVersion`), because its second digit is looked at
where the dot is expected. A default port is not written and an empty host has no
version (`Rebuilt`).

### Url, EagerUrl: the lazy object

`Url` is the class: `m_url`, `m_parse`, `m_built`, the parts, and who holds the
reference that `set_query` hands out (`held`). `EagerUrl` is what the header
promises: a URL is a value. The reference is to a member, so it stays good over
`clear()`, `str(text)` and the assignments, which say that the text is current; what
is written through it then no flag knows of. `KeepsReference` says whether callers
do that or ask for a new reference; only for those who ask is the object current
and eager. With `KeepsReference = TRUE` in `UrlLazy.cfg` TLC shows the other kind at once:
`q = set_query(); clear(); q.emplace_back(..)` leaves an object with a query whose
`str()` is the empty text, although `str()` is said to build the URL if needed
(url.hpp:63). `LooksEager` is the refinement, under the mapping
value = `Seen`, the parts the next look would find or `ParseError`; `out`, what
each call returned or threw, is the same in both.

## 4. What the runs check

Every property has a mutant: a plausible bug in a mapped definition that breaks
it under the same configuration.

| run | instance | properties and what they say |
|---|---|---|
| `json_iterate` | one object of up to three keys, two iterators, three handles | `TypeOK`; `IteratorsStand`: no iterator stands on an element that went away unnoticed; `IterationComplete`, `NoRevisit`: a loop that reaches the end saw every key that stayed, none twice |
| `json_values` | two documents, nested elements, NaN, ill-encoded strings, indices -2..1, one file | `ErrorsOnlyPad`, `ReadsOnlyPad`: an error or a read changes nothing but the length of an array asked beyond its end. `FilesReadBack`, `TornOnlyOnError`: a file reads back, and is torn only by a `ToFile` that reports its error |
| `json_handles` | two plugins that obey the discipline, three handles, indices -2..0, up to two natives whose creations fail | `HandlesResolve`; `LeakOnlyOnFault`: only `Get`, `LoadFromFile` and `GetResponseBodyAsJSON` leak, and only when a step of theirs fails; `CarefulIsDefined`: the discipline rules out all undefined behaviour |
| `client_http` | the client of SendAsync, two addresses, three starts | `TypeOK`; `StartedHasSocket`: no late connect timer closes a socket in use; `OneReadOneWrite`; `StopLeavesNothing`: when stop has returned nothing is queued, open or announced; `KeepsPromise`, `KeepsPromiseFair`; `CallsReturn`: start and stop return, if `PeerMoves` (section 5) |
| `client_ws` | the reconnecting WebSocket client, three starts, three attempts | `OneGuard`; `StaleReadHarmless`: the read of a dead connection never disconnects its successor; `NotifiedOnce`: each connection's end is heard once; `NoReconnectAfterStop`; `KeepsTrying`; `QueueIsFair`; `KeepsPromiseFair` |
| `http_async` | two requests, three calls, nested ones included | `RequestAliveOnConnect`; `AnswerBelongs`; `EveryCallHeardOf`: once the client rests, each call that met no other has failed, or its connection has ended, with or without an answer |
| `http_message` | one request, three lengths, three methods, every order of editing | `FramedOnWire`: what goes out can be taken apart, whatever was set before the last `Prepare`; a length or coding the plugin chose itself since, or a body behind a length, is exempt |
| `extension` | one object with two clients and the static client, URLs that are fine, that do not parse, that cannot be built | `ExtTypeOK`; `ThreadsBelong`: no io thread outlives its object or the library; `DialsWhatWasAsked`; `CrashExplained`: the three ways a step brings the server down; `GameReturns`: a native or a destructor comes back from a client that keeps its promise |
| `url_lazy` | two objects, every sequence of four calls, callers that ask for a new reference | `BuiltIsCurrent`: a stored text is handed out only if it is that of the parts; `LooksEager` |
| `url_text` | every spelling of every address over two fields, texts of up to six tokens and oversized ones, hosts, ports, paths and queries of every kind, two trips | `RoundTrip`: what is built parses to the same parts; `AddressKept`: an address comes back the same, in the recommended spelling; `ValidExactly`; `Settles` |
| `client_timeout`, `client_assert` | | violated: the findings below |

The bounds. Two iterators on three keys are enough for one to be before, at and
behind a key the other sees removed. Two documents let one native take its value
from another or from itself. Two failing natives (`MaxFaulty`) are one more than
a leak needs. Two addresses are the least with a failure in the middle of a
dial. Three starts let a start meet a client that is connecting, connected or
being stopped; a fourth meets nothing new, because the queue holds the
difference. Two calls of SendAsync are what it takes to overlap; the third may come after both. One WebSocket
object has both clients, and objects share nothing but the game thread, which
`ThreadsAlwaysBelong` is proved for in any number; two calls of Connect are what
it takes for the second to meet the first. Four calls on a URL are set, copy,
change, look, or any other four. Two fields, zero and another, tell runs of zeros from
the rest, which is all that normalisation looks at; the theorems are for any fields. Deadlock is not checked in
the client's, URL's and extension's runs, because calls are bounded, a client
after its last stop has nothing to do, and a crashed server stops.

## 5. Fairness

`Fairness` of `Asio2Client` is weak fairness of the two threads, of the timers,
of the resolver and of the close handshake: threads are scheduled, asio's timers
expire, the system resolver answers or fails, and beast gives a close handshake a
time limit. There is none for the peer: connecting, upgrading, receiving and
writing may take for ever; nor for plugins, which need not call anything.

Two waits of the client have no bound in the code, and start and stop may wait
with them. A peer that stops reading leaves the guard with the send of a connection
that stands: the disconnect timer is made in `_post_disconnect` only, and a stop is
queued behind the send. And a second address may be dialled with no timer left
(`Untimed`), which is what `client_timeout` finds. `PeerMoves` says that neither
wait lasts for ever, and `CallsReturn`, `QueueIsFair` and `KeepsPromiseFair` are
claims under that condition. A write that is pending when the client disconnects is
not in it: there the disconnect timer must get the guard back, and it is shown to.

`Extension` assumes nothing of its clients but what `ClientPromise` allows. The
condition that a client takes its calls and ends (`Ends`, the fairness of
`ClientPromise`) is the premise of `GameReturns`, for each wait that of the one
client waited for: a client whose peer stalls holds up those who wait for it and
nobody else. `KeepsPromiseFair` checks, for the http client with two addresses and
for the WebSocket client, that the premise holds as long as `PeerMoves` does. The
game thread itself is fair.

## 6. What is proved

`NetJsonProofs` proves for every set of plugins, documents, iterators, handles,
keys, scalars and files, with no assumption beyond `KeyAssumption`,
`ScalarAssumption`, `MaxSizeAssumption` and `NetJsonAssumption`:

- `TypeCorrect`, `HandlesAlwaysResolve`, `IteratorsAlwaysStand`,
  `IterationAlwaysComplete`, `NeverRevisits`: `Spec` implies always the property
  of the same name in the runs.

The invariant is `IInv == TypeOK /\ HandlesResolve /\ IteratorsStand /\ VisitOK`.
`IterationComplete` is not inductive: it says something of iterators at the end
only. `VisitOK` says it of iterators on the way: an iterator on a key has stood
on no greater one and on every smaller key it must reach. It needs
`IteratorsStand`, or `++` would start from a key that is not there, and that
needs `HandlesResolve`, or a document could be freed under a live handle.
`NoRevisit` follows from the same order of keys.

There are thirty natives and few effects. `Effect` lists the ways a step may
touch documents, iterators and handles; `NextEffect` shows that each action is
one of them, and `IInv` is preserved effect by effect. The module begins with
the lemmas on the value operators these need.

The same module goes on, under the same assumptions, to what errors, files and
careful plugins do:

- `ErrorsNeverTear`, `ReadsNeverWrite`, `NoSilentTear` (action properties),
  `FilesAlwaysReadBack`, `LeaksOnlyOnFault` and `CarefulAlwaysDefined`.

For these `Effect` also says what a step reports and records (`Told`): a step
that reports an error only pads an array, a file is written only as `ToFile`
writes it, `faulted` never shrinks, and `ub` is reached only by a plugin that is
not careful or over an iterator that is `Stranded`: in a freed document, or on
one that became an object under it. An iterator that walks an array is kept out by
the discipline itself (`FailureIsStranded`). `CareInv` says that careful plugins leave no
iterator stranded. It needs `IInv`: that an iterator's document exists is what
its handle is for.

`ClientProofs` proves, for every configuration of the client, any number of
addresses and any bounds, with no assumption beyond `ClientAssumption`:

- `ClientTypeSafe` for `TypeOK`; `GuardNeverLostNorDoubled` for `OneGuard`;
- `QueueRunsSerially`: `Asio2Client` implements the safety part of
  `SerialExecutor`.

`OneGuard` counts; what is inductive is where the one guard is. `Guarded` says
that without an event no frame, handler or operation holds it, and with one,
either one frame, or one handler, or one operation does, and the other two kinds
do not. A step moves the guard from one place to another: `StackStep` and
`HandlerStep` when a frame or a handler makes way for others, `PutOp` and
`GiveBack` when an operation begins and ends, `AbortGuarded` and `CloseGuarded`
when operations are aborted, `PushGuarded` when an event is queued. The one
frame that takes no guard although it runs under it is the connect
notification, whose listener may queue a request without running it; `Followed`
says that the frame with the guard is right below it. For the refinement: an event
begins when the frame `Run` leaves the stack, and `Run` holds the guard, so
there is at most one and none while an event runs.

`ClientSafety` goes on from there, under the same assumption, to what the guard
is held for:

- `NothingConnectsAfterStop` for `NoReconnectAfterStop`, an action property;
- `ConnectionHasSocket` for `StartedHasSocket`, `OneReadOneWriteAtATime` for
  `OneReadOneWrite`, `OldReadsDoNoHarm` for `StaleReadHarmless`,
  `EndsAreNotifiedOnce` for `NotifiedOnce`, `NothingIsLeftBehind` for
  `StopLeavesNothing`.

None of these is inductive: each says what a step finds when it comes, not why
nothing else can be under way. `FitInv` says why. Whoever holds the guard fits
the state of the client: a frame, handler or operation of a connection attempt
exists only while the client is starting, one of a disconnect only while it is
stopping, and an event that is about to run or to be popped finds the client
settled. With one guard (`OneGuard`) this leaves one thing under way. Upon it:
`EndInv`, a connection that ends has one disconnect event waiting for it;
`ReadInv`, a connection in use has one reader, and a read that fails late finds
the client not started or already disconnecting; `LinkInv`, what the user has been
told of the connection; `PoolInv`, after the io thread nothing is left to do;
`ReconnectInv`, a stop has cancelled the reconnect timer.

An invariant speaks of what the stack, the queue of handlers, the event queue
and the operations hold as marks in sequences (`NoneOf`, `OneOf`). What a step may add
to each sequence is proved once (`HandlersAdded`, `EventQueued`, `FramesPut`), so an
invariant looks only at the steps that add or take away what it speaks of.

`PromiseProofs` proves that the client implements `ClientPromise`:

- `ClientKeepsPromise` for `KeepsPromise`, the safety part of the refinement.

Beyond `ClientAssumption` it assumes `StartOnRecv => StopOnRecv`: a receive
listener that starts the client also stops it, after that. The one listener of the
extension that starts, that of `SendAsync`, ends with its `stop`, and so does every
run. Without it the promise fails: on a client that does not reconnect, a listener
that only starts may do so behind the stop the game thread waits for, and `stop`
comes back with a start in effect and no io thread to serve it.

Each step of the client is one step of the promise or none (`EveryStep`). Which
one depends on what is waiting, so `PromiseInv` adds to the invariants of
`ClientSafety`: `HeadInv`, a stop that goes on is the event at the front, and the
client is no longer wanted; `RetryInv`, a client that does not reconnect has no
timer or event that would; `OrderInv`, the game thread's stop is its last call
until it returns; `CallbackInv`, inside the receive callback the client is in use;
`FollowInv`, a start made in the callback is followed by its stop; `CloseInv`, once
`stop` only waits for the io thread, the calls left are those of the callback and
end with a stop. The calls of the abstract client are those along the event
queue and the posted handlers (`CallsAlong`, a recursive function). That gathering
them commutes with appending and with taking the head (the lemmas `Gather...`)
is proved by induction over sets of naturals (`SetInduction`, from the
well-foundedness of their order), which needs no operator as a parameter.

`HttpProofs` proves for any number of requests and calls:

- `HttpTypeSafe` (the type invariant, which no run repeats), `AnswersBelong` for `AnswerBelongs`,
  `RequestOutlivesStart` for `RequestAliveOnConnect`; and, of `HttpMessage` and any
  set of lengths, `MessageTypeSafe` and `MessagesAreFramed` for `FramedOnWire`. The
  invariant of these, `FramingInv`, says what the history of edits tells of the
  message: without an edit to the coding there is none, without any edit the length
  is that of the body or is not there.

Each step of `HttpNatives` is a step of the client (`HttpIsClient`), so all that was
proved of the client holds here. `AnswerBelongs` needs `WireInv`: while something is
read of a connection, its request is that of the last call, unless that call
overlapped another. `RequestAliveOnConnect` is the hard one: `FreeHandle` follows
`start`, so the connect listener must not come after `start` has returned.
`AskedInv` says what this client never does (it is not stopped by the game thread
and does not reconnect); `AnswerInv` says that the answer `start` waits for is in
one place, the posted push, the event queue, the attempt or the frame that
returns it, and nowhere once it was given; `CallInv` says that after that answer
nothing connects, unless a response function called `SendAsync` again.

`ExtensionProofs` proves, for any number of objects and URLs and any bounds, with
no assumption beyond `ExtensionAssumption`:

- `TypesAlwaysOK`, `ThreadsAlwaysBelong`, `AlwaysDialsWhatWasAsked`,
  and `CrashesExplained` for `CrashExplained`.

The invariant says, beyond these, which clients are resting when the game thread
has waited for them: between `DestroyPlain` and `Destroyed` the TLS client is
already at rest and nothing can start it, since the handle of a doomed object is
gone. That a step of a client touches only what its promise lets it touch is
proved once, for the operators of `ClientCalls`, and used for every client.

`UrlProofs` proves, for any objects, texts and calls, of callers that ask for a new
reference (`~KeepsReference`):

- `NeverStale` for `BuiltIsCurrent` and `LazyIsEager` for `LooksEager`: every
  call on the lazy object is the same call on the eager one or a stutter. What
  parsing, building and the setters compute is a parameter of `EagerUrl`, and
  the proof looks into them only for what an empty text is.

`RoundTripProofs` proves, for every set of texts and every set of fields, with no
assumption beyond `FieldAssumption`, `UrlAssumption` and `RoundTripAssumption`:

- `UrlComesBack` for `RoundTrip` and `AlwaysSettles` for `Settles`. The invariant
  `ReadBack` says that the parts of a legal text are `Normal` and that the text is
  built from them. That is inductive because normal parts come back
  (`BuildAgain`) and building forgets nothing that a second building would use
  (`RebuiltBuilds`): `normalize_path` and `to_lower` change nothing the second
  time (`NormalizePathIs`, `LowerLower`), a version is written so that it is found
  again (`HostAgain`), and what normalising makes of an address stays as it is.
- `AddressAlwaysKept` for `AddressKept`: whatever the spelling, what comes back is
  what RFC 5952 recommends. A spelling is the fields `X`, zeros left out, the
  fields `Y`, and perhaps an IPv4 address (`Form`, `FormIsSpelling`).
  `normalize_IPv6` puts exactly the zeros back (`NormalForm`, `NormalFull`), finds
  the first longest run of zeros in what it has (`LongestIs`), and writes that
  run as the recommended spelling does (`RecommendedIs`, `EncodedIs`).
- `ValidAlwaysExact` for `ValidExactly`: `is_valid_ipv6` accepts every spelling,
  but for those longer than 39 characters
  (`SpelledValid`), and what it accepts is one (`ValidSpelled`), because a text of
  the right lengths can be cut at its double colon.
- `StaysDelimited`, which no run checks: in a text that `build_url` has written no
  part can be taken for another, a host with a colon and its port included, unless it
  is one of the texts `Legal` leaves out. It does not begin with two slashes where there
  is no host, for instance, although a path of empty segments was set. So to write
  the parts out and split them again, which the model leaves out, loses nothing.

What goes along a sequence is known by its steps (`FoldExists`, `FoldGrows`) and by
induction on the length, stated over sets of numbers (`SetInduction`), since an
induction theorem over a predicate is out of the provers' reach.

Only model-checked:

- All liveness and fairness, which the prover does not reach: `CallsReturn`,
  `KeepsTrying`, `QueueIsFair`, `KeepsPromiseFair`, `GameReturns`.
- `EveryCallHeardOf`.
- What the findings refute.

## 7. Findings

- `client_timeout`: `connect_timeout_cp.hpp` closes the socket when the connect
  timer expires, "so the async_connect will returned with operation_aborted". If
  the refusal of the first address is already queued, there is nothing to abort;
  its handler opens the socket again and dials the second address, with the
  timer gone.
- `client_assert`: `_do_stop` asserts that the client is stopped. A connection
  that is lost while the stop waits in the queue has set the state to stopping
  and queued its own disconnect behind the stop. In a release build the stop
  still ends well (`StopLeavesNothing`).

Read in the code, visible in the model's actions, and contradicting no text that
a run could quote:

- `SendAsync` with `use_ssl` creates a client and sends nothing; `Send` and
  `SendAsync` ignore their timeout in effect; `SendAsync` takes the function
  before the flag, against the methodmap in `native.h`.
- `WebSocket.Disconnect` stops the client that `Connect` did not start, so a
  connection ends only with its object (`Disconnect`).
- `GetURL` and `Connect` do not catch what the URL throws (`CrashExplained`), nor
  `Prepare` what beast throws for a TRACE with a body (`HttpMessage`).
- `Clear` of a document reads a string parameter it does not use, and does not ask
  whether there was one.
- A peer that stops reading holds up `stop` (`PeerMoves`).
- A query written through a reference kept over `clear()` or an assignment is not in
  the text `str()` returns (`KeepsReference`).
- The init listener of the TLS client outlives the variable it refers to.
- Connect on a client at work is refused on the io thread, unheard.
- Unloading leaves the static client to its destructor.
- A URL whose address is all zeros is written as `:` and can then not be read;
  a port of more than 32 bits wraps; `host()` rejects names made of hexadecimal
  digits that `parse_url` accepts.

## 8. What is left out

Of the repository's source, most is vendored and never instantiated by the
extension: mqtt, rpc, udp, kcp, icmp, serial, socks, the http parser's tables,
and the parts of json.hpp for CBOR, BSON, MessagePack and UBJSON. A model of
these would say nothing of this program. The extension's own sources
(`src/json`, `src/net`, `src/common/url.*`, `src/extension.cpp`) are mapped almost
whole, and of asio2 the components its two clients are made of.

- The TLS handshake. `Extension` assumes that a TLS client keeps the same promise
  as a plain one: the handshake sits where the upgrade does, under the same timer.
- The bodies of responses, and headers other than Content-Length and
  Transfer-Encoding: no property depends on them. The getters of a response other than
  `GetBodyAsJSON` return a field and change nothing.
- What a plugin can do to *another* request or document from inside a response
  function while the game thread uses it. The SourcePawn VM is not made for two
  threads, and what it does then is not in this repository.
- The moment between binding the listeners and starting the client: the binding
  is one step with the start. Two calls that overlap are already told apart by
  `overlap`.
- In `Extension`, a `SendAsync` from inside a response function (it is in
  `HttpNatives`), a second stop waiting in the http client's queue, and frames:
  `Send` of a WebSocket does nothing, its receive listener neither.
- Promises set after the guard is released (`connect_cp.hpp:484`): the caller
  wakes between two steps of the io thread either way.
- Thread creation, the pool with more than one io_context, proxies, the io thread
  ending because of an exception.
- The JSON parser: a text is a value or an error.
- Of URLs: percent encoding and the characters each part allows (a text that
  fails there is `Malformed`), groups of more than five digits, text behind `]`, references to one query entry, and
  the debugging output.
- The console variables, the conversion of cells and the global `io_context`,
  which nothing ever polls: no state that matters.
