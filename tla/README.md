# Verification of go-browserchannel

TLA+ models, model-checking runs and machine-checked proofs for the browser
channel protocol: the server in `src/browserchannel`, and the client it talks
to, `goog.net.BrowserChannel` of the Closure Library.

## 1. The system

A browser channel is a bidirectional socket made of HTTP requests. The page
posts *maps* (the forward channel); the server streams *arrays* in the response
of a long-lived GET (the back channel). Either may be retried, replaced or lost.

| component | state | operations |
|---|---|---|
| `Channel` (`channel.go`) | `state`, `backChannel`, `outgoingArrays`, `lastArrayId`, `lastSentArrayId`, two timers, `heartbeatStop`, `mapChan`, all under `lock` | `SendArray`, `Close`, `terminate`, `receiveMaps`, `acknowledgeArrays`, `setBackChannel`, `getState`, two timer functions, the heartbeat goroutine |
| back channel (`backchannel.go`) | `dataChan` (128 chunks), `bytesSent`, `chunked`, `err` | `send`, `discard` (under the channel's lock), `wait` (in the request's goroutine) |
| map queue (`map.go`) | `next`, `maps`, `capacity` | `enqueue`, `dequeue` (under the channel's lock) |
| handler (`handler.go`) | session map, `gcChan` (10) | test and bind requests, `removeClosedSession` |
| parsing (`utils.go`) | none that outlives a request | `parseIncomingMaps`, `parseMapEntry` |
| framing (`html.go`), session ids (`sessionid.go`), CORS | none | pure functions and I/O |
| application (a `ChannelHandler`) | its own | reads `Maps()`, calls `SendArray`, `Close` |
| client (`browserchannel.js`, `browsertestchannel.js`) | `state_`, `lastArrayId_`, outgoing and pending maps, the two requests, retry and dead timers, `useChunked_` | tests the connection, opens and replaces back channels, acknowledges with AID, posts and retries maps, disconnects |

How they interact. Each HTTP request is a goroutine; a bind request looks the
session up, acknowledges (one lock section), and then sets a back channel and
waits on it, or hands over maps, or terminates (another lock section). Timers
start goroutines of their own when they expire. The application has a goroutine
per session and reads `mapChan`, which `dequeueMaps` fills while it holds the
lock. `terminateInternal` sends to the heartbeat goroutine and to the collector
of sessions, also under the lock. All sessions share the collector.

What makes it hard: timer functions that `Stop` comes too late for; state read
before one lock section and used in the next; methods that block on Go channels
while they hold the lock; connections that die unnoticed, so that what was sent
may have to be sent again; acknowledgments, retries and whole requests that
arrive late; termination from five sides (client, two timers, application,
heartbeat); a body whose entries are visited in no particular order.

What must hold, by component:

* Channel: the client gets the arrays in order, none lost, none twice; the
  buffer is bounded by forced acknowledgments; a session always has the timer
  that will end it; `mapChan` is closed once; no request hangs; calls return;
  a session whose client is gone leaves nothing behind.
* Map queue and forward channel: maps arrive in order and once; what the client
  reports as delivered is, what it reports as undelivered is not.
* Back channel: what is in a data channel was sent and is drained or dropped.
* Handler: only a closed session is unknown; every session that is created ends;
  a session that is stuck does not stop the others.
* Parsing: the two encodings fit; the order of the entries decides nothing.
* Client: it streams exactly if the network lets it; it keeps a back channel
  open; a closed channel is quiet.

`PROJECT.json` lists the hazards with the line where each bites.

## 2. Modules

| module | what it models |
|---|---|
| `BackChannel` | the record of a back channel and its methods; a chunk is the sequence of arrays marshalled together, bytes are counted in arrays. The XHR and the HTML variant share it: their loops in `wait` differ in framing only |
| `MapQueue` | `enqueue` and `dequeue`; a map is its id |
| `ChannelMethods` | the methods of `Channel` as functions on the record of its fields, and what the holder of the lock may rely on (`Timed`, `MapChanMatches`, `Window`) |
| `Channel`, `MCChannel` | one session with everything that acts on it (section 3) |
| `ArrayStream` | abstract: what a channel promises to the client |
| `Session` | abstract: what a session is to everything around it; `Channel`, each session of `Handler` and the server of `Client` implement it |
| `ForwardChannel` | the client's forward channel against the map queue (section 4) |
| `MapStream` | abstract: what the forward channel promises to the application |
| `Handler` | several sessions, the session map and its collector, bind requests of every kind (section 5) |
| `TestChannel`, `Client` | the client's connection test; the client's back channel from there to the end (section 6) |
| `Parsing` | the body of a POST, as the client writes it and as the server reads it (section 7) |
| `ChannelMethodsProofs` | lemmas about the methods, what they do to data, waiting requests, timers, the lock and the session as others see it; used by the proofs of `Channel` and `Handler` |
| `ChannelProofs`, `ChannelFlowProofs`, `ChannelStreamProofs`, `HandlerProofs`, `ClientProofs`, `ParsingProofs`, `ForwardProofs` | the theorems (section 9) |

`Channel` and `Handler` extend `ChannelMethods`: the same methods, called by one
session with all its surroundings or by several with fewer. `Channel` and
`ForwardChannel` extend `MapQueue`, `Client` extends `TestChannel`.

Operators named in a comment as *Mutant* are wrong versions of the definition
that follows them. Nothing uses them; putting one in place of its original must
break the property that `PROJECT.json` pairs it with.

## 3. Channel

Methods that run under `c.lock` without blocking are one step. They are written
as operators on the record `c` of the fields, composed as in the code:
`SetBackChannel` calls `OpenChannel`, `ClearBackChannel`, `InstallBackChannel`
and `Flush`; `Flush` calls `Send`, `TerminateInternal` or `ClearBackChannel`.
`ch.lock` says where the holder of the lock is blocked:

| `ch.lock` | the code is at |
|---|---|
| `free` | nobody holds it |
| `dequeueMaps` | `c.mapChan <- m` (channel.go:241) |
| `heartbeatStop` | `c.heartbeatStop <- true` (196) |
| `gcChan` | `c.gcChan <- c.Sid` (198) |
| `panicked` | a goroutine panicked, the process is gone |

A bind request goes through phases (`req[b].phase`): `post` (about to read
`channel.state` without the lock, handler.go:359), `get` (about to acknowledge),
`set` (about to call `setBackChannel`), `wait`. A record is reused by a later
request once its request is over. `terminates` and `terminating` do the same for
terminate requests: on their way, and past the lookup.

Lookup and lock section are merged for acknowledgments and maps: a channel is
collected only after it was closed, and then neither has an effect anybody sees.
`terminate` does have one, so its lookup (`FindTerminated`) is a step of its own.

Timers are `nil`, `armed` or `fired`; `timeoutRuns` and `expirationRuns` count
the functions that have started and wait for the lock. `Stop` does not reach
those, as in Go. `Prompt` says whether a timer may expire while a goroutine that
can run has not run yet: it may in the safety runs (`FALSE`); in the liveness
runs it may not (`TRUE`), since the delays are 20 seconds and 3 minutes.

The client is what the server can tell: `link` is the back channel it reads,
`received` the ids it got, `left` that it is gone. `LoseLink` is a connection
that breaks, or a request the client cancels; the server keeps writing to it.
A page may vanish, or send a terminate request, which may be duplicated. The
session may also be created by a terminate request without SID (`Creators`).
The client sends nothing with a SID before it has received an array, since the
first one carries the SID. A session that answers a creating POST with its
status (because it was closed meanwhile) ends the attempt of the client; so does
`Unknown SID`.

The refinement maps `ArrayStream` to the ids: `queued` is `lastArrayId`, `kept`
the ids in `outgoingArrays`, `received` what the client got. A step of the
session queues an array, delivers some to the client, releases some the client
already has, or is a stutter - replacing a dead back channel, with the reset of
`lastSentArrayId` and the second flush, is one.

The refinement of `Session` maps `status` to `Status`: the state, but `closed`
already while `terminateInternal` is on its way to the end, `unknown` out of the
session map and `crashed` after a panic; `streaming` to whether a back channel is
set, `sent` to `lastArrayId`. It says what none of the methods says alone: a
session opens once, only a ready one has a back channel, after `Close` the next
back channel is the last, a closed session stays closed, and one that is closed
again by the application crashes.

`clearBackChannelTimeouts` calls `Stop` on `backChannelExpiration`, which panics on
a nil timer. `ClearBackChannel` leaves that panic out: it is called with a back
channel set, and then the timer is (`Timed`, which `TimersDisciplined` proves).
The `Stop` in `clearChannelTimeout` is modelled with its panic.

`StopFindsRoom` is about a session that timers
alone end: the channel timeout that has expired may find a back channel, whose end
armed the timer once more, so `terminateInternal` runs twice; the second time it
must not wait for a heartbeat that has gone or waits for the lock.

## 4. ForwardChannel

`sendMap`, `open_`, `startForwardChannel_`, `makeForwardChannelRequest_` and
`onRequestComplete` of the client, one action each; `ReceivePost` is the handler
of a POST with `receiveMaps` and `dequeueMaps`, or the first POST, which drops
its maps and makes the channel ready. A request the client gives up stays on the
network and may arrive later; responses to it are ignored. The session stays
open and `mapChan` has room: `Channel` has the rest.

The server knows a map by the id the client gave it, that is by its place in a
batch: `queued` and `mapChan` hold which map really came under each id, so that
an error in the numbering of a retry would show.

`Pages` says what pages there are: a `careful` one sends when `open_` has posted
the first request (at the end of the connection test that `connect` starts) and no
map is pending, an `early` one also before, a `pending` one also while maps are
pending, `any` does all. What the code promises depends on it:
what `channelSuccess` reports as delivered has been delivered for a careful page
only (runs `forward` and `forward_pending`); that maps arrive once and in order
(`ImplementsMapStream`) holds for every page.

A batch may be longer than the queue has room for (`MaxMapsPerRequest` is 1000 in
the client, `MapCapacity` 100 in the server): such a POST is rejected whatever the
queue holds, and the client closes. `RejectedOnlyForGap`, what the comment on the
error says, is thus false (run `forward_capacity`); `CarefulHasNoGap` and
`CarefulRejections` say what is left of it for a careful page, whose queue never
has a gap: only a batch that is too long for an empty queue is rejected.

A first POST that fails leaves the client in `OPENING`: the retry timer finds
nothing to do (`StartNothing`). No property asks that an opening channel opens or
fails, since this one never need; `MapsArrive` speaks of an open client.

## 5. Handler

`sessions` are the sessions created so far, the session id being the position,
`channels` the session map, `gcChan` the buffered ids, `req` the bind requests.
`Create` and `Lookup` are `handleBindRequest` up to the switch, `Dispatch` the
switch with `parseIncomingMaps` in front of it; each call that takes the lock of
the channel is a step: `Acknowledge`, `ReceiveMaps` (which may block in
`DequeueMaps`), `GetState`, `SetBackChannelCall`, `Terminate`; so is the read of
`channel.state` without it (`ReadState`), and each turn of `wait`. A request
without SID creates a session whatever it is: `malformed` stands for a method
the switch does not know and for maps that do not parse, answered with 400 after
the session was created and armed.

Of a session only what decides whether it ends is there: the channel with its
timers and heartbeat, one array (`c`), and an application that reads `Maps`.
`Stuck` names the finding of run `stuck_stop`: `SessionsEnd` and
`RequestsAnswered` say that it stays the affair of the session it befalls.
`NobodyForgotten` is the safety behind the two: there is always something that
will end a session (`NoSessionForgotten`), something that will release a request
that waits (`NoRequestForgotten`), and something that will take a closed session
out of the map (`NoIdForgotten`). `ImplementsSessions` says that every session is
a `Session` whatever is done to the others; one that is not created yet counts as
`init`.

## 6. TestChannel and Client

`TestChannel` has the second phase of the test: the server writes and flushes
one part, waits two seconds and writes the other; the client streams later on
exactly if it saw the parts apart. The network either holds responses back or
does not (`buffered`).

`Client` has the back channel as the client keeps it: one request (`backReq`:
sent, held by the server, ended, refused, lost), one timer for the next, the
retry count, the dead timer that `handlePostResponse_` sets when the server has
sent something that has not arrived, and a POST at a time, of which only the
answer matters (the server's back channel is missing, or present; rejected). The
server is what the other modules say of it, seen from the client: it answers a
GET with the newest array, ends a response that must not be streamed, times out,
closes, forgets the session. A GET the client gave up may arrive late and take
the place of its successor (`LateGet`). The data channel may be full (`Written`):
the response then ends with what it holds, and the rest waits for the next one.
That this server does only what a session does is `ImplementsSession`, with the
same abstract `Session` that `Channel` and `Handler` implement; the step it hangs
on is the GET that a session closed for writing gets, which must end it.

`Exhausted` is a state the code can reach: each answer that reports the back
channel missing costs a retry; when they are used up `handleBackchannelMissing_`
starts nothing, and the channel stays open with no back channel until the next
failure closes it. `BackChannelKept` excepts it by name, so it does not catch it.
`reentered` marks the other exception: a page that calls `disconnect` from
`channelOpened`, after which `ensureBackChannel_` still schedules a request on a
channel that is closed; `ClosedIsQuiet` excepts it. Both states are reached in run
`client`, and both are defects of the client.

## 7. Parsing

`DequeueOutgoingMaps` is the client's encoding: ids as offsets from the first
one, `_badmap` under `type` for a map whose iteration threw. `Start`,
`ParseMapEntry` and `Finish` are the server's parser, one step per entry of the
Go map, in any order. `body` is a body of the client or any other with up to
three entries, among them ids equal to the count, beyond it and below zero. An
index out of range and a negative count panic; net/http recovers a panic of a
handler, so that `panic` is an outcome of the request and not of the process.

Two things a page sends are lost while the POST succeeds, and `Kept`, what
`ClientMapsParsed` expects, leaves them out: a key with an underscore, which
`parseMapEntry` does not split in two parts (utils.go:116-118), although the client
says of the maps of `sendMap` that they are "reconstituted as a Map data structure
that the server can process" (browserchannel.js:1186-1189); and a value that reads
`_badmap` (utils.go:107-109). The property shows that nothing else is lost.
`AcceptedWhole` counts a panic as not accepted: the check `id > count` of
utils.go:120 lets an index equal to the count through to a panic, where the
parser means to report a bad map; the property shows only that no body with such
an index is accepted, not that it is refused properly.

## 8. Runs

All runs set `CHECK_DEADLOCK FALSE`: a session that is over stops, so do a client
that is closed, a parser at its end and a process that panicked.

| run | question | states |
|---|---|---|
| `arrays` | the array stream, as a refinement of `ArrayStream`: two back channels, three arrays, limit 1, data channels of one chunk | 618k |
| `shutdown` | all sides close at once: a duplicated terminate, `Close`, stale timers, both ways to create a session; refinement of `Session` | 880k |
| `ends` | arrays are sent, maps come in any order and twice through a `mapChan` of one, and the client vanishes at any time: maps in order, calls of `SendArray` return, the timers end the session and find room for their stops; fairness | 196k |
| `forward` | careful and other pages: the stream of maps as a refinement of `MapStream`, what is reported, what is rejected; fairness | 40k |
| `handler` | two sessions, three requests of every kind, a collector with room for one: nobody is forgotten, each session is a `Session`; fairness | 721k |
| `client` | the client from the test to the end, three retries, three arrays; its server as a refinement of `Session`; fairness | 179k |
| `parsing` | every body of up to two maps of the client, and others of up to three entries | 216k |

The violations are disagreements between the code and what it, or its client,
says of itself:

| run | what happens |
|---|---|
| `close_twice` | the channel times out, the application calls `Close`: `channelClosed` becomes `channelWriteClosed` and `close(mapChan)` panics |
| `stuck_stop` | a terminate request and the channel timeout both call `terminateInternal`; the second send on `heartbeatStop` blocks under the lock |
| `marshal` | the error of `json.Marshal` is ignored and the arrays count as sent |
| `forward_pending` | a retry with new maps arrives after the original: `enqueue` drops it whole, the request succeeds |
| `forward_capacity` | a batch longer than the queue is rejected although nothing waits in it, and the client closes |

Two more differ from these by a constant and have no run of their own.
`MCChannelEnds.cfg` with `SendArrayReturns` as its property shows the other way for
`SendArray` not to return: `mapChan` is full, `dequeueMaps` holds the lock, and the
only reader is in `SendArray`, as `handleTest1` of the test server may be.
`ForwardPending.cfg` with `Pages = {"early"}` shows that maps posted with the first
request are dropped while the request succeeds.

How `SendArray` may not return. `stuck_stop` has the second stop, `ends` has no
terminate requests and no `Close`, so that no second stop blocks (`StopFindsRoom`).
There the deadlock of the reader is the one exception to `CallsReturn` and
`SessionEnds` (`ReaderDeadlocked`), and the run reaches it: a batch of two maps,
room for one, and the reader about to send. With two arrays, `c` and one more,
calls and heartbeats begin and end before the session opens, while it is open and
after it is closed. The collector's queue never fills in `ends`, where the only
session closes twice at most; two sessions compete for it in `handler`.

Bounds, and why they are enough. Two back channels: one that is set and one that
is late or dying; a third adds no new relation, since the channel knows one.
`ends` has one at a time, which a later request takes again, and arrays and maps
instead; that a back channel that is replaced leaves no request behind is
`OneOpenBackChannel` of `shutdown`.
`DataChannelCapacity = 1` and `MaxBytes` of 2 or 3 make full data channels and
exhausted responses frequent; the code's 128 and 10 KiB only delay them. In
`arrays`, `ArrayLimit = 1` and `MaxBytes = 3` let two arrays in flight cross the
limit while the response still has room, so that the limit alone decides.
`MapChanCapacity = 1` and `GcChanCapacity = 1` make every send able to block.
`MaxRuns = 1` allows one stale function of each timer beside a live timer.
`MaxArrays`, `MaxMaps`, `MaxTerminates` and `MaxCloses` bound what the
environment does, in the guards of its actions and nowhere else. `Handler` has
two sessions, which is what it takes for one to be in the way of another, and
two requests at a time out of three. In `forward`, a queue of two and batches of up
to three out of four maps let a batch fill the queue, exceed it, leave a gap and be
sent twice. `Client`
has the retries of the code; three arrays let a late one be overtaken. `Parsing`
has the three kinds of key (`type`, an ordinary one, one with an underscore) and
both kinds of value. The theorems hold for every value of these constants.

Fairness. `Channel`: a goroutine that can run does (weak fairness of the
handlers, of the holder of the lock, of the application once it is in a call,
of the collector); timers expire; a `select` chooses at random among the ready
cases, hence strong fairness of `HeartbeatStops`, `AppReadsMap` and `AppReturns`,
which an application or a heartbeat that goes on sending would put off. That
the application keeps reading `Maps`, as every `ChannelHandler` of the repository
does, and returns when it is closed, is an assumption. Nothing is assumed of the
client and of the network, and nothing forces the application to send or the
heartbeat to tick. `Handler` assumes the same of its goroutines; the fairness of
a request is weak fairness with `ENABLED` spelled out (`CanStep`), because TLC is
slow to find out whether `setBackChannel` is enabled. `ForwardChannel` assumes
that timers expire and that a request ends, by a response or by its timeout.
`Client` assumes that its timers and the watchdog fire, that it sees to a
response that has ended, that a GET arrives or is lost, and that a closed session
is collected. It also relies on three delays of the code: the heartbeat of the
server (30 s) is shorter than the watchdog (45 s), so that a request that is held
does not time out unless its connection is lost; a timer of no delay fires before
the dead timer of two RTTs; the two parts of the test are two seconds apart.

## 9. Proofs

All for any number of back channels, sessions, requests, maps and retries, and
for any capacities, under the named assumptions of the modules.

| module | theorem | property |
|---|---|---|
| `ChannelProofs` | `TypeCorrect` | `TypeOK` |
| | `WindowKept` | `OutgoingWindow` |
| | `TimersDisciplined` | `TimerDiscipline` |
| | `MapChanClosedOnce` | `MapChanLifecycle` |
| | `LastSentMonotone` | `LastSentNeverDecreases` |
| | `PanicsOnlyInClose` | `OnlyClosePanics` |
| `ChannelFlowProofs` | `NothingIsStranded` | `NothingStranded` |
| | `OneBackChannelIsOpen` | `OneOpenBackChannel` |
| | `BufferIsLimited` | `BufferLimit` |
| | `MapsAreInOrder` | `MapsInOrder` |
| | `ChannelIsASession` | `ImplementsSession` |
| | `OnlyCloseReopens` | what is left of `ShutdownIsPermanent` |
| | `TimersFindRoom` | `StopFindsRoom` |
| `ChannelStreamProofs` | `ArrayStreamIsImplemented` | `ImplementsArrayStream` |
| | `ArraysAreReceivedInOrder` | `ReceivedInOrder` |
| `HandlerProofs` | `HandlerTypeCorrect` | `TypeOK` |
| | `UnknownSessionsAreClosed` | `UnknownIsClosed` |
| | `NobodyIsForgotten` | `NobodyForgotten` |
| | `SessionsAreImplemented` | `ImplementsSessions` |
| `ClientProofs` | `ClientTypeCorrect` | `TypeOK` |
| | `StreamingIsFound`, `NothingIsHeldBack` | `FlushKeepsStreaming`, `NoDataHeldBack` |
| | `BackChannelIsKept` | `BackChannelKept` |
| | `DeadTimerIsSafe` | `DeadTimerHasRequest` |
| | `ClosedChannelIsQuiet` | `ClosedIsQuiet` |
| | `ClientServerIsASession` | `ImplementsSession` |
| `ForwardProofs` | `ForwardTypeCorrect` | `TypeOK` |
| | `StreamIsImplemented` | `ImplementsMapStream` |
| | `CarefulPagesAreTold` | `CarefulDelivered` |
| | `WaitingMapsAreUndelivered` | `UndeliveredMaps` |
| | `QueueKeepsNoStaleMaps` | `NoStaleMaps` |
| | `CarefulPagesHaveNoGap` | `CarefulHasNoGap` |
| | `OnlyLongPostsAreRejected` | `CarefulRejections` |
| `ParsingProofs` | `ParsingTypeCorrect` | `TypeOK` |
| | `AcceptedBodiesAreWhole` | `AcceptedWhole` |
| | `ClientBodiesAreParsed` | `ClientMapsParsed` |

None of the safety properties is inductive alone; each module has an `Inv` that
is, a lemma per action that the action keeps it, and one that collects them.

`ChannelProofs`. The window survives an acknowledgment only if the client
acknowledges nothing that was not sent; so `Inv` says that what the client has
received, or is about to acknowledge, and every array in a data channel, has an
id of at most `lastSentArrayId` (`KnowsOnlySent`, `SentUpTo`). That needs
`lastSentArrayId` never to go back, although `setBackChannel` resets it: a fresh
back channel has room, so the flush that follows sends everything (`WillCover`,
`FlushProperties`). The timers and `mapChan` are in order only while nobody is in
the middle of terminating; `Guarded` says what may be relied on by the point
where the holder of the lock is blocked. What each method does to a record that
is `Sound` is in `ChannelMethodsProofs`.

`ChannelFlowProofs` adds to `Inv` what a back channel that is set was given
(`Settled`), which handlers wait on it (`Waiting`) and where the maps are
(`MapsFlow`). `Settled` holds after a flush whatever was queued before, because a
send that fails marks the back channel as not reusable; `Waiting` is why a handler
that returns from `wait` is never that of the back channel.

That the channel is a session needs `Live`: only a ready session has a back
channel, and one that `Close` has left waiting has an array it has not sent, `stop`
at least, so that the flush in `setBackChannel` ends it (`LifeInv` adds that what
is in `gcChan` is closed). The methods are compared as they are seen from outside:
`View` is the session that a record stands for, `ViewStep` the steps of `Session`
on it, and each method has a lemma that it makes one (`SendArrayLife`, `CloseLife`,
`SetBackChannelLife`, ...), which the proofs about `Handler` use again.
`OnlyCloseReopens` is the part of the permanent shutdown that is true.

`TimersFindRoom` assumes `OnlyTimersEnd`: goroutines are prompt and there are no
terminate requests and no `Close`. None of these can be dropped, TLC finds the
blocked second stop as soon as one terminate request or one `Close` is allowed.
`StopsFit` is the argument: a second stop is owed only if the timer was armed again
by a back channel that ended, there is then a heartbeat, and the timer does not
expire before that has taken the first stop.

`ChannelStreamProofs` assumes `Unmarshalable = {}`; with an array that
`json.Marshal` rejects the claim is false (run `marshal`). It follows one request,
the one whose response the client reads (`LinkContinues`): its GET acknowledges all
that the client has; once it has done so the server has released exactly that
(`Released`), and no late acknowledgment changes it; when it waits, the chunks in
its data channel, one after the other, continue what the client has up to
`lastSentArrayId` (`Delivers`). Where each chunk starts is a function that the
invariant quantifies over (`Carries`), which spares an induction over the chunks.

`HandlerProofs`. A session leaves the map when the collector takes its id, and
`terminateInternal` closes the channel before it sends the id: `SessionOK` says
what a session guarantees by where the holder of its lock is, among others that
it is closed at `gcChan`. `RequestOK` says what a request relies on: that its
session exists; that one who acknowledges 'c' has been sent it (`SentFirst`,
needed for the window); that one request alone is in `dequeueMaps` of a session.
`Inv` also says that no lock is left by a panic, which is why `Stop` on a nil
timer and a second `close(mapChan)` cannot happen without `Close`.

The second part of the module has `LiveInv`, which adds to `Inv` the requests that
wait (`Waiters`, a set of its own for each session), `Live` of every session, and
`Alive`: an expired timer has a function that still waits for the lock (`FiredRuns`).
Together with `Timed` this is `NoSessionIsForgotten`, and `Waiting` gives
`NoRequestIsForgotten`. For the refinement a step of one session must leave all
others alone (`OneLives`, `NoneLives`), its own view must make a step of `Session`
(the lemmas of `ChannelMethodsProofs`), and the session map must lose only what is
closed.

The third part proves `NoIdIsForgotten`, which completes `NobodyIsForgotten`.
`NoIdForgotten` speaks of free locks, which is not inductive: `dequeueMaps` frees
the lock without giving the collector anything. `IdInv` says the same of every
closed session whose lock is not at `gcChan` (`Sent`), one that `dequeueMaps` or a
second terminate holds included. One step alone closes a session, and it leaves the lock at
`gcChan`; whoever releases the lock from there has put the id into `gcChan`; and
the collector takes an id out of both the map and `gcChan`, so that a second copy
of it does no harm.

`ForwardProofs`. A batch is a run of consecutive numbers, so the places of the
pending and waiting maps, of the maps of every post on the network and of the
queue follow from three counters (`Numbered`, `PostOK`, `QueueInOrder`): a post
never reaches beyond the maps that wait. `Batched` says that pending maps fit in
the next request, and that only a retry finds any; `FirstGap` that dequeuing takes
what comes before the first gap, which exists because the queue is finite. For a
careful page `CarefulPost` says that a post is the pending batch or lies before
it, so that the server has all of it or none. The refinement is a property of one
step: what `mapChan` gains is what `DeliverMaps` adds. No theorem assumes that a
batch fits the queue. `OnlyLongPostsAreRejected` rests on `CarefulPagesHaveNoGap`:
the queue of a careful page is empty whenever a POST arrives, so that its length
alone decides, and with the constants of the code (1000 and 100) it may be too
long.

`ClientProofs`. `Stages` says what belongs to an open channel and that the timer
of a back channel excludes a request, `TestOrder` how far the test is.
`DeadTimerIsSafe` needs `MaxRetries >= 1`, which the code has: with none, the
request that failed last would leave its dead timer behind. `ServerOrder` compares
what was sent with what is on its way and what the client has: once `stop` was
sent the client has less, so that the GET of a session closed for writing is
answered with arrays, `stop` the last of them, and ends the session.

`ParsingProofs`. `Parsed` says what the visited entries have left in the maps, in
whatever order they came; `FromClient` that a body of the client has only entries
in range, one for each slot and key.

Only model-checked, because it is out of the prover's reach, is everything under
fairness: `SessionEnds`, `CallsReturn`, `SessionsEnd`, `RequestsAnswered`,
`MapsArrive`, `BackChannelReturns`.

## 10. Not modelled

* Session ids: random, taken to differ; a random source that fails would give
  all sessions the null id.
* HTML framing and escaping (`html.go`), the padding, CORS headers, host
  prefixes: text and configuration, no state that a step could disturb.
* `parseBody` and the limit on a body; the first test request and requests for
  other paths or versions, which are answered with fixed text.
* Of the client: precomputed test results, the check for blocked hosts (the
  server names none), `okToMakeRequest` hooks that refuse, statistics, and the
  second error the probe of the network may report after `channelError`.
* A ticker that is never stopped, and the value left in `heartbeatStop` of a
  channel closed before its first back channel: no step depends on them.
* The rest of the Closure Library, which is vendored and by far the largest part
  of the repository, the pages under `src/test` and `src/example`, logging.

## 11. Plan

1. `HtmlBackChannel`: the order of head, domain, calls, padding and done.
2. A composition of `Client` and `Channel`: now each has an abstraction of the
   other. They share `Session`, which says when the server has a session and a back
   channel; what a response carries is compared in `Channel` alone.
