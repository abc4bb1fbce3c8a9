--------------------------- MODULE ForwardChannel ---------------------------
(***************************************************************************)
(* The maps from the page to the application: the forward channel of       *)
(* goog.net.BrowserChannel, which posts one batch of maps at a time and    *)
(* retries it when the request fails, and the map queue of the server, for *)
(* one session that stays open.  The network may delay and lose requests   *)
(* and responses; a request the client has given up may still arrive.      *)
(*                                                                         *)
(* mapChan is unbounded here: what it does when it is full, and a session  *)
(* that is closed, are the subject of Channel.  What the application gets  *)
(* is specified by MapStream.                                              *)
(***************************************************************************)
EXTENDS MapQueue, Sequences, FiniteSetsExt

CONSTANTS
  MaxMapsPerRequest,  \* MAX_MAPS_PER_REQUEST_: 1000
  MaxRetries,         \* forwardChannelMaxRetries_: 2
  Pages,              \* the kinds of page that may use the channel
  MaxMaps             \* bound of the model: maps the page sends

ASSUME RequestAssumption ==
  /\ MaxMapsPerRequest \in Nat \ {0}
  /\ MaxRetries \in Nat
  /\ Pages \subseteq {"careful", "early", "pending", "any"}
  /\ MaxMaps \in Nat

VARIABLES
  page,          \* what the page does, see SendMap
  state,         \* state_ of the client
  nextMapId,
  outgoingMaps,  \* ids of the maps that wait for a request
  pendingMaps,   \* ids of the maps of the last request
  timer,         \* forwardChannelTimerId_: none, or what it will start
  retryCount,    \* forwardChannelRetryCount_
  request,       \* forwardChannelRequest_, 0 for null
  requests,      \* how many requests were made: they are numbered from 1
  delivered,     \* the maps given to channelSuccess
  posts,         \* requests on their way
  responses,     \* responses on their way
  ready,         \* the state of the channel: channelInit or channelReady
  maps,          \* its map queue: the ids
  queued,        \* the maps it holds under these ids
  mapChan        \* the maps given to the application so far

clientVars == <<page, state, nextMapId, outgoingMaps, pendingMaps, timer, retryCount,
                request, requests, delivered>>
networkVars == <<posts, responses>>
serverVars == <<ready, maps, queued, mapChan>>
vars == <<clientVars, networkVars, serverVars>>

Posts == [id : Nat \ {0}, offset : Nat, maps : Seq(Nat)]
Responses == [id : Nat \ {0}, ok : BOOLEAN]
SetOf(s) == {s[i] : i \in 1..Len(s)}

TypeOK ==
  /\ page \in Pages
  /\ state \in {"INIT", "OPENING", "OPENED", "CLOSED"}
  /\ nextMapId \in Nat
  /\ outgoingMaps \in Seq(Nat)
  /\ pendingMaps \in Seq(Nat)
  /\ timer \in {"none", "start", "retry"}
  /\ retryCount \in 0..MaxRetries
  /\ request \in 0..requests
  /\ requests \in Nat
  /\ delivered \in SUBSET Nat
  /\ posts \in SUBSET Posts
  /\ responses \in SUBSET Responses
  /\ ready \in BOOLEAN
  /\ maps \in MapQueueRecord
  /\ queued \in [maps.maps -> Nat]
  /\ mapChan \in Seq(Nat)

Init ==
  /\ page \in Pages
  /\ state = "INIT"
  /\ nextMapId = 0
  /\ outgoingMaps = <<>>
  /\ pendingMaps = <<>>
  /\ timer = "none"
  /\ retryCount = 0
  /\ request = 0
  /\ requests = 0
  /\ delivered = {}
  /\ posts = {}
  /\ responses = {}
  /\ ready = FALSE
  /\ maps = NewMapQueue
  /\ queued = <<>>
  /\ mapChan = <<>>

-----------------------------------------------------------------------------
(***************************************************************************)
(* The client.                                                             *)
(***************************************************************************)

\* dequeueOutgoingMaps_, and the request that posts what it returns.  count=0
\* goes without an offset, which the server then takes to be 0.
MakeRequest(outgoing, pending) ==
  LET count == Min({Len(outgoing), MaxMapsPerRequest})
  IN  /\ requests' = requests + 1
      /\ request' = requests'
      /\ posts' = posts \union
           {[id |-> requests', offset |-> IF count > 0 THEN outgoing[1] ELSE 0,
             maps |-> SubSeq(outgoing, 1, count)]}
      /\ pendingMaps' = pending \o SubSeq(outgoing, 1, count)
      /\ outgoingMaps' = SubSeq(outgoing, count + 1, Len(outgoing))

\* ensureForwardChannel_, when the request is r.
EnsureForwardChannel(r) ==
  IF r = 0 /\ timer = "none"
    THEN timer' = "start" /\ retryCount' = 0
    ELSE UNCHANGED <<timer, retryCount>>

\* sendMap.  A careful page waits until open_ has posted the first request,
\* which then carries no maps, and sends only when no map is pending; an early
\* and a pending page ignore one of the two.
SendMap ==
  /\ state # "CLOSED"
  /\ nextMapId < MaxMaps
  /\ state = "INIT" => page \in {"early", "any"}
  /\ pendingMaps # <<>> => page \in {"pending", "any"}
  /\ nextMapId' = nextMapId + 1
  /\ outgoingMaps' = Append(outgoingMaps, nextMapId)
  /\ IF state \in {"OPENING", "OPENED"}
       THEN EnsureForwardChannel(request)
       ELSE UNCHANGED <<timer, retryCount>>
  /\ UNCHANGED <<page, state, pendingMaps, request, requests, delivered,
                 networkVars, serverVars>>

\* open_, which posts the maps sent so far.
Open ==
  /\ state = "INIT"
  /\ state' = "OPENING"
  /\ MakeRequest(outgoingMaps, pendingMaps)
  /\ UNCHANGED <<page, nextMapId, timer, retryCount, delivered, responses,
                 serverVars>>

\* Mutant: a retry posts the pending maps after the waiting ones.
RetryLast ==
  /\ state = "OPENED"
  /\ timer = "retry"
  /\ MakeRequest(outgoingMaps \o pendingMaps, <<>>)

\* Mutant: a retry forgets the pending maps.
RetryWithoutPending ==
  /\ state = "OPENED"
  /\ timer = "retry"
  /\ MakeRequest(outgoingMaps, pendingMaps)

\* A retry posts the pending maps again, and those sent in the meantime.
Retry ==
  /\ state = "OPENED"
  /\ timer = "retry"
  /\ MakeRequest(pendingMaps \o outgoingMaps, <<>>)

StartRequest ==
  /\ state = "OPENED"
  /\ timer = "start"
  /\ outgoingMaps # <<>>
  /\ MakeRequest(outgoingMaps, pendingMaps)

\* Nothing to send; or the channel is still opening, which is never retried.
StartNothing ==
  /\ timer # "none"
  /\ state # "OPENED" \/ (timer = "start" /\ outgoingMaps = <<>>)
  /\ UNCHANGED <<outgoingMaps, pendingMaps, request, requests, posts>>

\* onStartForwardChannelTimer_ and startForwardChannel_.
StartForwardChannel ==
  /\ Retry \/ StartRequest \/ StartNothing
  /\ timer' = "none"
  /\ UNCHANGED <<page, state, nextMapId, retryCount, delivered, responses,
                 serverVars>>

\* onInput_ of the 'c' array, the response to the first request.
Opened ==
  /\ state = "OPENING"
  /\ request = 1
  /\ \E r \in responses : r.id = 1
  /\ state' = "OPENED"
  /\ UNCHANGED <<page, nextMapId, outgoingMaps, pendingMaps, timer,
                 retryCount, request,
                 requests, delivered, networkVars, serverVars>>

\* Mutant: the response to a request that was given up is taken for that of
\* the present one.
AnyRequestSucceeds ==
  \E r \in responses :
    /\ r.ok
    /\ request # 0
    /\ state = "OPENED"
    /\ request' = 0
    /\ responses' = responses \ {r}
    /\ EnsureForwardChannel(0)
    /\ delivered' = delivered \union SetOf(pendingMaps)
    /\ pendingMaps' = <<>>
    /\ UNCHANGED <<page, state, nextMapId, outgoingMaps, requests, posts,
                   serverVars>>

\* onRequestComplete of a request that succeeded.
RequestSucceeds ==
  /\ [id |-> request, ok |-> TRUE] \in responses
  /\ state = "OPENED"
  /\ request' = 0
  /\ responses' = responses \ {[id |-> request, ok |-> TRUE]}
  /\ EnsureForwardChannel(0)
  /\ delivered' = delivered \union SetOf(pendingMaps)
  /\ pendingMaps' = <<>>
  /\ UNCHANGED <<page, state, nextMapId, outgoingMaps, requests, posts,
                 serverVars>>

\* signalError_: the maps that remain are reported by channelClosed.
Fail ==
  /\ state' = "CLOSED"
  /\ timer' = "none"
  /\ UNCHANGED retryCount

\* Mutant: one retry too many.
RequestFailsOnceMore ==
  /\ request # 0
  /\ request' = 0
  /\ IF retryCount <= MaxRetries
       THEN /\ timer' = "retry"
            /\ retryCount' = retryCount + 1
            /\ UNCHANGED state
       ELSE Fail
  /\ UNCHANGED <<page, nextMapId, outgoingMaps, pendingMaps, requests,
                 delivered,
                 networkVars, serverVars>>

\* onRequestComplete of a request that timed out or broke.
RequestFails ==
  /\ request # 0
  /\ request' = 0
  /\ IF retryCount < MaxRetries
       THEN /\ timer' = "retry"
            /\ retryCount' = retryCount + 1
            /\ UNCHANGED state
       ELSE Fail
  /\ UNCHANGED <<page, nextMapId, outgoingMaps, pendingMaps, requests,
                 delivered,
                 networkVars, serverVars>>

\* onRequestComplete of a request with an error status, which is fatal.
RequestRejected ==
  /\ [id |-> request, ok |-> FALSE] \in responses
  /\ request' = 0
  /\ Fail
  /\ UNCHANGED <<page, nextMapId, outgoingMaps, pendingMaps, requests,
                 delivered,
                 networkVars, serverVars>>

-----------------------------------------------------------------------------
(***************************************************************************)
(* The server and the network.                                             *)
(***************************************************************************)

\* The maps that dequeueMaps gives to mapChan: those up to the first gap.
UpToGap(q) ==
  LET gap == Min({i \in q.next..(q.next + Cardinality(q.maps)) : i \notin q.maps})
  IN  q.next..(gap - 1)

\* Mutant: maps go to the application as they arrive.
ReceiveMapsOnArrival(p) ==
  /\ mapChan' = mapChan \o p.maps
  /\ UNCHANGED <<maps, queued>>

\* receiveMaps of a channel that is ready: enqueue, then dequeueMaps in any case.
ReceiveMaps(p) ==
  LET n == Len(p.maps)
      q == Enqueue(maps, p.offset, n)
      held == [i \in q.maps |-> IF q = maps \/ i \notin Batch(p.offset, n)
                                  THEN queued[i] ELSE p.maps[i - p.offset + 1]]
      out == UpToGap(q)
  IN  /\ maps' = [next |-> q.next + Cardinality(out), maps |-> q.maps \ out]
      /\ queued' = [i \in q.maps \ out |-> held[i]]
      /\ mapChan' = mapChan \o [i \in 1..Cardinality(out) |-> held[q.next + i - 1]]

\* handleBindPost.  Maps are dropped unless the channel is ready: those of the
\* first POST, whose setBackChannel then makes it ready.
ReceivePost(p) ==
  LET enqueued == ready /\ p.maps # <<>>
  IN  /\ posts' = posts \ {p}
      /\ IF enqueued THEN ReceiveMaps(p) ELSE UNCHANGED <<maps, queued, mapChan>>
      /\ responses' = responses \union
           {[id |-> p.id,
             ok |-> ~(enqueued /\ EnqueueFails(maps, p.offset, Len(p.maps)))]}
      /\ ready' = TRUE
      /\ UNCHANGED clientVars

LosePost(p) ==
  /\ posts' = posts \ {p}
  /\ UNCHANGED <<clientVars, responses, serverVars>>

LoseResponse(r) ==
  /\ responses' = responses \ {r}
  /\ UNCHANGED <<clientVars, posts, serverVars>>

-----------------------------------------------------------------------------
Next ==
  \/ SendMap
  \/ Open
  \/ StartForwardChannel
  \/ Opened
  \/ RequestSucceeds
  \/ RequestFails
  \/ RequestRejected
  \/ \E p \in posts : ReceivePost(p) \/ LosePost(p)
  \/ \E r \in responses : LoseResponse(r)

Spec == Init /\ [][Next]_vars

(***************************************************************************)
(* Fairness: the timers of the client expire, a response that has arrived  *)
(* is processed, and a request that gets none times out.  Nothing is       *)
(* assumed of the network, which may lose everything.                      *)
(***************************************************************************)
FairSpec ==
  /\ Spec
  /\ WF_vars(StartForwardChannel)
  /\ WF_vars(RequestSucceeds \/ RequestFails \/ RequestRejected)

-----------------------------------------------------------------------------
(***************************************************************************)
(* Properties.                                                             *)
(***************************************************************************)

\* The application gets the maps of the page once each, in order, whatever is
\* lost, delayed or retried: the queue under its ids, and the requeueing of
\* pending maps, implement a stream of maps.
Stream == INSTANCE MapStream WITH sent <- nextMapId, delivered <- mapChan

ImplementsMapStream == Stream!Spec

\* "Maps that have been delivered to the server": what channelSuccess reports
\* has gone to the application.
DeliveredMaps == \A id \in delivered : \E i \in 1..Len(mapChan) : mapChan[i] = id

\* DeliveredMaps, for a page that is careful about when it sends.
CarefulDelivered == page = "careful" => DeliveredMaps

\* "Definitely not been delivered": a map that channelClosed would report as
\* undelivered has not reached the server, in whatever request.
UndeliveredMaps ==
  \A id \in SetOf(outgoingMaps) :
    id \notin SetOf(mapChan) /\ \A i \in maps.maps : queued[i] # id

\* The queue keeps no map whose turn is over, and none whose turn has come:
\* retries of delivered maps do not fill it up.
NoStaleMaps == \A id \in maps.maps : id > maps.next

\* The queue of a careful page never has a gap to wait for: no batch is lost
\* for good, however often its requests are, and none overtakes another.
CarefulHasNoGap == page = "careful" => maps.maps = {}

\* "It either signals that the server is overwhelmed or that there is a gap":
\* a POST is not rejected by an empty queue.
RejectedOnlyForGap ==
  [][\A r \in responses' \ responses : ~r.ok => maps.maps # {}]_vars

\* Of a careful page only a POST is rejected that an empty queue has no room for.
CarefulRejections ==
  [][page = "careful" =>
       \A p \in posts \ posts', r \in responses' \ responses :
         ~r.ok => Len(p.maps) > MapCapacity]_vars

\* A page that is careful about when it sends gets each map through, unless
\* the client reports an error and closes.
MapsArrive ==
  \A id \in 0..(MaxMaps - 1) :
    (page = "careful" /\ state = "OPENED" /\ id < nextMapId)
      ~> (id \in SetOf(mapChan) \/ state = "CLOSED")
=============================================================================
