------------------------------ MODULE Channel ------------------------------
(***************************************************************************)
(* One browser channel (channel.go) with everything that acts on it: the   *)
(* goroutines of the HTTP requests that carry its back channels, the       *)
(* functions of its two timers, its heartbeat goroutine, the application,  *)
(* the collector of closed sessions, and the client at the other end.      *)
(*                                                                         *)
(* Every method of Channel runs under c.lock, so a method is one step      *)
(* unless it blocks on a Go channel while it holds the lock.  Three do:    *)
(* dequeueMaps on a full mapChan, terminateInternal on a full              *)
(* heartbeatStop and then on a full gcChan.  ch.lock says where the holder *)
(* of the lock is blocked, and the rest of the method is a step of its own.*)
(*                                                                         *)
(* The methods themselves are in ChannelMethods; the actions here are the  *)
(* calls.                                                                  *)
(***************************************************************************)
EXTENDS ChannelMethods, MapQueue

CONSTANTS
  Creators,          \* the kinds of request that may create the session
  MapChanCapacity,   \* capacity of mapChan: 100
  GcChanCapacity,    \* capacity of gcChan: 10
  Prompt,            \* TRUE: no goroutine waits for as long as a timer runs
  \* Bounds of the model.
  MaxArrays,         \* arrays queued before senders stop calling
  MaxMaps,           \* maps the client numbers
  MaxTerminates,     \* requests with TYPE=terminate
  MaxCloses,         \* calls of Close by the application
  MaxRuns            \* expired timer functions of a kind waiting for the lock

ASSUME CreatorsAssumption == Creators \subseteq {"POST", "TERMINATE"}
ASSUME LimitAssumption ==
  /\ MapChanCapacity \in Nat \ {0}
  /\ GcChanCapacity \in Nat \ {0}
  /\ Prompt \in BOOLEAN
ASSUME BoundAssumption ==
  /\ MaxArrays \in Nat
  /\ MaxMaps \in Nat
  /\ MaxTerminates \in Nat
  /\ MaxCloses \in Nat
  /\ MaxRuns \in Nat \ {0}

-----------------------------------------------------------------------------
VARIABLES
  ch,               \* the Channel
  timeoutRuns,      \* expired channelTimeout functions waiting for the lock
  expirationRuns,   \* expired backChannelExpiration functions, likewise
  heartbeat,        \* where the heartbeat goroutine is
  heartbeatStop,    \* number of values in heartbeatStop
  gcChan,           \* number of times the session is in gcChan
  collected,        \* TRUE once the session is removed from the session map
  maps,             \* the map queue
  mapChan,          \* the maps buffered in mapChan
  app,              \* where the application's goroutine is
  mapsRead,         \* number of maps the application has read
  closes,           \* number of calls of Close
  terminates,       \* TERMINATE requests of the client on their way
  terminating,      \* those whose handler has found the session
  req,              \* the request that carries each back channel
  link,             \* the back channel whose response the client reads
  received,         \* the indices of the arrays the client has received
  left              \* TRUE once the client is gone for good

timerVars  == <<timeoutRuns, expirationRuns>>
stopVars   == <<heartbeatStop, gcChan, collected>>
mapVars    == <<maps, mapChan, mapsRead>>
appVars    == <<app, closes>>
termVars   == <<terminates, terminating>>
clientVars == <<link, received, left>>
otherVars  == <<stopVars, mapVars, appVars, termVars>>
vars == <<ch, timerVars, heartbeat, otherVars, req, clientVars>>

(***************************************************************************)
(* The phases of a back channel's request.  A creating POST has still to   *)
(* read channel.state ("post"), a GET has still to acknowledge ("get");    *)
(* both then call setBackChannel ("set") and end in wait ("wait").         *)
(***************************************************************************)
Requests ==
  [phase : {"unused", "post", "get", "set", "wait"}, aid : Nat, chunked : BOOLEAN]
NoRequest == [phase |-> "unused", aid |-> 0, chunked |-> FALSE]

TypeOK ==
  /\ ch \in ChannelRecord
  /\ timeoutRuns \in Nat
  /\ expirationRuns \in Nat
  /\ heartbeat \in {"none", "select", "sending", "exited"}
  /\ heartbeatStop \in 0..1
  /\ gcChan \in 0..GcChanCapacity
  /\ collected \in BOOLEAN
  /\ maps \in MapQueueRecord
  /\ mapChan \in Seq(Nat)
  /\ app \in {"idle", "sending", "closing", "inClose", "returned"}
  /\ mapsRead \in Nat
  /\ closes \in Nat
  /\ terminates \in Nat
  /\ terminating \in Nat
  /\ req \in [BackChannels -> Requests]
  /\ link \in BackChannels \union {None}
  /\ received \in Seq(Nat)
  /\ left \in BOOLEAN

\* The request that creates the session: a POST, whose response is the first
\* back channel, or a TERMINATE without SID.
InitRequest ==
  \/ /\ "POST" \in Creators
     /\ \E b \in BackChannels :
          /\ req = [x \in BackChannels |->
                     IF x = b THEN [NoRequest EXCEPT !.phase = "post"]
                              ELSE NoRequest]
          /\ link = b
     /\ terminating = 0
     /\ left = FALSE
  \/ /\ "TERMINATE" \in Creators
     /\ req = [x \in BackChannels |-> NoRequest]
     /\ link = None
     /\ terminating = 1
     /\ left = TRUE

Init ==
  /\ ch = NewChannel
  /\ InitRequest
  /\ timeoutRuns = 0
  /\ expirationRuns = 0
  /\ heartbeat = "none"
  /\ heartbeatStop = 0
  /\ gcChan = 0
  /\ collected = FALSE
  /\ maps = NewMapQueue
  /\ mapChan = <<>>
  /\ app = "idle"
  /\ mapsRead = 0
  /\ closes = 0
  /\ terminates = 0
  /\ received = <<>>

Running == ch.lock # "panicked"
LockFree == ch.lock = "free"

-----------------------------------------------------------------------------
(***************************************************************************)
(* The client (goog.net.BrowserChannel), as far as the server can tell.    *)
(***************************************************************************)

\* lastArrayId_; the client sends no AID before it has received an array.
LastArrayId == IF received = <<>> THEN 0 ELSE received[Len(received)]

\* startBackChannel_: a GET that acknowledges what the client has received.
OpenBackChannel(b, chunked) ==
  /\ Running
  /\ ~left
  /\ link = None
  /\ received # <<>>
  /\ req[b].phase = "unused"
  /\ req' = [req EXCEPT ![b] = [phase |-> "get", aid |-> LastArrayId,
                                chunked |-> chunked]]
  /\ link' = b
  /\ UNCHANGED <<ch, timerVars, heartbeat, otherVars, received, left>>

\* The connection breaks, or the client cancels the request.  The server does
\* not notice: it goes on writing to a response nobody reads.
LoseLink ==
  /\ Running
  /\ link # None
  /\ link' = None
  /\ UNCHANGED <<ch, timerVars, heartbeat, otherVars, req, received, left>>

\* The page is gone, or disconnect() sends a TERMINATE, which the network may
\* duplicate.
Leave ==
  /\ Running
  /\ ~left
  /\ left' = TRUE
  /\ link' = None
  /\ \E n \in 0..MaxTerminates :
       /\ n > 0 => received # <<>>
       /\ terminates' = n
  /\ UNCHANGED <<ch, timerVars, heartbeat, stopVars, mapVars, appVars,
                 terminating, req, received>>

-----------------------------------------------------------------------------
(***************************************************************************)
(* The handler of the requests that carry a back channel.                  *)
(***************************************************************************)

\* handleBindPost reads channel.state without the lock.  A session that is
\* no longer in channelInit answers with its status, which ends the attempt
\* of the client to open it.
ReadState(b) ==
  /\ Running
  /\ req[b].phase = "post"
  /\ IF ch.state = "init"
       THEN /\ req' = [req EXCEPT ![b].phase = "set"]
            /\ UNCHANGED clientVars
       ELSE /\ req' = [req EXCEPT ![b] = NoRequest]
            /\ link' = None
            /\ left' = (left \/ link = b)
            /\ UNCHANGED received
  /\ UNCHANGED <<ch, timerVars, heartbeat, otherVars>>

\* A GET looks its session up, and acknowledges, before setBackChannel takes
\* the lock again.
AcknowledgeGet(b) ==
  /\ LockFree
  /\ ~collected
  /\ req[b].phase = "get"
  /\ ch' = AcknowledgeArrays(ch, req[b].aid)
  /\ req' = [req EXCEPT ![b].phase = "set", ![b].aid = 0]
  /\ UNCHANGED <<timerVars, heartbeat, otherVars, clientVars>>

\* The lookup fails: 'Unknown SID' ends the session of the client.
UnknownSid(b) ==
  /\ Running
  /\ collected
  /\ req[b].phase = "get"
  /\ req' = [req EXCEPT ![b] = NoRequest]
  /\ IF link = b
       THEN link' = None /\ left' = TRUE
       ELSE UNCHANGED <<link, left>>
  /\ UNCHANGED <<ch, timerVars, heartbeat, otherVars, received>>

\* newBackChannel, setChunked and setBackChannel, which starts the heartbeat
\* goroutine when it opens the channel.
SetBackChannelCall(b) ==
  /\ LockFree
  /\ req[b].phase = "set"
  /\ ch' = SetBackChannel([ch EXCEPT !.bcs[b] = NewBackChannel(req[b].chunked)], b)
  /\ heartbeat' = IF ch.state = "init" THEN "select" ELSE heartbeat
  /\ req' = [req EXCEPT ![b] = [NoRequest EXCEPT !.phase = "wait"]]
  /\ UNCHANGED <<timerVars, otherVars, clientVars>>

\* An iteration of wait.  onInput_ takes the id of every array of the chunk,
\* and 'stop' ends the session of the client.
WaitWrites(b) ==
  /\ Running
  /\ req[b].phase = "wait"
  /\ HasData(ch.bcs[b])
  /\ ch' = [ch EXCEPT !.bcs[b] = TakeChunk(@)]
  /\ LET chunk == NextChunk(ch.bcs[b])
         stops == \E i \in 1..Len(chunk) : chunk[i].elements = "stop"
     IN  IF link = b
           THEN /\ received' = received \o [i \in 1..Len(chunk) |-> chunk[i].index]
                /\ left' = (left \/ stops)
                /\ link' = IF stops THEN None ELSE link
           ELSE UNCHANGED clientVars
  /\ UNCHANGED <<timerVars, heartbeat, otherVars, req>>

\* wait returns and the response ends.
WaitReturns(b) ==
  /\ Running
  /\ req[b].phase = "wait"
  /\ WaitIsOver(ch.bcs[b])
  /\ ch' = [ch EXCEPT !.bcs[b] = NewBackChannel(FALSE)]
  /\ req' = [req EXCEPT ![b] = NoRequest]
  /\ link' = IF link = b THEN None ELSE link
  /\ UNCHANGED <<timerVars, heartbeat, otherVars, received, left>>

-----------------------------------------------------------------------------
(***************************************************************************)
(* The handler of the requests that carry none.                            *)
(***************************************************************************)

\* A POST of maps acknowledges too; it may be an old one.
AcknowledgePost(aid) ==
  /\ LockFree
  /\ ~collected
  /\ ch' = AcknowledgeArrays(ch, aid)
  /\ UNCHANGED <<timerVars, heartbeat, otherVars, req, clientVars>>

\* receiveMaps up to the loop of dequeueMaps.  Maps are dropped unless the
\* channel is ready; dequeueMaps runs whether enqueue succeeds or not.
ReceiveMaps(offset, n) ==
  /\ LockFree
  /\ ~collected
  /\ received # <<>>
  /\ IF ch.state = "ready"
       THEN /\ maps' = Enqueue(maps, offset, n)
            /\ ch' = [ch EXCEPT !.lock = IF CanDequeue(maps') THEN "dequeueMaps" ELSE @]
       ELSE UNCHANGED <<maps, ch>>
  /\ UNCHANGED <<timerVars, heartbeat, stopVars, mapChan, mapsRead, appVars,
                 termVars, req, clientVars>>

\* Mutants: dequeueMaps takes one map only; it leaves one place of mapChan free.
DequeueOneMap ==
  /\ ch.lock = "dequeueMaps"
  /\ Len(mapChan) < MapChanCapacity
  /\ mapChan' = Append(mapChan, maps.next)
  /\ maps' = Dequeue(maps)
  /\ ch' = [ch EXCEPT !.lock = "free"]
  /\ UNCHANGED <<timerVars, heartbeat, stopVars, mapsRead, appVars, termVars,
                 req, clientVars>>

DequeueMapWithRoom ==
  /\ ch.lock = "dequeueMaps"
  /\ Len(mapChan) + 1 < MapChanCapacity
  /\ mapChan' = Append(mapChan, maps.next)
  /\ maps' = Dequeue(maps)
  /\ ch' = [ch EXCEPT !.lock = IF CanDequeue(maps') THEN @ ELSE "free"]
  /\ UNCHANGED <<timerVars, heartbeat, stopVars, mapsRead, appVars, termVars,
                 req, clientVars>>

\* An iteration of dequeueMaps, which blocks while mapChan is full.
DequeueMap ==
  /\ ch.lock = "dequeueMaps"
  /\ Len(mapChan) < MapChanCapacity
  /\ mapChan' = Append(mapChan, maps.next)
  /\ maps' = Dequeue(maps)
  /\ ch' = [ch EXCEPT !.lock = IF CanDequeue(maps') THEN @ ELSE "free"]
  /\ UNCHANGED <<timerVars, heartbeat, stopVars, mapsRead, appVars, termVars,
                 req, clientVars>>

\* The lookup of the session for a TERMINATE request.
FindTerminated ==
  /\ Running
  /\ terminates > 0
  /\ terminates' = terminates - 1
  /\ terminating' = IF collected THEN terminating ELSE terminating + 1
  /\ UNCHANGED <<ch, timerVars, heartbeat, stopVars, mapVars, appVars, req,
                 clientVars>>

\* terminate, which may come after the session was closed and collected.
Terminate ==
  /\ LockFree
  /\ terminating > 0
  /\ terminating' = terminating - 1
  /\ ch' = TerminateInternal(ch)
  /\ UNCHANGED <<timerVars, heartbeat, stopVars, mapVars, appVars, terminates,
                 req, clientVars>>

-----------------------------------------------------------------------------
(***************************************************************************)
(* The rest of terminateInternal: c.heartbeatStop <- true, then the state  *)
(* and c.gcChan <- c.Sid, still under the lock.  Close called flush, and   *)
(* has mapChan left to close.                                              *)
(***************************************************************************)
\* Mutant: the send on heartbeatStop does not wait for room.
StopHeartbeatAgain ==
  /\ ch.lock = "heartbeatStop"
  /\ heartbeatStop' = heartbeatStop + 1
  /\ ch' = [ch EXCEPT !.state = "closed", !.lock = "gcChan"]
  /\ UNCHANGED <<timerVars, heartbeat, gcChan, collected, mapVars, appVars,
                 termVars, req, clientVars>>

StopHeartbeat ==
  /\ ch.lock = "heartbeatStop"
  /\ heartbeatStop = 0
  /\ heartbeatStop' = 1
  /\ ch' = [ch EXCEPT !.state = "closed", !.lock = "gcChan"]
  /\ UNCHANGED <<timerVars, heartbeat, gcChan, collected, mapVars, appVars,
                 termVars, req, clientVars>>

SendToGc ==
  /\ ch.lock = "gcChan"
  /\ gcChan < GcChanCapacity
  /\ gcChan' = gcChan + 1
  /\ LET free == [ch EXCEPT !.lock = "free"]
     IN  IF app = "inClose"
           THEN ch' = CloseMapChan(free) /\ app' = "idle"
           ELSE ch' = free /\ app' = app
  /\ UNCHANGED <<timerVars, heartbeat, heartbeatStop, collected, mapVars,
                 closes, termVars, req, clientVars>>

\* removeClosedSession.
RemoveClosedSession ==
  /\ Running
  /\ gcChan > 0
  /\ gcChan' = gcChan - 1
  /\ collected' = TRUE
  /\ UNCHANGED <<ch, timerVars, heartbeat, heartbeatStop, mapVars, appVars,
                 termVars, req, clientVars>>

-----------------------------------------------------------------------------
(***************************************************************************)
(* The timers.  An expired timer starts a goroutine that takes the lock;   *)
(* Stop comes too late for it, and it acts on the channel it then finds.   *)
(* The delays are 20 seconds and 3 minutes: with Prompt, no goroutine is   *)
(* kept from a step it can take, or from a lock it waits for, that long.   *)
(***************************************************************************)
Pending ==
  \/ ~LockFree \/ timeoutRuns + expirationRuns > 0
  \/ heartbeat = "sending" \/ app \in {"sending", "closing"}
  \/ heartbeat = "select" /\ heartbeatStop = 1
  \/ gcChan > 0 \/ terminating > 0
MayFire == Running /\ (Prompt => ~Pending)

ChannelTimeoutFires ==
  /\ MayFire
  /\ ch.channelTimeout = "armed"
  /\ timeoutRuns < MaxRuns
  /\ ch' = [ch EXCEPT !.channelTimeout = "fired"]
  /\ timeoutRuns' = timeoutRuns + 1
  /\ UNCHANGED <<expirationRuns, heartbeat, otherVars, req, clientVars>>

ChannelTimeoutRuns ==
  /\ LockFree
  /\ timeoutRuns > 0
  /\ timeoutRuns' = timeoutRuns - 1
  /\ ch' = TerminateInternal(ch)
  /\ UNCHANGED <<expirationRuns, heartbeat, otherVars, req, clientVars>>

ExpirationFires ==
  /\ MayFire
  /\ ch.backChannelExpiration = "armed"
  /\ expirationRuns < MaxRuns
  /\ ch' = [ch EXCEPT !.backChannelExpiration = "fired"]
  /\ expirationRuns' = expirationRuns + 1
  /\ UNCHANGED <<timeoutRuns, heartbeat, otherVars, req, clientVars>>

ExpirationRuns ==
  /\ LockFree
  /\ expirationRuns > 0
  /\ expirationRuns' = expirationRuns - 1
  /\ ch' = ClearBackChannel(ch, FALSE)
  /\ UNCHANGED <<timeoutRuns, heartbeat, otherVars, req, clientVars>>

-----------------------------------------------------------------------------
(***************************************************************************)
(* The heartbeat goroutine.                                                *)
(***************************************************************************)
\* A bound of the model: nobody queues more than MaxArrays arrays.
MayQueue == ch.lastArrayId < MaxArrays

HeartbeatTick ==
  /\ Running
  /\ heartbeat = "select"
  /\ MayQueue
  /\ heartbeat' = "sending"
  /\ UNCHANGED <<ch, timerVars, otherVars, req, clientVars>>

HeartbeatSends ==
  /\ LockFree
  /\ heartbeat = "sending"
  /\ heartbeat' = "select"
  /\ ch' = SendArray(ch, "noop")
  /\ UNCHANGED <<timerVars, otherVars, req, clientVars>>

\* Mutant: the goroutine learns of the end in another way.
HeartbeatReturns ==
  /\ Running
  /\ heartbeat = "select"
  /\ heartbeatStop = 1
  /\ heartbeat' = "exited"
  /\ UNCHANGED <<ch, timerVars, stopVars, mapVars, appVars, termVars, req, clientVars>>

HeartbeatStops ==
  /\ Running
  /\ heartbeat = "select"
  /\ heartbeatStop = 1
  /\ heartbeatStop' = 0
  /\ heartbeat' = "exited"
  /\ UNCHANGED <<ch, timerVars, gcChan, collected, mapVars, appVars, termVars,
                 req, clientVars>>

-----------------------------------------------------------------------------
(***************************************************************************)
(* The application (a ChannelHandler such as those of test/server): one    *)
(* goroutine that reads Maps, sends arrays and closes the channel.         *)
(***************************************************************************)
AppReadsMap ==
  /\ Running
  /\ app = "idle"
  /\ mapChan # <<>>
  /\ mapChan' = Tail(mapChan)
  /\ mapsRead' = mapsRead + 1
  /\ UNCHANGED <<ch, timerVars, heartbeat, stopVars, maps, appVars, termVars,
                 req, clientVars>>

\* The loop over Maps ends when mapChan is closed and empty.
AppReturns ==
  /\ Running
  /\ app = "idle"
  /\ ch.mapChanClosed
  /\ mapChan = <<>>
  /\ app' = "returned"
  /\ UNCHANGED <<ch, timerVars, heartbeat, stopVars, mapVars, closes, termVars,
                 req, clientVars>>

AppCallsSendArray ==
  /\ Running
  /\ app = "idle"
  /\ MayQueue
  /\ Payloads # {}
  /\ app' = "sending"
  /\ UNCHANGED <<ch, timerVars, heartbeat, stopVars, mapVars, closes, termVars,
                 req, clientVars>>

AppSendsArray(e) ==
  /\ LockFree
  /\ app = "sending"
  /\ app' = "idle"
  /\ ch' = SendArray(ch, e)
  /\ UNCHANGED <<timerVars, heartbeat, stopVars, mapVars, closes, termVars,
                 req, clientVars>>

AppCallsClose ==
  /\ Running
  /\ app = "idle"
  /\ closes < MaxCloses
  /\ closes' = closes + 1
  /\ app' = "closing"
  /\ UNCHANGED <<ch, timerVars, heartbeat, stopVars, mapVars, termVars, req,
                 clientVars>>

\* Close, which blocks in terminateInternal when flush terminates the channel.
AppCloses ==
  /\ LockFree
  /\ app = "closing"
  /\ LET c == CloseAndFlush(ch)
     IN  IF c.lock = "free"
           THEN ch' = CloseMapChan(c) /\ app' = "idle"
           ELSE ch' = c /\ app' = "inClose"
  /\ UNCHANGED <<timerVars, heartbeat, stopVars, mapVars, closes, termVars,
                 req, clientVars>>

-----------------------------------------------------------------------------
Next ==
  \/ \E b \in BackChannels :
       \/ \E chunked \in BOOLEAN : OpenBackChannel(b, chunked)
       \/ ReadState(b)
       \/ AcknowledgeGet(b)
       \/ UnknownSid(b)
       \/ SetBackChannelCall(b)
       \/ WaitWrites(b)
       \/ WaitReturns(b)
  \/ LoseLink
  \/ Leave
  \/ \E i \in 1..Len(received) : AcknowledgePost(received[i])
  \/ \E offset \in 0..(MaxMaps - 1) :
       \E n \in 1..(MaxMaps - offset) : ReceiveMaps(offset, n)
  \/ DequeueMap
  \/ FindTerminated
  \/ Terminate
  \/ StopHeartbeat
  \/ SendToGc
  \/ RemoveClosedSession
  \/ ChannelTimeoutFires
  \/ ChannelTimeoutRuns
  \/ ExpirationFires
  \/ ExpirationRuns
  \/ HeartbeatTick
  \/ HeartbeatSends
  \/ HeartbeatStops
  \/ AppReadsMap
  \/ AppReturns
  \/ AppCallsSendArray
  \/ \E e \in Payloads : AppSendsArray(e)
  \/ AppCallsClose
  \/ AppCloses

Spec == Init /\ [][Next]_vars

(***************************************************************************)
(* Fairness: a goroutine that can run does, timers expire, and a select    *)
(* with other ready cases picks a stop, a map or a closed Maps in the end, *)
(* since it chooses at random.  A sync.Mutex hands over to a starved       *)
(* waiter, so who waits for the lock would get it even if it were taken    *)
(* again and again; weak fairness is enough here.  Nothing is assumed of   *)
(* the client, nor of the network.                                         *)
(***************************************************************************)
HandlerStep(b) ==
  \/ ReadState(b)
  \/ AcknowledgeGet(b)
  \/ UnknownSid(b)
  \/ SetBackChannelCall(b)
  \/ WaitWrites(b)
  \/ WaitReturns(b)

LockHolderStep == DequeueMap \/ StopHeartbeat \/ SendToGc
AppStep ==
  \/ AppReadsMap \/ AppReturns \/ AppCloses
  \/ \E e \in Payloads : AppSendsArray(e)

Fairness ==
  /\ \A b \in BackChannels : WF_vars(HandlerStep(b))
  /\ WF_vars(Terminate)
  /\ WF_vars(LockHolderStep)
  /\ WF_vars(RemoveClosedSession)
  /\ WF_vars(ChannelTimeoutFires) /\ WF_vars(ChannelTimeoutRuns)
  /\ WF_vars(ExpirationFires) /\ WF_vars(ExpirationRuns)
  /\ WF_vars(HeartbeatSends) /\ SF_vars(HeartbeatStops)
  /\ WF_vars(AppStep)
  /\ SF_vars(AppReadsMap) /\ SF_vars(AppReturns)

FairSpec == Spec /\ Fairness

-----------------------------------------------------------------------------
(***************************************************************************)
(* Safety.                                                                 *)
(***************************************************************************)

\* A session is never without a timer: until it is closed, either a back
\* channel is set and its expiration runs, or none is and the channel timeout
\* runs.  setBackChannel and clearBackChannel hand over from one to the other.
TimerDiscipline == LockFree => Timed(ch)

\* mapChan is closed exactly when the channel is, from whichever side, so that
\* neither terminateInternal nor dequeueMaps ever meets a closed mapChan.
MapChanLifecycle == LockFree => MapChanMatches(ch)

\* outgoingArrays holds consecutive ids up to lastArrayId, the unsent ones
\* among them: the slice that flush takes is in range.
OutgoingWindow == Window(ch)

\* While a back channel is set, every queued array was handed to it: flush
\* either sends all or drops the back channel.
NothingStranded ==
  LockFree /\ ch.backChannel # None => ch.lastSentArrayId = ch.lastArrayId

\* A handler blocked in wait on an open data channel is the current back
\* channel's: whoever replaces or clears it discards it, so no other request
\* hangs.
OneOpenBackChannel ==
  LockFree =>
    \A b \in BackChannels :
      req[b].phase = "wait" /\ ch.bcs[b].open <=> ch.backChannel = b

\* The back channels together are a reliable stream of arrays, although each
\* of them may die with arrays in it and the next one starts again from the
\* last acknowledgment.  (Provided that every array can be marshalled.)
Stream == INSTANCE ArrayStream WITH
  queued <- ch.lastArrayId,
  kept <- [i \in 1..Len(ch.outgoingArrays) |-> ch.outgoingArrays[i].index]

ImplementsArrayStream == Stream!Spec

\* The channel is the session that Client and Handler take it for: among
\* others, a closed session never comes back, only a ready one has a back
\* channel, and after Close the next back channel is the last.
SessionLife == INSTANCE Session WITH
  status <- Status(ch, ~collected),
  streaming <- ch.backChannel # None,
  sent <- ch.lastArrayId

ImplementsSession == SessionLife!Spec

\* The client's part of ImplementsArrayStream: it receives the arrays 1, 2, 3,
\* ... without gap or repetition.
ReceivedInOrder == \A i \in 1..Len(received) : received[i] = i

\* Above the threshold of flush no back channel is left to the client, which
\* must come back with an acknowledgment.
BufferLimit ==
  LockFree /\ Len(ch.outgoingArrays) > ArrayLimit => ch.backChannel = None

\* The application gets the maps 0, 1, 2, ... in order: what it has read and
\* what mapChan buffers end where the queue continues, and nothing that could
\* be delivered stays behind in the queue.
MapsInOrder ==
  /\ \A i \in 1..Len(mapChan) : mapChan[i] = mapsRead + i - 1
  /\ maps.next = mapsRead + Len(mapChan)
  /\ LockFree => ~CanDequeue(maps)

\* Only Close can panic: no request, timer or heartbeat ever closes a closed
\* mapChan or stops a nil timer.
OnlyClosePanics ==
  [][Running /\ ch'.lock = "panicked" => app \in {"closing", "inClose"}]_vars

\* Where timers alone end a session, as in the run that checks it, the channel
\* timeout may find a back channel when it runs, whose end armed it once more:
\* terminateInternal then runs twice.  With prompt goroutines the heartbeat has
\* taken the first stop when the second one is sent.
StopFindsRoom == ch.lock = "heartbeatStop" => heartbeatStop = 0

\* lastSentArrayId, which getState reports to the client, never goes back: the
\* reset in setBackChannel is made up for by the flush that follows it.
LastSentNeverDecreases == [][ch'.lastSentArrayId >= ch.lastSentArrayId]_vars

\* "... before shutting down the channel permanently": a closed channel stays
\* closed.
ShutdownIsPermanent == [][ch.state = "closed" => ch'.state = "closed"]_vars

-----------------------------------------------------------------------------
(***************************************************************************)
(* Liveness.                                                               *)
(***************************************************************************)
SessionOver ==
  /\ ch.state = "closed"
  /\ LockFree
  /\ ch.mapChanClosed
  /\ collected
  /\ heartbeat \in {"none", "exited"}
  /\ app = "returned"
  /\ \A b \in BackChannels : req[b].phase = "unused"

\* The one way in which the reader of Maps can stop for good where no stop of
\* the heartbeat blocks: it calls SendArray or Close while dequeueMaps holds the
\* lock and waits for it to read.
ReaderDeadlocked ==
  /\ ch.lock = "dequeueMaps"
  /\ Len(mapChan) = MapChanCapacity
  /\ app \in {"sending", "closing"}

\* Once the client is gone the session is taken down completely, unless its
\* reader is deadlocked: the channel is closed and removed from the session
\* map, and none of its goroutines remains.
SessionEnds == left ~> (SessionOver \/ ReaderDeadlocked)

\* "SendArray calls will return an error after the channel has been closed":
\* a call of SendArray returns, in whatever state the channel is.
SendArrayReturns == app = "sending" ~> app # "sending"

\* SendArrayReturns, but for a reader that is deadlocked: neither the lock that
\* receiveMaps, a flush or a timer holds nor a full mapChan is in the way of a
\* call for good as long as Maps is read.
CallsReturn == app = "sending" ~> (app # "sending" \/ ReaderDeadlocked)
=============================================================================
