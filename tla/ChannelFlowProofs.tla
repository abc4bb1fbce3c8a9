------------------------- MODULE ChannelFlowProofs -------------------------
(***************************************************************************)
(* More proofs about Channel: what a back channel that is set has been     *)
(* given (Settled), which handlers wait on it (Waiting), and the maps on   *)
(* their way to the application (MapsFlow).  The three hold of whoever has *)
(* the lock, so they are inductive together with Inv.                      *)
(*                                                                         *)
(* Then that the channel is a Session, where Live says what the state      *)
(* implies for the back channel and the arrays; and that timers alone      *)
(* never block the end of a session.                                       *)
(***************************************************************************)
EXTENDS ChannelProofs

-----------------------------------------------------------------------------
(***************************************************************************)
(* The steps.                                                              *)
(***************************************************************************)
Waiters == {b \in BackChannels : req[b].phase = "wait"}

\* mapChan continues what the application has read, the queue continues
\* mapChan, and only dequeueMaps leaves a map that is due in the queue.
MapsFlow ==
  /\ \A i \in 1..Len(mapChan) : mapChan[i] = mapsRead + i - 1
  /\ maps.next = mapsRead + Len(mapChan)
  /\ ch.lock # "dequeueMaps" => ~CanDequeue(maps)

FlowInv == Inv /\ Flow(ch, Waiters) /\ MapsFlow

FlowOK == Flow(ch', Waiters') /\ MapsFlow'

\* newChannel has no back channel, and nobody waits.
LEMMA InitFlow == Init => FlowInv
<1> SUFFICES ASSUME Init
             PROVE  FlowInv
  OBVIOUS
<1>1. ch.backChannel = None
  BY DEF Init, NewChannel
<1>2. \A b \in BackChannels : req[b].phase # "wait"
  BY DEF Init, InitRequest, NoRequest
<1>3. Flow(ch, Waiters)
  BY <1>1, <1>2, NoneAssumption DEF Flow, Settled, Waiting, Waiters
<1>4. MapsFlow
  BY DEF Init, MapsFlow, NewMapQueue, CanDequeue
<1> QED
  BY <1>3, <1>4, InitInv DEF FlowInv

\* A step that does not touch the maps.
LEMMA MapsKept ==
  ASSUME FlowInv, UNCHANGED mapVars,
         ch.lock = "dequeueMaps" => ch'.lock = "dequeueMaps"
  PROVE  MapsFlow'
BY DEF FlowInv, MapsFlow, mapVars, CanDequeue

\* The requests that move on outside wait.
LEMMA PhaseKept ==
  ASSUME FlowInv, NEW b \in BackChannels, NEW r,
         req' = [req EXCEPT ![b] = r],
         r.phase = "wait" <=> req[b].phase = "wait"
  PROVE  Waiters' = Waiters
<1>1. req \in [BackChannels -> Requests]
  BY DEF FlowInv, Inv, EnvironmentOK
<1>2. \A x \in BackChannels : req'[x].phase = "wait" <=> req[x].phase = "wait"
  BY <1>1
<1> QED
  BY <1>2 DEF Waiters

\* A step that neither touches the channel nor moves a request to or from wait.
LEMMA OutsideFlow ==
  ASSUME FlowInv, UNCHANGED <<ch, mapVars>>, Waiters' = Waiters
  PROVE  FlowOK
BY MapsKept DEF FlowInv, FlowOK

\* The client, and the handlers before setBackChannel.
LEMMA ClientFlow ==
  ASSUME FlowInv, NEW b \in BackChannels, NEW chunked \in BOOLEAN,
         OpenBackChannel(b, chunked) \/ ReadState(b) \/ UnknownSid(b)
  PROVE  FlowOK
<1>0. req \in [BackChannels -> Requests]
  BY DEF FlowInv, Inv, EnvironmentOK
<1>1. CASE OpenBackChannel(b, chunked)
  <2>1. /\ req' = [req EXCEPT ![b] = [phase |-> "get", aid |-> LastArrayId,
                                      chunked |-> chunked]]
        /\ req[b].phase # "wait"
        /\ UNCHANGED <<ch, mapVars>>
    BY <1>1 DEF OpenBackChannel, otherVars
  <2> QED
    BY <2>1, PhaseKept, OutsideFlow
<1>2. CASE ReadState(b)
  <2>1. /\ req[b].phase # "wait"
        /\ UNCHANGED <<ch, mapVars>>
    BY <1>2 DEF ReadState, otherVars
  <2>2. CASE req' = [req EXCEPT ![b].phase = "set"]
    <3> DEFINE r == [req[b] EXCEPT !.phase = "set"]
    <3>1. req' = [req EXCEPT ![b] = r] /\ r.phase # "wait"
      BY <1>0, <2>2 DEF Requests
    <3> HIDE DEF r
    <3> QED
      BY <2>1, <3>1, PhaseKept, OutsideFlow
  <2>3. CASE req' = [req EXCEPT ![b] = NoRequest]
    <3>1. NoRequest.phase # "wait"
      BY DEF NoRequest
    <3> QED
      BY <2>1, <2>3, <3>1, PhaseKept, OutsideFlow
  <2> QED
    BY <1>2, <2>2, <2>3 DEF ReadState
<1>3. CASE UnknownSid(b)
  <2>1. /\ req' = [req EXCEPT ![b] = NoRequest]
        /\ req[b].phase # "wait"
        /\ NoRequest.phase # "wait"
        /\ UNCHANGED <<ch, mapVars>>
    BY <1>3 DEF UnknownSid, otherVars, NoRequest
  <2> QED
    BY <2>1, PhaseKept, OutsideFlow
<1> QED
  BY <1>1, <1>2, <1>3

\* Acknowledgments.
LEMMA AcknowledgmentFlow ==
  ASSUME FlowInv,
         \/ \E b \in BackChannels : AcknowledgeGet(b)
         \/ \E aid \in Nat : AcknowledgePost(aid)
  PROVE  FlowOK
<1>0. /\ req \in [BackChannels -> Requests]
      /\ ch \in ChannelRecord
      /\ Flow(ch, Waiters)
  BY DEF FlowInv, Inv, EnvironmentOK, Guarded, Consistent
<1>1. PICK a : ch' = AcknowledgeArrays(ch, a)
  BY DEF AcknowledgeGet, AcknowledgePost
<1>2. Flow(ch', Waiters)
  BY <1>0, <1>1, AcknowledgeFlow
<1>3. Waiters' = Waiters
  <2>1. ASSUME NEW b \in BackChannels, AcknowledgeGet(b)
        PROVE  Waiters' = Waiters
    <3> DEFINE r == [req[b] EXCEPT !.phase = "set", !.aid = 0]
    <3>1. /\ req' = [req EXCEPT ![b] = r]
          /\ r.phase # "wait"
          /\ req[b].phase # "wait"
      BY <1>0, <2>1 DEF AcknowledgeGet, Requests
    <3> HIDE DEF r
    <3> QED
      BY <3>1, PhaseKept
  <2>2. ASSUME NEW aid, AcknowledgePost(aid)
        PROVE  Waiters' = Waiters
    BY <2>2 DEF AcknowledgePost, Waiters
  <2> QED
    BY <2>1, <2>2
<1>4. UNCHANGED mapVars /\ ch.lock = "free"
  BY DEF AcknowledgeGet, AcknowledgePost, LockFree, otherVars
<1> QED
  BY <1>2, <1>3, <1>4, MapsKept DEF FlowOK

\* A request hands its back channel over, and then waits on it.
LEMMA SetBackChannelCallFlow ==
  ASSUME FlowInv, NEW b \in BackChannels, SetBackChannelCall(b)
  PROVE  FlowOK
<1> DEFINE c == [ch EXCEPT !.bcs[b] = NewBackChannel(req[b].chunked)]
<1>0. /\ req \in [BackChannels -> Requests]
      /\ ch \in ChannelRecord
      /\ Sound(ch)
      /\ ch.lock = "free"
      /\ Flow(ch, Waiters)
      /\ req[b].phase = "set"
  BY FreeSound DEF FlowInv, Inv, EnvironmentOK, Guarded, Consistent,
                   SetBackChannelCall, LockFree
<1>1. b \notin Waiters /\ ch.backChannel # b
  BY <1>0 DEF Waiters, Flow, Waiting
<1>2. Sound(c) /\ c.lock = "free"
  <2>1. req[b].chunked \in BOOLEAN
    BY <1>0 DEF Requests
  <2> QED
    BY <1>0, <2>1, FreshConsistent DEF Sound
<1>3. /\ c.bcs = [ch.bcs EXCEPT ![b] = NewBackChannel(req[b].chunked)]
      /\ c.backChannel = ch.backChannel
      /\ c.lastArrayId = ch.lastArrayId
      /\ c.lastSentArrayId = ch.lastSentArrayId
      /\ c.outgoingArrays = ch.outgoingArrays
  BY <1>0 DEF ChannelRecord
<1>4. ch' = SetBackChannel(c, b)
  BY DEF SetBackChannelCall
<1> HIDE DEF c
<1>5. /\ c.bcs[b].open
      /\ \A x \in BackChannels : x # b => c.bcs[x] = ch.bcs[x]
  BY <1>0, <1>3 DEF ChannelRecord, NewBackChannel
<1>6. Flow(c, Waiters)
  <2>1. Settled(c)
    BY <1>0, <1>3 DEF Flow, Settled
  <2>2. Waiting(c, Waiters)
    BY <1>0, <1>1, <1>3, <1>5 DEF Flow, Waiting
  <2> QED
    BY <2>1, <2>2 DEF Flow
<1>7. Flow(ch', Waiters \union {b})
  BY <1>1, <1>2, <1>4, <1>5, <1>6, SetBackChannelFlow
<1>8. Waiters' = Waiters \union {b}
  <2>1. req' = [req EXCEPT ![b] = [NoRequest EXCEPT !.phase = "wait"]]
    BY DEF SetBackChannelCall
  <2>2. \A x \in BackChannels :
          req'[x].phase = "wait" <=> req[x].phase = "wait" \/ x = b
    BY <1>0, <2>1 DEF NoRequest
  <2> QED
    BY <2>2 DEF Waiters
<1>9. UNCHANGED mapVars
  BY DEF SetBackChannelCall, otherVars
<1> QED
  BY <1>0, <1>7, <1>8, <1>9, MapsKept DEF FlowOK

\* An iteration of wait, whichever its back channel is.
LEMMA WaitWritesFlow ==
  ASSUME FlowInv, NEW b \in BackChannels, WaitWrites(b)
  PROVE  FlowOK
<1>1. ch \in ChannelRecord /\ Flow(ch, Waiters)
  BY DEF FlowInv, Inv, Guarded, Consistent
<1>2. /\ ch'.bcs = [ch.bcs EXCEPT ![b] = TakeChunk(@)]
      /\ ch'.backChannel = ch.backChannel
      /\ ch'.lastArrayId = ch.lastArrayId
      /\ ch'.lastSentArrayId = ch.lastSentArrayId
      /\ ch'.outgoingArrays = ch.outgoingArrays
      /\ ch'.lock = ch.lock
  BY <1>1 DEF WaitWrites, ChannelRecord
<1>3. \A x \in BackChannels : ch'.bcs[x].open = ch.bcs[x].open
  BY <1>1, <1>2 DEF TakeChunk, ChannelRecord, BackChannelRecord
<1>4. Flow(ch', Waiters)
  BY <1>1, <1>2, <1>3 DEF Flow, Settled, Waiting
<1>5. Waiters' = Waiters /\ UNCHANGED mapVars
  BY DEF WaitWrites, Waiters, otherVars
<1> QED
  BY <1>2, <1>4, <1>5, MapsKept DEF FlowOK

\* Only a handler whose data channel is closed returns from wait, so it is not
\* the back channel's.
LEMMA WaitReturnsFlow ==
  ASSUME FlowInv, NEW b \in BackChannels, WaitReturns(b)
  PROVE  FlowOK
<1>1. /\ ch \in ChannelRecord
      /\ Flow(ch, Waiters)
      /\ req \in [BackChannels -> Requests]
  BY DEF FlowInv, Inv, Guarded, Consistent, EnvironmentOK
<1>2. /\ ch'.bcs = [ch.bcs EXCEPT ![b] = NewBackChannel(FALSE)]
      /\ ch'.backChannel = ch.backChannel
      /\ ch'.lastArrayId = ch.lastArrayId
      /\ ch'.lastSentArrayId = ch.lastSentArrayId
      /\ ch'.outgoingArrays = ch.outgoingArrays
      /\ ch'.lock = ch.lock
  BY <1>1 DEF WaitReturns, ChannelRecord
<1>3. ch.backChannel # b
  BY <1>1 DEF WaitReturns, WaitIsOver, Flow, Waiting
<1>4. \A x \in BackChannels : x # b => ch'.bcs[x] = ch.bcs[x]
  BY <1>1, <1>2 DEF ChannelRecord
<1>5. \A x \in BackChannels : x \in Waiters' <=> x \in Waiters /\ x # b
  <2>1. req' = [req EXCEPT ![b] = NoRequest]
    BY DEF WaitReturns
  <2> QED
    BY <1>1, <2>1 DEF Waiters, NoRequest
<1>6. Flow(ch', Waiters')
  BY <1>1, <1>2, <1>3, <1>4, <1>5 DEF Flow, Settled, Waiting
<1>7. UNCHANGED mapVars
  BY DEF WaitReturns, otherVars
<1> QED
  BY <1>2, <1>6, <1>7, MapsKept DEF FlowOK

\* What the queue has released is due no more, however many maps a request
\* brings; dequeueMaps starts when a map is due.
LEMMA ReceiveMapsFlow ==
  ASSUME FlowInv, NEW offset, NEW n, ReceiveMaps(offset, n)
  PROVE  FlowOK
<1>1. ch \in ChannelRecord /\ Flow(ch, Waiters) /\ maps \in MapQueueRecord
  BY DEF FlowInv, Inv, Guarded, Consistent, EnvironmentOK
<1>2. Waiters' = Waiters
  BY DEF ReceiveMaps, Waiters
<1>3. CASE ch.state # "ready"
  BY <1>2, <1>3, OutsideFlow DEF ReceiveMaps, mapVars
<1>4. CASE ch.state = "ready"
  <2>1. /\ maps' = Enqueue(maps, offset, n)
        /\ ch' = [ch EXCEPT !.lock = IF CanDequeue(maps') THEN "dequeueMaps" ELSE @]
        /\ UNCHANGED <<mapChan, mapsRead>>
    BY <1>4 DEF ReceiveMaps
  <2>2. /\ ch'.backChannel = ch.backChannel
        /\ ch'.bcs = ch.bcs
        /\ ch'.lastArrayId = ch.lastArrayId
        /\ ch'.lastSentArrayId = ch.lastSentArrayId
        /\ ch'.outgoingArrays = ch.outgoingArrays
        /\ CanDequeue(maps') => ch'.lock = "dequeueMaps"
    BY <1>1, <2>1 DEF ChannelRecord
  <2>3. maps'.next = maps.next
    BY <1>1, <2>1 DEF Enqueue, MapQueueRecord
  <2>4. Flow(ch', Waiters)
    BY <1>1, <2>2, FlowFrame
  <2>5. MapsFlow'
    BY <2>1, <2>2, <2>3 DEF FlowInv, MapsFlow
  <2> QED
    BY <1>2, <2>4, <2>5 DEF FlowOK
<1> QED
  BY <1>3, <1>4

\* dequeueMaps appends the map that continues mapChan, and goes on until none
\* is due.
LEMMA DequeueMapFlow ==
  ASSUME FlowInv, DequeueMap
  PROVE  FlowOK
<1>1. /\ ch \in ChannelRecord
      /\ Flow(ch, Waiters)
      /\ maps \in MapQueueRecord
      /\ mapChan \in Seq(Nat)
      /\ mapsRead \in Nat
      /\ MapsFlow
  BY DEF FlowInv, Inv, Guarded, Consistent, EnvironmentOK
<1>2. /\ mapChan' = Append(mapChan, maps.next)
      /\ maps' = Dequeue(maps)
      /\ ch' = [ch EXCEPT !.lock = IF CanDequeue(maps') THEN @ ELSE "free"]
      /\ mapsRead' = mapsRead
      /\ ch.lock = "dequeueMaps"
      /\ Waiters' = Waiters
  BY DEF DequeueMap, Waiters
<1>3. /\ ch'.backChannel = ch.backChannel
      /\ ch'.bcs = ch.bcs
      /\ ch'.lastArrayId = ch.lastArrayId
      /\ ch'.lastSentArrayId = ch.lastSentArrayId
      /\ ch'.outgoingArrays = ch.outgoingArrays
      /\ ch'.lock # "dequeueMaps" => ~CanDequeue(maps')
  BY <1>1, <1>2 DEF ChannelRecord
<1>4. /\ Len(mapChan') = Len(mapChan) + 1
      /\ \A i \in 1..Len(mapChan') :
           mapChan'[i] = IF i = Len(mapChan) + 1 THEN maps.next ELSE mapChan[i]
  BY <1>1, <1>2
<1>5. maps'.next = maps.next + 1 /\ maps.next \in Nat
  BY <1>1, <1>2 DEF Dequeue, MapQueueRecord
<1>6. MapsFlow'
  <2>1. maps'.next = mapsRead + Len(mapChan')
    BY <1>1, <1>4, <1>5 DEF MapsFlow
  <2>2. ASSUME NEW i \in 1..Len(mapChan')
        PROVE  mapChan'[i] = mapsRead + i - 1
    <3>1. CASE i = Len(mapChan) + 1
      BY <1>1, <1>4, <3>1 DEF MapsFlow
    <3>2. CASE i # Len(mapChan) + 1
      <4>1. i \in 1..Len(mapChan)
        BY <1>1, <1>4, <3>2
      <4> QED
        BY <1>1, <1>4, <3>2, <4>1 DEF MapsFlow
    <3> QED
      BY <3>1, <3>2
  <2> QED
    BY <1>2, <1>3, <2>1, <2>2 DEF MapsFlow
<1> QED
  BY <1>1, <1>2, <1>3, <1>6, FlowFrame DEF FlowOK

\* The application takes the map that follows those it has read.
LEMMA AppReadsMapFlow ==
  ASSUME FlowInv, AppReadsMap
  PROVE  FlowOK
<1>1. /\ mapChan \in Seq(Nat)
      /\ mapsRead \in Nat
      /\ MapsFlow
      /\ Flow(ch, Waiters)
  BY DEF FlowInv, Inv, EnvironmentOK
<1>2. /\ mapChan # <<>>
      /\ mapChan' = Tail(mapChan)
      /\ mapsRead' = mapsRead + 1
      /\ UNCHANGED <<ch, maps>>
      /\ Waiters' = Waiters
  BY DEF AppReadsMap, Waiters
<1>3. /\ Len(mapChan') = Len(mapChan) - 1
      /\ \A i \in 1..Len(mapChan') : mapChan'[i] = mapChan[i + 1]
  BY <1>1, <1>2
<1>4. \A i \in 1..Len(mapChan') : mapChan'[i] = (mapsRead + 1) + i - 1
  <2> SUFFICES ASSUME NEW i \in 1..Len(mapChan')
               PROVE  mapChan'[i] = mapsRead + i
    BY <1>1, <1>2
  <2>1. i + 1 \in 1..Len(mapChan)
    BY <1>1, <1>2, <1>3
  <2> QED
    BY <1>1, <1>3, <2>1 DEF MapsFlow
<1>5. maps.next = (mapsRead + 1) + Len(mapChan')
  BY <1>1, <1>3 DEF MapsFlow
<1> QED
  BY <1>1, <1>2, <1>4, <1>5 DEF FlowOK, MapsFlow, CanDequeue

\* terminateInternal is called.
LEMMA TerminateCallsFlow ==
  ASSUME FlowInv, Terminate \/ ChannelTimeoutRuns
  PROVE  FlowOK
<1>1. /\ ch.lock = "free"
      /\ ch' = TerminateInternal(ch)
      /\ Waiters' = Waiters
      /\ UNCHANGED mapVars
  BY DEF Terminate, ChannelTimeoutRuns, LockFree, Waiters, otherVars
<1>2. /\ ch \in ChannelRecord
      /\ Waiting(ch, Waiters)
      /\ ch.state \in {"init", "ready"} => ~ch.mapChanClosed
  BY <1>1, FreeSound DEF FlowInv, Inv, Flow, Sound, Consistent, MapChanMatches
<1>3. Flow(ch', Waiters)
  BY <1>1, <1>2, TerminateFlow
<1> QED
  BY <1>1, <1>3, MapsKept DEF FlowOK

\* The rest of terminateInternal.
LEMMA ClosingFlow ==
  ASSUME FlowInv, StopHeartbeat \/ SendToGc
  PROVE  FlowOK
<1>1. /\ ch \in ChannelRecord
      /\ Flow(ch, Waiters)
      /\ ch.lock # "dequeueMaps"
      /\ Waiters' = Waiters
      /\ UNCHANGED mapVars
  BY DEF FlowInv, Inv, Guarded, Consistent, StopHeartbeat, SendToGc, Waiters
<1>2. CASE StopHeartbeat
  <2>1. /\ ch'.backChannel = ch.backChannel
        /\ ch'.bcs = ch.bcs
        /\ ch'.lastArrayId = ch.lastArrayId
        /\ ch'.lastSentArrayId = ch.lastSentArrayId
        /\ ch'.outgoingArrays = ch.outgoingArrays
    BY <1>1, <1>2 DEF StopHeartbeat, ChannelRecord
  <2> QED
    BY <1>1, <2>1, FlowFrame, MapsKept DEF FlowOK
<1>3. CASE SendToGc
  <2> DEFINE free == [ch EXCEPT !.lock = "free"]
  <2>1. /\ free \in ChannelRecord
        /\ free.backChannel = ch.backChannel
        /\ free.bcs = ch.bcs
        /\ free.lastArrayId = ch.lastArrayId
        /\ free.lastSentArrayId = ch.lastSentArrayId
        /\ free.outgoingArrays = ch.outgoingArrays
    BY <1>1 DEF ChannelRecord, Locks
  <2>2. ch' = CloseMapChan(free) \/ ch' = free
    BY <1>3 DEF SendToGc
  <2> HIDE DEF free
  <2>3. Flow(free, Waiters)
    BY <1>1, <2>1, FlowFrame
  <2>4. Flow(ch', Waiters)
    BY <2>1, <2>2, <2>3, CloseMapChanFlow
  <2> QED
    BY <1>1, <2>4, MapsKept DEF FlowOK
<1> QED
  BY <1>2, <1>3

\* The links that break, the collector, the requests that end elsewhere, the
\* timers that expire, and the goroutines before they take the lock.
LEMMA BesideFlow ==
  ASSUME FlowInv,
         \/ LoseLink \/ Leave \/ FindTerminated \/ RemoveClosedSession
         \/ ChannelTimeoutFires \/ ExpirationFires
         \/ HeartbeatTick \/ HeartbeatStops \/ AppReturns
         \/ AppCallsSendArray \/ AppCallsClose
  PROVE  FlowOK
<1>1. ch \in ChannelRecord /\ Flow(ch, Waiters)
  BY DEF FlowInv, Inv, Guarded, Consistent
<1>2. Waiters' = Waiters /\ UNCHANGED mapVars
  BY DEF LoseLink, Leave, FindTerminated, RemoveClosedSession,
         ChannelTimeoutFires, ExpirationFires, HeartbeatTick, HeartbeatStops, AppReturns, AppCallsSendArray,
         AppCallsClose, Waiters, otherVars
<1>3. CASE ChannelTimeoutFires \/ ExpirationFires
  <2>1. /\ ch'.backChannel = ch.backChannel
        /\ ch'.bcs = ch.bcs
        /\ ch'.lastArrayId = ch.lastArrayId
        /\ ch'.lastSentArrayId = ch.lastSentArrayId
        /\ ch'.outgoingArrays = ch.outgoingArrays
        /\ ch'.lock = ch.lock
    BY <1>1, <1>3 DEF ChannelTimeoutFires, ExpirationFires, ChannelRecord
  <2> QED
    BY <1>1, <1>2, <2>1, FlowFrame, MapsKept DEF FlowOK
<1>4. CASE ~(ChannelTimeoutFires \/ ExpirationFires)
  <2>1. ch' = ch
    BY <1>4 DEF LoseLink, Leave, FindTerminated, RemoveClosedSession, HeartbeatTick, HeartbeatStops,
                AppReturns, AppCallsSendArray, AppCallsClose
  <2> QED
    BY <1>2, <2>1, OutsideFlow
<1> QED
  BY <1>3, <1>4

\* The calls of the timers, of the heartbeat and of the application.
LEMMA CallsFlow ==
  ASSUME FlowInv,
         \/ ExpirationRuns \/ HeartbeatSends \/ AppCloses
         \/ \E e \in Payloads : AppSendsArray(e)
  PROVE  FlowOK
<1>1. /\ ch.lock = "free"
      /\ Waiters' = Waiters
      /\ UNCHANGED mapVars
  BY DEF ExpirationRuns, HeartbeatSends, AppSendsArray, AppCloses, LockFree,
         Waiters, otherVars
<1>2. ch \in ChannelRecord /\ Window(ch) /\ Flow(ch, Waiters) /\ Sound(ch)
  BY <1>1, FreeSound DEF FlowInv, Inv, Guarded, Consistent
<1>3. CASE ExpirationRuns
  <2>1. Flow(ch', Waiters)
    BY <1>2, <1>3, ClearFlow DEF ExpirationRuns, Flow
  <2> QED
    BY <1>1, <2>1, MapsKept DEF FlowOK
<1>4. CASE HeartbeatSends \/ \E e \in Payloads : AppSendsArray(e)
  <2>1. PICK x \in Elements : ch' = SendArray(ch, x)
    BY <1>4 DEF HeartbeatSends, AppSendsArray, Elements
  <2>2. Flow(ch', Waiters)
    BY <1>1, <1>2, <2>1, SendArrayFlow
  <2> QED
    BY <1>1, <2>2, MapsKept DEF FlowOK
<1>5. CASE AppCloses
  <2> DEFINE c == CloseAndFlush(ch)
  <2>1. Flow(c, Waiters) /\ c \in ChannelRecord
    BY <1>1, <1>2, CloseFlow, CloseAndFlushProperties DEF Consistent
  <2>2. ch' = CloseMapChan(c) \/ ch' = c
    BY <1>5 DEF AppCloses
  <2> HIDE DEF c
  <2>3. Flow(ch', Waiters)
    BY <2>1, <2>2, CloseMapChanFlow
  <2> QED
    BY <1>1, <2>3, MapsKept DEF FlowOK
<1> QED
  BY <1>3, <1>4, <1>5

\* Every step keeps what a back channel was given, who waits on it, and the
\* order of the maps.
LEMMA FlowStep ==
  ASSUME FlowInv, [Next]_vars
  PROVE  FlowInv'
<1>0. Inv'
  BY Step DEF FlowInv, StepOK
<1> SUFFICES FlowOK
  BY <1>0 DEF FlowInv, FlowOK
<1>1. ASSUME NEW b \in BackChannels, NEW chunked \in BOOLEAN,
             OpenBackChannel(b, chunked) \/ ReadState(b) \/ UnknownSid(b)
      PROVE  FlowOK
  BY <1>1, ClientFlow
<1>2. ASSUME NEW b \in BackChannels, AcknowledgeGet(b)
      PROVE  FlowOK
  BY <1>2, AcknowledgmentFlow
<1>3. ASSUME NEW i \in 1..Len(received), AcknowledgePost(received[i])
      PROVE  FlowOK
  <2>1. received[i] \in Nat
    BY DEF FlowInv, Inv, EnvironmentOK
  <2> QED
    BY <1>3, <2>1, AcknowledgmentFlow
<1>4. ASSUME NEW b \in BackChannels, SetBackChannelCall(b)
      PROVE  FlowOK
  BY <1>4, SetBackChannelCallFlow
<1>5. ASSUME NEW b \in BackChannels, WaitWrites(b)
      PROVE  FlowOK
  BY <1>5, WaitWritesFlow
<1>6. ASSUME NEW b \in BackChannels, WaitReturns(b)
      PROVE  FlowOK
  BY <1>6, WaitReturnsFlow
<1>7. ASSUME NEW offset \in 0..(MaxMaps - 1), NEW n \in 1..(MaxMaps - offset),
             ReceiveMaps(offset, n)
      PROVE  FlowOK
  BY <1>7, ReceiveMapsFlow
<1>8. CASE DequeueMap
  BY <1>8, DequeueMapFlow
<1>9. CASE AppReadsMap
  BY <1>9, AppReadsMapFlow
<1>10. CASE Terminate \/ ChannelTimeoutRuns
  BY <1>10, TerminateCallsFlow
<1>11. CASE StopHeartbeat \/ SendToGc
  BY <1>11, ClosingFlow
<1>12. CASE \/ LoseLink \/ Leave \/ FindTerminated \/ RemoveClosedSession
            \/ ChannelTimeoutFires \/ ExpirationFires
            \/ HeartbeatTick \/ HeartbeatStops \/ AppReturns
            \/ AppCallsSendArray \/ AppCallsClose
  BY <1>12, BesideFlow
<1>13. CASE ExpirationRuns \/ HeartbeatSends \/ AppCloses
  BY <1>13, CallsFlow
<1>14. ASSUME NEW e \in Payloads, AppSendsArray(e)
       PROVE  FlowOK
  BY <1>14, CallsFlow
<1>15. CASE UNCHANGED vars
  <2>1. UNCHANGED <<ch, mapVars>> /\ Waiters' = Waiters
    BY <1>15 DEF vars, otherVars, Waiters
  <2> QED
    BY <2>1, OutsideFlow
<1> QED
  <2>1. ASSUME NEW b \in BackChannels, ReadState(b) \/ UnknownSid(b)
        PROVE  FlowOK
    BY <1>1, <2>1
  <2> QED
    BY <1>1, <1>2, <1>3, <1>4, <1>5, <1>6, <1>7, <1>8, <1>9, <1>10, <1>11,
       <1>12, <1>13, <1>14, <1>15, <2>1 DEF Next

-----------------------------------------------------------------------------
(***************************************************************************)
(* The theorems.                                                           *)
(***************************************************************************)

\* The invariant holds in every reachable state.
THEOREM FlowInvariance == Spec => []FlowInv
BY InitFlow, FlowStep, PTL DEF Spec

\* While a back channel is set nothing is queued that it was not given: a flush
\* whose send finds the data channel full drops the back channel, and a request
\* that takes over is given everything again.
THEOREM NothingIsStranded == Spec => []NothingStranded
<1>1. FlowInv => NothingStranded
  BY DEF FlowInv, Flow, Settled, NothingStranded
<1> QED
  BY <1>1, FlowInvariance, PTL

\* No handler is left in wait on a data channel that nobody closes any more:
\* whatever replaces, expires or terminates a back channel discards it.
THEOREM OneBackChannelIsOpen == Spec => []OneOpenBackChannel
<1>1. FlowInv => OneOpenBackChannel
  BY DEF FlowInv, Flow, Waiting, Waiters, OneOpenBackChannel
<1> QED
  BY <1>1, FlowInvariance, PTL

\* Above the threshold of flush there is no back channel for whoever gets the
\* lock, also when a new one is set by a request that acknowledges too little.
THEOREM BufferIsLimited == Spec => []BufferLimit
<1>1. FlowInv => BufferLimit
  BY ArrayLimitAssumption DEF FlowInv, Inv, Guarded, Consistent, ChannelRecord,
                              Flow, Settled, BufferLimit
<1> QED
  BY <1>1, FlowInvariance, PTL

\* The application gets the maps in the order of their ids, without a gap, and
\* no map that is due waits for the next request.
THEOREM MapsAreInOrder == Spec => []MapsInOrder
<1>1. FlowInv => MapsInOrder
  BY DEF FlowInv, MapsFlow, MapsInOrder, LockFree
<1> QED
  BY <1>1, FlowInvariance, PTL

-----------------------------------------------------------------------------
(***************************************************************************)
(* The channel as a session.                                               *)
(***************************************************************************)

\* What is collected, or about to be, is closed; and the Close that is waiting
\* in terminateInternal has mapChan left to close, which saves it from a panic.
LifeInv ==
  /\ FlowInv
  /\ Live(ch)
  /\ ch.lock = "dequeueMaps" => ch.state = "ready"
  /\ app = "inClose" => ~ch.mapChanClosed
  /\ Running /\ (gcChan > 0 \/ collected) => ch.state = "closed"

LifeOK ==
  /\ Live(ch')
  /\ ch'.lock = "dequeueMaps" => ch'.state = "ready"
  /\ app' = "inClose" => ~ch'.mapChanClosed
  /\ ch'.lock # "panicked" /\ (gcChan' > 0 \/ collected') => ch'.state = "closed"
  /\ ViewStep(View(ch, ~collected), View(ch', ~collected'))

\* newChannel returns a session nobody has opened.
LEMMA InitLife == Init => LifeInv /\ SessionLife!Init
<1> SUFFICES ASSUME Init
             PROVE  LifeInv /\ SessionLife!Init
  OBVIOUS
<1>1. LifeInv
  <2>1. gcChan = 0 /\ ~collected /\ app = "idle" /\ ch = NewChannel
    BY DEF Init
  <2>2. NewChannel.lock = "free"
    BY NewChannelSound
  <2> QED
    BY <2>1, <2>2, NewChannelLife, InitFlow DEF LifeInv
<1>2. Status(ch, ~collected) = "init" /\ ch.backChannel = None /\ ch.lastArrayId = 0
  BY DEF Init, NewChannel, Status
<1> QED
  BY <1>1, <1>2 DEF SessionLife!Init

\* A step beside the channel: it is not collected by it, unless it was going
\* to be, and no Close begins to wait.
LEMMA BesideLife ==
  ASSUME LifeInv, UNCHANGED <<ch, collected>>,
         app' = "inClose" => app = "inClose",
         gcChan' > 0 => gcChan > 0
  PROVE  LifeOK
BY DEF LifeInv, LifeOK, Running, ViewStep

\* A step of the holder of the lock that ends with the lock free or in
\* terminateInternal, and neither opens nor closes the session for good.
LEMMA HolderLife ==
  ASSUME LifeInv, ch.lock = "free", Lives(ch, ch', ~collected),
         ch'.lock # "dequeueMaps", ch.state = "closed" => ch'.state = "closed",
         app' # "inClose", UNCHANGED <<gcChan, collected>>
  PROVE  LifeOK
BY DEF LifeInv, LifeOK, Lives, Running

\* What the holder of the lock may rely on.
LEMMA LifeFree ==
  ASSUME LifeInv, ch.lock = "free"
  PROVE  /\ ch \in ChannelRecord
         /\ Window(ch)
         /\ Sound(ch)
         /\ Live(ch)
         /\ collected \in BOOLEAN
         /\ (~collected) \in BOOLEAN
         /\ ~(~collected) => ch.state = "closed"
         /\ ch.state \in {"init", "ready"} => ~ch.mapChanClosed
         /\ ch.state = "closed" => ch.mapChanClosed
         /\ app # "inClose"
BY FreeSound DEF LifeInv, FlowInv, Inv, EnvironmentOK, Sound, Consistent,
                 MapChanMatches, Running

\* Requests that come and go, the application before it takes the lock, the
\* heartbeat, the client.
LEMMA OutsideLife ==
  ASSUME LifeInv,
         \/ \E b \in BackChannels :
              \/ \E chunked \in BOOLEAN : OpenBackChannel(b, chunked)
              \/ ReadState(b) \/ UnknownSid(b)
         \/ LoseLink \/ Leave \/ FindTerminated
         \/ HeartbeatTick \/ HeartbeatStops
         \/ AppReadsMap \/ AppReturns \/ AppCallsSendArray \/ AppCallsClose
  PROVE  LifeOK
<1>1. /\ UNCHANGED <<ch, collected, gcChan>>
      /\ app' = "inClose" => app = "inClose"
  BY DEF OpenBackChannel, ReadState, UnknownSid, LoseLink, Leave, FindTerminated,
         HeartbeatTick, HeartbeatStops, AppReadsMap, AppReturns,
         AppCallsSendArray, AppCallsClose, otherVars, stopVars, appVars
<1> QED
  BY <1>1, BesideLife

\* Steps that change fields no session is seen by: an acknowledgment, an
\* iteration or the end of wait, a timer that expires.
LEMMA InsideLife ==
  ASSUME LifeInv,
         \/ \E b \in BackChannels :
              AcknowledgeGet(b) \/ WaitWrites(b) \/ WaitReturns(b)
         \/ \E aid \in Nat : AcknowledgePost(aid)
         \/ ChannelTimeoutFires \/ ExpirationFires
  PROVE  LifeOK
<1>1. ch \in ChannelRecord
  BY DEF LifeInv, FlowInv, Inv, Guarded, Consistent
<1>2. /\ ch'.state = ch.state
      /\ ch'.backChannel = ch.backChannel
      /\ ch'.lock = ch.lock
      /\ ch'.lastArrayId = ch.lastArrayId
      /\ ch'.lastSentArrayId = ch.lastSentArrayId
      /\ ch'.mapChanClosed = ch.mapChanClosed
  BY <1>1 DEF AcknowledgeGet, WaitWrites, WaitReturns, AcknowledgePost,
              ChannelTimeoutFires, ExpirationFires, AcknowledgeArrays, ChannelRecord
<1>3. UNCHANGED <<collected, gcChan, app>>
  BY DEF AcknowledgeGet, WaitWrites, WaitReturns, AcknowledgePost,
         ChannelTimeoutFires, ExpirationFires, otherVars, stopVars, appVars
<1>4. Lives(ch, ch', ~collected)
  BY <1>2, LifeFrame DEF LifeInv, FlowInv, Inv, EnvironmentOK
<1> QED
  BY <1>2, <1>3, <1>4 DEF LifeInv, LifeOK, Lives, Running

\* A request sets its back channel.
LEMMA SetBackChannelCallLife ==
  ASSUME LifeInv, NEW b \in BackChannels, SetBackChannelCall(b)
  PROVE  LifeOK
<1> DEFINE c == [ch EXCEPT !.bcs[b] = NewBackChannel(req[b].chunked)]
<1>0. ch.lock = "free"
  BY DEF SetBackChannelCall, LockFree
<1>1. /\ ch \in ChannelRecord
      /\ Sound(ch)
      /\ Live(ch)
      /\ (~collected) \in BOOLEAN
      /\ ~(~collected) => ch.state = "closed"
      /\ app # "inClose"
  BY <1>0, LifeFree
<1>2. req[b].phase = "set" /\ req[b].chunked \in BOOLEAN
  BY DEF SetBackChannelCall, LifeInv, FlowInv, Inv, EnvironmentOK, Requests
<1>3. ch.backChannel # b
  BY <1>2 DEF LifeInv, FlowInv, Flow, Waiting, Waiters
<1>4. Sound(c)
  BY <1>1, <1>2, FreshConsistent DEF Sound
<1>5. /\ c.bcs[b] = NewBackChannel(req[b].chunked)
      /\ c.backChannel = ch.backChannel
      /\ c.state = ch.state
      /\ c.lock = "free"
      /\ c.lastArrayId = ch.lastArrayId
      /\ c.lastSentArrayId = ch.lastSentArrayId
  BY <1>0, <1>1 DEF ChannelRecord
<1>6. c.bcs[b].dataChan = <<>>
  BY <1>5 DEF NewBackChannel
<1>7. ch' = SetBackChannel(c, b) /\ UNCHANGED <<app, gcChan, collected>>
  BY DEF SetBackChannelCall, otherVars, stopVars, appVars
<1> HIDE DEF c
<1>8. Live(c) /\ View(c, ~collected) = View(ch, ~collected)
  BY <1>0, <1>1, <1>5 DEF Live, View, Status
<1>9. Lives(c, ch', ~collected)
  BY <1>1, <1>2, <1>3, <1>4, <1>5, <1>7, <1>8, SetBackChannelLife
<1>10. Lives(ch, ch', ~collected)
  BY <1>8, <1>9 DEF Lives
<1>11. /\ ch'.lock \in {"free", "heartbeatStop"}
       /\ ch.state = "closed" => ch'.state = "closed"
  BY <1>4, <1>5, <1>6, <1>7, SetBackChannelProperties
<1> QED
  BY <1>0, <1>1, <1>7, <1>10, <1>11, HolderLife

\* terminateInternal, clearBackChannel and SendArray.
LEMMA MethodsLife ==
  ASSUME LifeInv,
         \/ Terminate \/ ChannelTimeoutRuns \/ ExpirationRuns \/ HeartbeatSends
         \/ \E e \in Payloads : AppSendsArray(e)
  PROVE  LifeOK
<1>0. /\ ch.lock = "free"
      /\ gcChan' = gcChan
      /\ collected' = collected
  BY DEF Terminate, ChannelTimeoutRuns, ExpirationRuns, HeartbeatSends,
         AppSendsArray, LockFree, otherVars, stopVars
<1>1. /\ ch \in ChannelRecord
      /\ Window(ch)
      /\ Sound(ch)
      /\ Live(ch)
      /\ (~collected) \in BOOLEAN
      /\ ~(~collected) => ch.state = "closed"
      /\ ch.state \in {"init", "ready"} => ~ch.mapChanClosed
      /\ app # "inClose"
  BY <1>0, LifeFree
<1>2. app' # "inClose"
  BY <1>1 DEF Terminate, ChannelTimeoutRuns, ExpirationRuns, HeartbeatSends,
              AppSendsArray, otherVars, appVars
<1>3. CASE Terminate \/ ChannelTimeoutRuns
  <2>1. ch' = TerminateInternal(ch)
    BY <1>3 DEF Terminate, ChannelTimeoutRuns
  <2>2. ch'.lock = "heartbeatStop" /\ ch'.state = ch.state
    BY <1>0, <1>1, <2>1, TerminateInternalProperties
  <2>3. Lives(ch, ch', ~collected)
    BY <1>0, <1>1, <2>1, TerminateLife
  <2> QED
    BY <1>0, <1>2, <2>2, <2>3, HolderLife
<1>4. CASE ExpirationRuns
  <2>1. ch' = ClearBackChannel(ch, FALSE)
    BY <1>4 DEF ExpirationRuns
  <2>2. ch'.lock = "free" /\ ch'.state = ch.state
    BY <1>0, <1>1, <2>1, ClearBackChannelFrame
  <2>3. Lives(ch, ch', ~collected)
    BY <1>0, <1>1, <2>1, ClearLife
  <2> QED
    BY <1>0, <1>2, <2>2, <2>3, HolderLife
<1>5. CASE HeartbeatSends \/ \E e \in Payloads : AppSendsArray(e)
  <2>1. PICK x \in Elements : ch' = SendArray(ch, x)
    BY <1>5 DEF HeartbeatSends, AppSendsArray, Elements
  <2>2. ch'.lock = "free" /\ (ch.state = "closed" => ch'.state = "closed")
    BY <1>0, <1>1, <2>1, SendArraySound DEF SendArray
  <2>3. Lives(ch, ch', ~collected)
    BY <1>0, <1>1, <2>1, SendArrayLife
  <2> QED
    BY <1>0, <1>2, <2>2, <2>3, HolderLife
<1> QED
  BY <1>3, <1>4, <1>5

\* receiveMaps and dequeueMaps: maps are for a ready session only.
LEMMA MapsLife ==
  ASSUME LifeInv,
         \/ \E offset, n : ReceiveMaps(offset, n)
         \/ DequeueMap
  PROVE  LifeOK
<1>1. ch \in ChannelRecord
  BY DEF LifeInv, FlowInv, Inv, Guarded, Consistent
<1>2. UNCHANGED <<collected, gcChan, app>>
  BY DEF ReceiveMaps, DequeueMap, stopVars, appVars
<1>3. CASE ch' = ch
  BY <1>2, <1>3, BesideLife
<1>4. CASE ch' # ch
  <2>1. ch.state = "ready" /\ ch.lock \in {"free", "dequeueMaps"}
    BY <1>4 DEF ReceiveMaps, DequeueMap, LockFree, LifeInv
  <2>2. \E l \in {"free", "dequeueMaps"} : ch' = [ch EXCEPT !.lock = l]
    BY <1>4, <2>1 DEF ReceiveMaps, DequeueMap
  <2>3. /\ ch'.state = "ready"
        /\ ch'.backChannel = ch.backChannel
        /\ ch'.lastArrayId = ch.lastArrayId
        /\ ch'.lock \in {"free", "dequeueMaps"}
        /\ ch'.mapChanClosed = ch.mapChanClosed
    BY <1>1, <2>1, <2>2 DEF ChannelRecord
  <2>4. Status(ch, ~collected) = Status(ch', ~collected)
    BY <2>1, <2>3 DEF Status
  <2>5. ViewStep(View(ch, ~collected), View(ch', ~collected))
    BY <2>3, <2>4, ViewFields DEF ViewStep
  <2> QED
    BY <1>2, <2>1, <2>3, <2>5 DEF LifeInv, LifeOK, Live, Running
<1> QED
  BY <1>3, <1>4

\* The rest of terminateInternal, and of a Close that called it.
LEMMA ClosingLife ==
  ASSUME LifeInv, StopHeartbeat \/ SendToGc
  PROVE  LifeOK
<1>1. /\ ch \in ChannelRecord
      /\ ch.backChannel = None
  BY DEF LifeInv, FlowInv, Inv, Guarded, Consistent, Live, StopHeartbeat, SendToGc
<1>2. CASE StopHeartbeat
  <2>1. /\ ch'.state = "closed"
        /\ ch'.lock = "gcChan"
        /\ ch.lock = "heartbeatStop"
        /\ ch'.backChannel = None
        /\ ch'.lastArrayId = ch.lastArrayId
        /\ ch'.mapChanClosed = ch.mapChanClosed
    BY <1>1, <1>2 DEF StopHeartbeat, ChannelRecord
  <2>2. UNCHANGED <<collected, gcChan, app>>
    BY <1>2 DEF StopHeartbeat, appVars
  <2>3. Status(ch, ~collected) = Status(ch', ~collected)
    BY <2>1 DEF Status
  <2>4. ViewStep(View(ch, ~collected), View(ch', ~collected))
    BY <1>1, <2>1, <2>3, ViewFields DEF ViewStep
  <2> QED
    BY <2>1, <2>2, <2>4 DEF LifeInv, LifeOK, Live
<1>3. CASE SendToGc
  <2> DEFINE free == [ch EXCEPT !.lock = "free"]
  <2>1. ch.state = "closed" /\ ch.lock = "gcChan"
    BY <1>3 DEF SendToGc, LifeInv, FlowInv, Inv, Guarded
  <2>2. /\ free.state = "closed"
        /\ free.lock = "free"
        /\ free.backChannel = None
        /\ free.lastArrayId = ch.lastArrayId
        /\ free.mapChanClosed = ch.mapChanClosed
        /\ free \in ChannelRecord
    BY <1>1, <2>1 DEF ChannelRecord, Locks
  <2>3. \/ ch' = free /\ app' # "inClose"
        \/ ch' = CloseMapChan(free) /\ app' # "inClose" /\ ~free.mapChanClosed
    BY <1>3, <2>2 DEF SendToGc, LifeInv
  <2>4. collected' = collected
    BY <1>3 DEF SendToGc
  <2> HIDE DEF free
  <2>5. /\ ch'.state = "closed"
        /\ ch'.lock = "free"
        /\ ch'.backChannel = None
        /\ ch'.lastArrayId = ch.lastArrayId
        /\ app' # "inClose"
    BY <2>2, <2>3 DEF CloseMapChan, ChannelRecord
  <2>6. Status(ch, ~collected) = Status(ch', ~collected)
    BY <2>1, <2>5 DEF Status
  <2>7. ViewStep(View(ch, ~collected), View(ch', ~collected))
    BY <1>1, <2>5, <2>6, ViewFields DEF ViewStep
  <2> QED
    BY <2>4, <2>5, <2>7 DEF LifeOK, Live
<1> QED
  BY <1>2, <1>3

\* The collector forgets a closed session.
LEMMA CollectorLife ==
  ASSUME LifeInv, RemoveClosedSession
  PROVE  LifeOK
<1>1. /\ ch' = ch
      /\ app' = app
      /\ collected' = TRUE
      /\ ch.lock # "panicked"
      /\ ch.state = "closed"
      /\ collected \in BOOLEAN
  BY DEF RemoveClosedSession, LifeInv, FlowInv, Inv, EnvironmentOK, Running,
         appVars
<1>2. /\ Status(ch, ~collected) \in {"closed", "unknown"}
      /\ Status(ch', ~collected') = "unknown"
  BY <1>1 DEF Status
<1>3. ViewStep(View(ch, ~collected), View(ch', ~collected'))
  BY <1>1, <1>2, ViewFields DEF ViewStep
<1> QED
  BY <1>1, <1>3 DEF LifeInv, LifeOK

\* Close ends a session at its back channel or leaves 'stop' to the next one;
\* a second Close finds mapChan closed.
LEMMA AppClosesLife ==
  ASSUME LifeInv, AppCloses
  PROVE  LifeOK
<1> DEFINE c == CloseAndFlush(ch)
           s == Status(ch, ~collected)
<1>0. ch.lock = "free" /\ UNCHANGED <<gcChan, collected>>
  BY DEF AppCloses, LockFree, stopVars
<1>1. /\ ch \in ChannelRecord
      /\ Window(ch)
      /\ Sound(ch)
      /\ Live(ch)
      /\ collected \in BOOLEAN
      /\ ~(~collected) => ch.state = "closed"
      /\ ch.state \in {"init", "ready"} => ~ch.mapChanClosed
  BY <1>0, LifeFree
<1>2. ch.mapChanClosed <=> ch.state \in {"writeClosed", "closed"}
  BY <1>1 DEF Sound, MapChanMatches
<1>3. /\ Live(c)
      /\ c.backChannel = None
      /\ c.state = "writeClosed"
      /\ c.lastArrayId = ch.lastArrayId + 1
      /\ c.lock = "free" \/ (c.lock = "heartbeatStop" /\ ch.backChannel # None)
  BY <1>0, <1>1, CloseLife
<1>4. c.mapChanClosed = ch.mapChanClosed /\ c \in ChannelRecord
  BY <1>0, <1>1, CloseAndFlushProperties DEF Consistent
<1>5. ch' = IF c.lock = "free" THEN CloseMapChan(c) ELSE c
  BY DEF AppCloses
<1>6. c.lock = "free" => app' # "inClose"
  BY DEF AppCloses
<1> HIDE DEF c
<1>7. CASE c.lock = "heartbeatStop"
  <2>1. ch.state = "ready" /\ ch.backChannel # None
    BY <1>1, <1>3, <1>7 DEF Live
  <2>2. ch' = c
    BY <1>5, <1>7
  <2>3. s = "ready" /\ Status(ch', ~collected') = "closed"
    BY <1>0, <1>1, <1>7, <2>1, <2>2 DEF Status
  <2>4. ViewStep(View(ch, ~collected), View(ch', ~collected'))
    BY <1>3, <2>1, <2>2, <2>3, ViewFields DEF ViewStep
  <2>5. ~collected /\ ~(gcChan > 0) /\ ~ch'.mapChanClosed
    BY <1>0, <1>2, <1>4, <2>1, <2>2 DEF LifeInv, Running
  <2> QED
    BY <1>0, <1>3, <1>7, <2>2, <2>4, <2>5 DEF LifeOK
<1>8. CASE c.lock = "free" /\ ch.state \in {"init", "ready"}
  <2>1. /\ ch'.state = "writeClosed"
        /\ ch'.lock = "free"
        /\ ch'.backChannel = None
        /\ ch'.lastArrayId = ch.lastArrayId + 1
        /\ ch'.lastSentArrayId = c.lastSentArrayId
    BY <1>2, <1>3, <1>4, <1>5, <1>8 DEF CloseMapChan, ChannelRecord
  <2>2. Live(ch')
    BY <1>3, <1>8, <2>1 DEF Live
  <2>3. ~collected /\ ~(gcChan > 0)
    BY <1>0, <1>8 DEF LifeInv, Running
  <2>4. s = ch.state /\ Status(ch', ~collected') = "writeClosed"
    BY <1>0, <2>1, <2>3 DEF Status
  <2>5. ViewStep(View(ch, ~collected), View(ch', ~collected'))
    BY <1>8, <2>1, <2>4, ViewFields DEF ViewStep
  <2> QED
    BY <1>0, <1>6, <1>8, <2>1, <2>2, <2>3, <2>5 DEF LifeOK
<1>9. CASE c.lock = "free" /\ ch.state \in {"writeClosed", "closed"}
  <2>1. /\ ch'.lock = "panicked"
        /\ ch'.state = "writeClosed"
        /\ ch'.backChannel = None
        /\ ch'.lastArrayId = ch.lastArrayId + 1
    BY <1>2, <1>3, <1>4, <1>5, <1>9 DEF CloseMapChan, ChannelRecord
  <2>2. ch.backChannel = None
    BY <1>1, <1>9 DEF Live
  <2>3. s \in {"writeClosed", "closed", "unknown"} /\ Status(ch', ~collected') = "crashed"
    BY <1>0, <1>9, <2>1 DEF Status
  <2>4. ViewStep(View(ch, ~collected), View(ch', ~collected'))
    BY <2>1, <2>2, <2>3, ViewFields DEF ViewStep
  <2> QED
    BY <1>6, <1>9, <2>1, <2>4 DEF LifeOK, Live
<1> QED
  BY <1>1, <1>3, <1>7, <1>8, <1>9 DEF ChannelRecord, States

\* Every step is a step of the session, or none.
LEMMA LifeStep ==
  ASSUME LifeInv, [Next]_vars
  PROVE  LifeInv' /\ [SessionLife!Next]_(SessionLife!vars)
<1>1. LifeOK
  <2>1. ASSUME NEW b \in BackChannels,
               \/ \E chunked \in BOOLEAN : OpenBackChannel(b, chunked)
               \/ ReadState(b) \/ UnknownSid(b)
        PROVE  LifeOK
    BY <2>1, OutsideLife
  <2>2. ASSUME NEW b \in BackChannels,
               AcknowledgeGet(b) \/ WaitWrites(b) \/ WaitReturns(b)
        PROVE  LifeOK
    BY <2>2, InsideLife
  <2>3. ASSUME NEW b \in BackChannels, SetBackChannelCall(b)
        PROVE  LifeOK
    BY <2>3, SetBackChannelCallLife
  <2>4. CASE \/ LoseLink \/ Leave \/ FindTerminated
             \/ HeartbeatTick \/ HeartbeatStops
             \/ AppReadsMap \/ AppReturns \/ AppCallsSendArray \/ AppCallsClose
    BY <2>4, OutsideLife
  <2>5. ASSUME NEW i \in 1..Len(received), AcknowledgePost(received[i])
        PROVE  LifeOK
    <3>1. received[i] \in Nat
      BY DEF LifeInv, FlowInv, Inv, EnvironmentOK
    <3> QED
      BY <2>5, <3>1, InsideLife
  <2>6. ASSUME NEW offset, NEW n, ReceiveMaps(offset, n)
        PROVE  LifeOK
    BY <2>6, MapsLife
  <2>7. CASE DequeueMap
    BY <2>7, MapsLife
  <2>8. CASE \/ Terminate \/ ChannelTimeoutRuns \/ ExpirationRuns \/ HeartbeatSends
             \/ \E e \in Payloads : AppSendsArray(e)
    BY <2>8, MethodsLife
  <2>9. CASE ChannelTimeoutFires \/ ExpirationFires
    BY <2>9, InsideLife
  <2>10. CASE StopHeartbeat \/ SendToGc
    BY <2>10, ClosingLife
  <2>11. CASE RemoveClosedSession
    BY <2>11, CollectorLife
  <2>12. CASE AppCloses
    BY <2>12, AppClosesLife
  <2>13. CASE UNCHANGED vars
    <3>1. UNCHANGED <<ch, collected, app, gcChan>>
      BY <2>13 DEF vars, otherVars, stopVars, appVars
    <3> QED
      BY <3>1, BesideLife
  <2> QED
    BY <2>1, <2>2, <2>3, <2>4, <2>5, <2>6, <2>7, <2>8, <2>9, <2>10, <2>11, <2>12,
       <2>13 DEF Next
<1>2. LifeInv'
  BY <1>1, FlowStep DEF LifeInv, LifeOK, Running
<1>3. [SessionLife!Next]_(SessionLife!vars)
  <2> DEFINE v == View(ch, ~collected)
             w == View(ch', ~collected')
  <2>1. ViewStep(v, w)
    BY <1>1 DEF LifeOK
  <2>2. /\ v.status = Status(ch, ~collected)
        /\ v.streaming <=> ch.backChannel # None
        /\ v.sent = ch.lastArrayId
        /\ w.status = Status(ch', ~collected')
        /\ w.streaming <=> ch'.backChannel # None
        /\ w.sent = ch'.lastArrayId
    BY ViewFields
  <2> HIDE DEF v, w
  <2> QED
    BY <2>1, <2>2 DEF ViewStep, SessionLife!Next, SessionLife!vars,
         SessionLife!Open, SessionLife!ChangeBackChannel, SessionLife!SendArray,
         SessionLife!Close, SessionLife!End, SessionLife!Forget,
         SessionLife!CloseAgain
<1> QED
  BY <1>2, <1>3

\* A channel is a session: whatever its requests, timers, heartbeat and
\* application do to it, others see it opened by its first back channel,
\* closed once, by a request, a timeout or the back channel that takes 'stop',
\* forgotten only when it is closed, and never alive again.
THEOREM ChannelIsASession == Spec => ImplementsSession
<1>1. Init => LifeInv /\ SessionLife!Init
  BY InitLife
<1>2. LifeInv /\ [Next]_vars => LifeInv' /\ [SessionLife!Next]_(SessionLife!vars)
  BY LifeStep
<1> QED
  BY <1>1, <1>2, PTL DEF Spec, ImplementsSession, SessionLife!Spec

\* Of all that happens to a channel, Close alone does not look whether it is
\* closed.
LEMMA ClosedStep ==
  ASSUME LifeInv, [Next]_vars, ch.state = "closed", app # "closing"
  PROVE  ch'.state = "closed"
<1>1. ch \in ChannelRecord
  BY DEF LifeInv, FlowInv, Inv, Guarded, Consistent
<1>2. ASSUME NEW b \in BackChannels, SetBackChannelCall(b)
      PROVE  ch'.state = "closed"
  <2> DEFINE c == [ch EXCEPT !.bcs[b] = NewBackChannel(req[b].chunked)]
  <2>1. ch' = SetBackChannel(c, b)
    BY <1>2 DEF SetBackChannelCall
  <2> QED
    BY <1>1, <2>1 DEF SetBackChannel, ChannelRecord
<1>3. CASE \/ Terminate \/ ChannelTimeoutRuns \/ ExpirationRuns \/ HeartbeatSends
           \/ \E e \in Payloads : AppSendsArray(e)
  <2>1. ch.lock = "free"
    BY <1>3 DEF Terminate, ChannelTimeoutRuns, ExpirationRuns, HeartbeatSends,
                AppSendsArray, LockFree
  <2>2. /\ TerminateInternal(ch).state = "closed"
        /\ ClearBackChannel(ch, FALSE).state = "closed"
    BY <1>1, <2>1, TerminateInternalProperties, ClearBackChannelFrame
  <2>3. \A e : SendArray(ch, e) = ch
    BY DEF SendArray
  <2> QED
    BY <1>3, <2>2, <2>3 DEF Terminate, ChannelTimeoutRuns, ExpirationRuns,
                            HeartbeatSends, AppSendsArray
<1>4. CASE \/ \E b \in BackChannels :
                AcknowledgeGet(b) \/ WaitWrites(b) \/ WaitReturns(b)
           \/ \E aid : AcknowledgePost(aid)
           \/ \E offset, n : ReceiveMaps(offset, n)
           \/ DequeueMap \/ StopHeartbeat \/ SendToGc
           \/ ChannelTimeoutFires \/ ExpirationFires
  BY <1>1, <1>4 DEF AcknowledgeGet, WaitWrites, WaitReturns, AcknowledgePost,
       ReceiveMaps, DequeueMap, StopHeartbeat, SendToGc, ChannelTimeoutFires,
       ExpirationFires, AcknowledgeArrays, CloseMapChan, ChannelRecord
<1>5. CASE ch' = ch
  BY <1>5
<1>6. \/ ch' = ch
      \/ \E b \in BackChannels : SetBackChannelCall(b)
      \/ Terminate \/ ChannelTimeoutRuns \/ ExpirationRuns \/ HeartbeatSends
      \/ \E e \in Payloads : AppSendsArray(e)
      \/ \E b \in BackChannels :
           AcknowledgeGet(b) \/ WaitWrites(b) \/ WaitReturns(b)
      \/ \E aid : AcknowledgePost(aid)
      \/ \E offset, n : ReceiveMaps(offset, n)
      \/ DequeueMap \/ StopHeartbeat \/ SendToGc
      \/ ChannelTimeoutFires \/ ExpirationFires
  <2>1. ASSUME NEW b \in BackChannels,
               \/ \E chunked \in BOOLEAN : OpenBackChannel(b, chunked)
               \/ ReadState(b) \/ UnknownSid(b)
        PROVE  ch' = ch
    BY <2>1 DEF OpenBackChannel, ReadState, UnknownSid
  <2>2. CASE \/ LoseLink \/ Leave \/ FindTerminated \/ RemoveClosedSession
             \/ HeartbeatTick \/ HeartbeatStops
             \/ AppReadsMap \/ AppReturns \/ AppCallsSendArray \/ AppCallsClose
             \/ UNCHANGED vars
    BY <2>2 DEF LoseLink, Leave, FindTerminated, RemoveClosedSession,
         HeartbeatTick, HeartbeatStops, AppReadsMap, AppReturns,
         AppCallsSendArray, AppCallsClose, vars
  <2>3. CASE AppCloses
    BY <2>3 DEF AppCloses
  <2> QED
    BY <2>1, <2>2, <2>3 DEF Next
<1> QED
  BY <1>2, <1>3, <1>4, <1>5, <1>6

\* "... before shutting down the channel permanently" holds of everything but
\* Close itself: a closed channel is reopened, for writing the next 'stop', by
\* another Close alone.
THEOREM OnlyCloseReopens ==
  Spec => [][ch.state = "closed" /\ app # "closing" => ch'.state = "closed"]_vars
<1>1. Spec => []LifeInv
  <2>1. Init => LifeInv
    BY InitLife
  <2>2. LifeInv /\ [Next]_vars => LifeInv'
    BY LifeStep
  <2> QED
    BY <2>1, <2>2, PTL DEF Spec
<1>2. LifeInv /\ [Next]_vars =>
        [ch.state = "closed" /\ app # "closing" => ch'.state = "closed"]_vars
  BY ClosedStep
<1> QED
  BY <1>1, <1>2, PTL DEF Spec
-----------------------------------------------------------------------------
(***************************************************************************)
(* The end of a session that only timers end.                              *)
(***************************************************************************)

\* No request terminates the session, the application does not close it, and no
\* goroutine is kept waiting for as long as a timer runs.
OnlyTimersEnd ==
  /\ Prompt
  /\ MaxTerminates = 0
  /\ MaxCloses = 0
  /\ "TERMINATE" \notin Creators

NobodyElse ==
  /\ terminates = 0 /\ terminating = 0
  /\ app \notin {"closing", "inClose"}
  /\ ch.state # "writeClosed"
  /\ timeoutRuns <= 1

\* The heartbeat lasts from the opening to the end of the channel.
HeartbeatLasts ==
  /\ ch.state = "ready" => heartbeat # "none"
  /\ heartbeat = "exited" => ch.state = "closed"
  /\ heartbeatStop = 1 => ch.state = "closed"

\* While a stop is sent, the timer that can still expire does so for the last
\* time; while the stop is not received, it may do so only if the heartbeat is
\* there to receive it first.
StopsFit ==
  /\ ch.lock = "heartbeatStop" => heartbeatStop = 0 /\ timeoutRuns = 0
  /\ ch.lock = "heartbeatStop" /\ ch.state = "closed" => ch.channelTimeout # "armed"
  /\ timeoutRuns = 1 /\ ch.state = "closed" =>
       heartbeatStop = 0 /\ ch.channelTimeout # "armed"
  /\ heartbeatStop = 1 /\ ch.channelTimeout = "armed" =>
       heartbeat \in {"select", "sending"}
  /\ heartbeat = "none" /\ ch.channelTimeout = "armed" =>
       timeoutRuns = 0 /\ ch.state # "closed" /\ ch.lock # "heartbeatStop"

StopInv == NobodyElse /\ HeartbeatLasts /\ StopsFit

\* The types that the steps need.
LEMMA StopTypes ==
  ASSUME LifeInv
  PROVE  /\ ch \in ChannelRecord
         /\ timeoutRuns \in Nat
         /\ heartbeatStop \in 0..1
         /\ heartbeat \in {"none", "select", "sending", "exited"}
         /\ closes \in Nat
BY DEF LifeInv, FlowInv, Inv, Guarded, Consistent, EnvironmentOK

LEMMA InitStop ==
  ASSUME OnlyTimersEnd, Init
  PROVE  StopInv
<1>1. terminating = 0
  BY DEF Init, InitRequest, OnlyTimersEnd
<1> QED
  BY <1>1 DEF Init, NewChannel, StopInv, NobodyElse, HeartbeatLasts, StopsFit

\* A step that has nothing to do with the end.
LEMMA StopFrame ==
  ASSUME StopInv,
         UNCHANGED <<timeoutRuns, heartbeat, heartbeatStop, terminates, terminating>>,
         app' \notin {"closing", "inClose"},
         ch'.state = ch.state, ch'.channelTimeout = ch.channelTimeout,
         ch'.lock = "heartbeatStop" => ch.lock = "heartbeatStop"
  PROVE  StopInv'
BY DEF StopInv, NobodyElse, HeartbeatLasts, StopsFit

\* In a ready channel no stop is sent.
LEMMA StopReady ==
  ASSUME LifeInv, StopInv,
         UNCHANGED <<timeoutRuns, heartbeatStop, terminates, terminating>>,
         app' \notin {"closing", "inClose"},
         ch.state \in {"init", "ready"},
         ch'.state = "ready", ch'.lock # "heartbeatStop",
         heartbeat' \in {"select", "sending"}
  PROVE  StopInv'
BY StopTypes DEF StopInv, NobodyElse, HeartbeatLasts, StopsFit

\* Requests and their responses, the client, maps, the collector, the application.
LEMMA BesideStop ==
  ASSUME OnlyTimersEnd, LifeInv, StopInv,
         \/ \E b \in BackChannels :
              \/ \E chunked \in BOOLEAN : OpenBackChannel(b, chunked)
              \/ ReadState(b) \/ AcknowledgeGet(b) \/ UnknownSid(b)
              \/ WaitWrites(b) \/ WaitReturns(b)
         \/ LoseLink \/ Leave
         \/ \E aid : AcknowledgePost(aid)
         \/ \E offset, n : ReceiveMaps(offset, n)
         \/ DequeueMap \/ SendToGc \/ RemoveClosedSession \/ ExpirationFires
         \/ AppReadsMap \/ AppReturns \/ AppCallsSendArray
         \/ UNCHANGED vars
  PROVE  StopInv'
<1>1. ch \in ChannelRecord
  BY StopTypes
<1>2. app \notin {"closing", "inClose"} /\ terminates = 0
  BY DEF StopInv, NobodyElse
<1>3. CASE \/ \E b \in BackChannels :
                \/ \E chunked \in BOOLEAN : OpenBackChannel(b, chunked)
                \/ ReadState(b) \/ UnknownSid(b)
           \/ LoseLink \/ RemoveClosedSession
           \/ AppReadsMap \/ AppReturns \/ AppCallsSendArray
           \/ UNCHANGED vars
  <2>1. /\ ch' = ch
        /\ UNCHANGED <<timeoutRuns, heartbeat, heartbeatStop, terminates, terminating>>
        /\ app' \notin {"closing", "inClose"}
    BY <1>2, <1>3
       DEF OpenBackChannel, ReadState, UnknownSid, LoseLink, RemoveClosedSession,
           AppReadsMap, AppReturns, AppCallsSendArray, vars, timerVars, otherVars,
           stopVars, appVars, termVars
  <2> QED
    BY <2>1, StopFrame
<1>4. CASE Leave
  <2>1. terminates' = 0
    BY <1>4 DEF Leave, OnlyTimersEnd
  <2>2. /\ ch' = ch
        /\ UNCHANGED <<timeoutRuns, heartbeat, heartbeatStop, terminating, app>>
    BY <1>4 DEF Leave, timerVars, stopVars, appVars
  <2> QED
    BY <1>2, <2>1, <2>2, StopFrame
<1>5. CASE \/ \E b \in BackChannels :
                AcknowledgeGet(b) \/ WaitWrites(b) \/ WaitReturns(b)
           \/ \E aid : AcknowledgePost(aid)
           \/ \E offset, n : ReceiveMaps(offset, n)
           \/ DequeueMap \/ ExpirationFires
  <2>1. /\ ch'.state = ch.state
        /\ ch'.channelTimeout = ch.channelTimeout
        /\ ch'.lock = "heartbeatStop" => ch.lock = "heartbeatStop"
    BY <1>1, <1>5
       DEF AcknowledgeGet, WaitWrites, WaitReturns, AcknowledgePost, ReceiveMaps,
           DequeueMap, ExpirationFires, AcknowledgeArrays, ChannelRecord
  <2>2. UNCHANGED <<timeoutRuns, heartbeat, heartbeatStop, terminates, terminating, app>>
    BY <1>5
       DEF AcknowledgeGet, WaitWrites, WaitReturns, AcknowledgePost, ReceiveMaps,
           DequeueMap, ExpirationFires, timerVars, otherVars, stopVars, appVars,
           termVars
  <2> QED
    BY <1>2, <2>1, <2>2, StopFrame
<1>6. CASE SendToGc
  <2>1. /\ ch' = [ch EXCEPT !.lock = "free"] /\ app' = app
        /\ UNCHANGED <<timeoutRuns, heartbeat, heartbeatStop, terminates, terminating>>
    BY <1>2, <1>6 DEF SendToGc, timerVars, termVars
  <2>2. /\ ch'.state = ch.state
        /\ ch'.channelTimeout = ch.channelTimeout
        /\ ch'.lock = "free"
    BY <1>1, <2>1 DEF ChannelRecord
  <2> QED
    BY <1>2, <2>1, <2>2, StopFrame
<1> QED
  BY <1>3, <1>4, <1>5, <1>6

\* Nobody calls terminate or Close.
LEMMA NobodyElseEnds ==
  ASSUME OnlyTimersEnd, LifeInv, StopInv
  PROVE  ~(FindTerminated \/ Terminate \/ AppCallsClose \/ AppCloses)
BY StopTypes DEF OnlyTimersEnd, StopInv, NobodyElse, FindTerminated, Terminate,
                 AppCallsClose, AppCloses

\* setBackChannel opens the channel and starts its heartbeat, or finds it closed.
LEMMA SetBackChannelCallStop ==
  ASSUME LifeInv, StopInv, NEW b \in BackChannels, SetBackChannelCall(b)
  PROVE  StopInv'
<1> DEFINE c == [ch EXCEPT !.bcs[b] = NewBackChannel(req[b].chunked)]
<1>1. /\ ch' = SetBackChannel(c, b)
      /\ heartbeat' = IF ch.state = "init" THEN "select" ELSE heartbeat
      /\ UNCHANGED <<timeoutRuns, heartbeatStop, terminates, terminating, app>>
  BY DEF SetBackChannelCall, timerVars, otherVars, stopVars, appVars, termVars
<1>2. ch \in ChannelRecord /\ app \notin {"closing", "inClose"}
  BY StopTypes DEF StopInv, NobodyElse
<1>3. CASE ch.state = "closed"
  <2>1. /\ ch'.state = ch.state
        /\ ch'.channelTimeout = ch.channelTimeout
        /\ ch'.lock = ch.lock
    BY <1>1, <1>2, <1>3 DEF SetBackChannel, ChannelRecord
  <2> QED
    BY <1>1, <1>2, <1>3, <2>1, StopFrame
<1>4. CASE ch.state \in {"init", "ready"}
  <2>1. ch.lock = "free" /\ Sound(ch)
    BY LifeFree DEF SetBackChannelCall, LockFree
  <2>2. req[b].chunked \in BOOLEAN
    BY DEF LifeInv, FlowInv, Inv, EnvironmentOK, Requests
  <2>3. Sound(c) /\ c.lock = "free" /\ c.state = ch.state
    BY <2>1, <2>2, FreshConsistent DEF Sound
  <2> HIDE DEF c
  <2>4. ch'.state = "ready" /\ ch'.lock = "free"
    BY <1>1, <1>4, <2>3, SetBackChannelFires
  <2>5. heartbeat' \in {"select", "sending"}
    BY <1>1, <1>4, StopTypes DEF StopInv, HeartbeatLasts
  <2> QED
    BY <1>1, <1>2, <1>4, <2>4, <2>5, StopReady
<1> QED
  BY <1>2, <1>3, <1>4 DEF StopInv, NobodyElse, ChannelRecord, States

\* The back channel expires, or an array is sent: the timer that this may arm is
\* that of a ready channel.
LEMMA ReadyStop ==
  ASSUME LifeInv, StopInv,
         \/ ExpirationRuns \/ HeartbeatSends
         \/ \E e \in Payloads : AppSendsArray(e)
  PROVE  StopInv'
<1>1. /\ ch.lock = "free" /\ ch \in ChannelRecord /\ Window(ch) /\ Live(ch)
      /\ app \notin {"closing", "inClose"}
  BY LifeFree DEF ExpirationRuns, HeartbeatSends, AppSendsArray, LockFree, StopInv,
                  NobodyElse
<1>2. /\ UNCHANGED <<timeoutRuns, heartbeatStop, terminates, terminating>>
      /\ app' \notin {"closing", "inClose"}
  BY <1>1 DEF ExpirationRuns, HeartbeatSends, AppSendsArray, timerVars, otherVars,
              stopVars, appVars, termVars
<1>3. /\ heartbeat' \in {heartbeat, "select"}
      /\ heartbeat' # heartbeat => heartbeat = "sending"
  BY DEF ExpirationRuns, HeartbeatSends, AppSendsArray
<1>4. CASE ch.state = "ready"
  <2>1. ch'.state = "ready" /\ ch'.lock = "free"
    <3>1. ClearBackChannel(ch, FALSE).state = "ready"
          /\ ClearBackChannel(ch, FALSE).lock = "free"
      BY <1>1, <1>4, ClearBackChannelFrame
    <3>2. \A e \in Elements :
            SendArray(ch, e).state = "ready" /\ SendArray(ch, e).lock = "free"
      BY <1>1, <1>4, SendArrayReturned
    <3> QED
      BY <3>1, <3>2 DEF ExpirationRuns, HeartbeatSends, AppSendsArray, Elements
  <2>2. heartbeat' \in {"select", "sending"}
    BY <1>3, <1>4, StopTypes DEF StopInv, HeartbeatLasts
  <2> QED
    BY <1>2, <1>4, <2>1, <2>2, StopReady
<1>5. CASE ch.state # "ready"
  <2>1. ch' = ch
    <3>1. ClearBackChannel(ch, FALSE) = ch
      BY <1>1, <1>5 DEF Live, ClearBackChannel
    <3>2. \A e : SendArray(ch, e) = ch
      BY <1>5 DEF SendArray
    <3> QED
      BY <3>1, <3>2 DEF ExpirationRuns, HeartbeatSends, AppSendsArray
  <2> QED
    BY <1>2, <1>3, <2>1, StopTypes DEF StopInv, NobodyElse, HeartbeatLasts, StopsFit
<1> QED
  BY <1>4, <1>5

\* The timer expires when no goroutine has anything to do: a stop that was sent
\* has been received, or nobody will.
LEMMA ChannelTimeoutFiresStop ==
  ASSUME OnlyTimersEnd, LifeInv, StopInv, ChannelTimeoutFires
  PROVE  StopInv'
<1>1. /\ ch.channelTimeout = "armed"
      /\ ch' = [ch EXCEPT !.channelTimeout = "fired"]
      /\ timeoutRuns' = timeoutRuns + 1
      /\ UNCHANGED <<heartbeat, heartbeatStop, terminates, terminating, app>>
  BY DEF ChannelTimeoutFires, otherVars, stopVars, appVars, termVars
<1>2. /\ ch.lock = "free"
      /\ timeoutRuns + expirationRuns <= 0
      /\ heartbeat # "sending"
      /\ ~(heartbeat = "select" /\ heartbeatStop = 1)
  BY DEF ChannelTimeoutFires, MayFire, Pending, OnlyTimersEnd, LockFree, LifeInv,
         FlowInv, Inv, EnvironmentOK
<1>3. timeoutRuns = 0
  BY <1>2 DEF LifeInv, FlowInv, Inv, EnvironmentOK
<1>4. /\ ch'.state = ch.state /\ ch'.lock = "free"
      /\ ch'.channelTimeout = "fired"
  BY <1>1, <1>2, StopTypes DEF ChannelRecord
<1>5. heartbeatStop = 0
  BY <1>1, <1>2, StopTypes DEF StopInv, StopsFit
<1> QED
  BY <1>1, <1>3, <1>4, <1>5 DEF StopInv, NobodyElse, HeartbeatLasts, StopsFit

\* It runs, for the first or for the second time.
LEMMA ChannelTimeoutRunsStop ==
  ASSUME LifeInv, StopInv, ChannelTimeoutRuns
  PROVE  StopInv'
<1>1. /\ ch.lock = "free" /\ timeoutRuns > 0
      /\ timeoutRuns' = timeoutRuns - 1
      /\ ch' = TerminateInternal(ch)
      /\ UNCHANGED <<heartbeat, heartbeatStop, terminates, terminating, app>>
  BY DEF ChannelTimeoutRuns, LockFree, otherVars, stopVars, appVars, termVars
<1>2. timeoutRuns = 1 /\ timeoutRuns' = 0
  BY <1>1, StopTypes DEF StopInv, NobodyElse
<1>3. ch'.state = ch.state /\ ch'.channelTimeout = ch.channelTimeout
  BY <1>1, LifeFree, TerminateInternalProperties, TerminateTimeout
<1>4. heartbeatStop = 0
  BY <1>2, StopTypes DEF StopInv, HeartbeatLasts, StopsFit
<1> QED
  BY <1>1, <1>2, <1>3, <1>4 DEF StopInv, NobodyElse, HeartbeatLasts, StopsFit

\* The stop is sent.
LEMMA StopHeartbeatStop ==
  ASSUME LifeInv, StopInv, StopHeartbeat
  PROVE  StopInv'
<1>1. /\ ch.lock = "heartbeatStop"
      /\ heartbeatStop' = 1
      /\ ch' = [ch EXCEPT !.state = "closed", !.lock = "gcChan"]
      /\ UNCHANGED <<timeoutRuns, heartbeat, terminates, terminating, app>>
  BY DEF StopHeartbeat, timerVars, appVars, termVars
<1>2. /\ ch'.state = "closed" /\ ch'.lock = "gcChan"
      /\ ch'.channelTimeout = ch.channelTimeout
  BY <1>1, StopTypes DEF ChannelRecord
<1> QED
  BY <1>1, <1>2, StopTypes DEF StopInv, NobodyElse, HeartbeatLasts, StopsFit

\* The heartbeat, which a stop ends.
LEMMA HeartbeatOfStop ==
  ASSUME LifeInv, StopInv, HeartbeatTick \/ HeartbeatStops
  PROVE  StopInv'
<1>1. UNCHANGED <<ch, timeoutRuns, terminates, terminating, app>>
  BY DEF HeartbeatTick, HeartbeatStops, timerVars, otherVars, appVars, termVars
<1>2. \/ /\ heartbeat = "select" /\ heartbeat' = "sending"
         /\ heartbeatStop' = heartbeatStop
      \/ /\ heartbeat = "select" /\ heartbeat' = "exited"
         /\ heartbeatStop = 1 /\ heartbeatStop' = 0
  BY DEF HeartbeatTick, HeartbeatStops, otherVars, stopVars
<1> QED
  BY <1>1, <1>2 DEF StopInv, NobodyElse, HeartbeatLasts, StopsFit

LEMMA StopStep ==
  ASSUME OnlyTimersEnd, LifeInv, StopInv, [Next]_vars
  PROVE  StopInv'
<1>1. ASSUME NEW b \in BackChannels,
             \/ \E chunked \in BOOLEAN : OpenBackChannel(b, chunked)
             \/ ReadState(b) \/ AcknowledgeGet(b) \/ UnknownSid(b)
             \/ WaitWrites(b) \/ WaitReturns(b)
      PROVE  StopInv'
  BY <1>1, BesideStop
<1>2. ASSUME NEW b \in BackChannels, SetBackChannelCall(b)
      PROVE  StopInv'
  BY <1>2, SetBackChannelCallStop
<1>3. CASE \/ LoseLink \/ Leave
           \/ \E i \in 1..Len(received) : AcknowledgePost(received[i])
           \/ \E offset \in 0..(MaxMaps - 1) :
                \E n \in 1..(MaxMaps - offset) : ReceiveMaps(offset, n)
           \/ DequeueMap \/ SendToGc \/ RemoveClosedSession \/ ExpirationFires
           \/ AppReadsMap \/ AppReturns \/ AppCallsSendArray
           \/ UNCHANGED vars
  BY <1>3, BesideStop
<1>4. CASE FindTerminated \/ Terminate \/ AppCallsClose \/ AppCloses
  BY <1>4, NobodyElseEnds
<1>5. CASE \/ ExpirationRuns \/ HeartbeatSends
           \/ \E e \in Payloads : AppSendsArray(e)
  BY <1>5, ReadyStop
<1>6. CASE ChannelTimeoutFires \/ ChannelTimeoutRuns \/ StopHeartbeat
  BY <1>6, ChannelTimeoutFiresStop, ChannelTimeoutRunsStop, StopHeartbeatStop
<1>7. CASE HeartbeatTick \/ HeartbeatStops
  BY <1>7, HeartbeatOfStop
<1> QED
  BY <1>1, <1>2, <1>3, <1>4, <1>5, <1>6, <1>7 DEF Next

\* The holder of the lock in terminateInternal never waits for the heartbeat, which
\* might itself wait for the lock: where only timers end a session, and no goroutine
\* waits for as long as they run, the deadlock of run stuck_stop cannot happen.
THEOREM TimersFindRoom ==
  ASSUME OnlyTimersEnd
  PROVE  Spec => []StopFindsRoom
<1>1. Init => LifeInv /\ StopInv
  BY InitLife, InitStop
<1>2. LifeInv /\ StopInv /\ [Next]_vars => LifeInv' /\ StopInv'
  BY LifeStep, StopStep
<1>3. StopInv => StopFindsRoom
  BY DEF StopInv, StopsFit, StopFindsRoom
<1> QED
  BY <1>1, <1>2, <1>3, PTL DEF Spec
=============================================================================
