--------------------------- MODULE ChannelProofs ---------------------------
(***************************************************************************)
(* Proofs about Channel: the inductive invariant Inv, whose part Guarded   *)
(* says what may be relied on by where the holder of the lock is; then one *)
(* lemma per action; then the theorems.                                    *)
(***************************************************************************)
EXTENDS Channel, ChannelMethodsProofs

-----------------------------------------------------------------------------
(***************************************************************************)
(* The inductive invariant.                                                *)
(***************************************************************************)
EnvironmentOK ==
  /\ timeoutRuns \in Nat
  /\ expirationRuns \in Nat
  /\ heartbeat \in {"none", "select", "sending", "exited"}
  /\ heartbeatStop \in 0..1
  /\ gcChan \in 0..GcChanCapacity
  /\ collected \in BOOLEAN
  /\ maps \in MapQueueRecord
  /\ mapChan \in Seq(Nat)
  /\ app \in {"idle", "sending", "closing", "inClose", "returned"}
  /\ mapsRead \in Nat
  /\ closes \in Nat
  /\ terminates \in Nat
  /\ terminating \in Nat
  /\ req \in [BackChannels -> Requests]
  /\ link \in BackChannels \union {None}
  /\ received \in Seq(Nat)
  /\ left \in BOOLEAN

\* What holds of the channel, by where the holder of its lock is; a is where
\* the application is.
Guarded(c, a) ==
  /\ Consistent(c)
  /\ c.lock \in {"free", "dequeueMaps"} =>
       Timed(c) /\ MapChanMatches(c) /\ a # "inClose"
  /\ c.lock \in {"heartbeatStop", "gcChan"} => a = "inClose" \/ c.mapChanClosed
  /\ c.lock = "gcChan" => c.state = "closed"
  /\ c.lock = "panicked" => a # "inClose"

\* The client knows of no array that was not sent.
KnowsOnlySent(n) ==
  /\ \A b \in BackChannels : req[b].phase = "get" => req[b].aid <= n
  /\ \A i \in 1..Len(received) : received[i] <= n

Inv ==
  /\ EnvironmentOK
  /\ Guarded(ch, app)
  /\ KnowsOnlySent(ch.lastSentArrayId)

\* What a step keeps: the invariant, and the two action properties.
StepOK ==
  /\ Inv'
  /\ ch.lastSentArrayId <= ch'.lastSentArrayId
  /\ Running /\ ch'.lock = "panicked" => app \in {"closing", "inClose"}

\* A channel that newChannel just returned satisfies the invariant.
LEMMA InitInv == Init => Inv
<1> SUFFICES ASSUME Init
             PROVE  Inv
  OBVIOUS
<1>1. NoRequest \in Requests /\ [NoRequest EXCEPT !.phase = "post"] \in Requests
  BY DEF NoRequest, Requests
<1>2. EnvironmentOK
  <2>1. /\ req \in [BackChannels -> Requests]
        /\ link \in BackChannels \union {None}
        /\ left \in BOOLEAN
        /\ terminating \in Nat
    <3>1. CASE /\ left = FALSE
               /\ terminating = 0
               /\ \E b \in BackChannels :
                    /\ req = [x \in BackChannels |->
                               IF x = b THEN [NoRequest EXCEPT !.phase = "post"]
                                        ELSE NoRequest]
                    /\ link = b
      BY <1>1, <3>1
    <3>2. CASE /\ req = [x \in BackChannels |-> NoRequest]
               /\ link = None
               /\ terminating = 1
               /\ left = TRUE
      BY <1>1, <3>2
    <3> QED
      BY <3>1, <3>2 DEF Init, InitRequest
  <2>2. maps \in MapQueueRecord
    BY DEF Init, NewMapQueue, MapQueueRecord
  <2>3. 0 \in 0..GcChanCapacity /\ 0 \in 0..1 /\ <<>> \in Seq(Nat)
    BY LimitAssumption
  <2> QED
    BY <2>1, <2>2, <2>3 DEF Init, EnvironmentOK
<1>3. Sound(ch) /\ ch.lock = "free" /\ ch.lastSentArrayId = 0
  BY NewChannelSound DEF Init
<1>4. Guarded(ch, app)
  BY <1>3 DEF Guarded, Sound, Init
<1>5. KnowsOnlySent(ch.lastSentArrayId)
  <2>1. \A b \in BackChannels : req[b].phase # "get"
    BY DEF Init, InitRequest, NoRequest
  <2> QED
    BY <1>3, <2>1 DEF KnowsOnlySent, Init
<1> QED
  BY <1>2, <1>4, <1>5 DEF Inv

\* What Guarded requires when the lock is released.
LEMMA SoundGuarded ==
  ASSUME NEW c, Sound(c), c.lock = "free", NEW a, a # "inClose"
  PROVE  Guarded(c, a)
BY DEF Guarded, Sound

\* What Guarded requires when terminateInternal blocks on heartbeatStop.
LEMMA StoppingGuarded ==
  ASSUME NEW c, Consistent(c), c.lock = "heartbeatStop", NEW a,
         a = "inClose" \/ c.mapChanClosed
  PROVE  Guarded(c, a)
BY DEF Guarded

\* What Guarded gives to the next holder of the lock.
LEMMA FreeSound ==
  ASSUME NEW c, NEW a, Guarded(c, a), c.lock = "free"
  PROVE  Sound(c) /\ a # "inClose"
BY DEF Guarded, Sound

\* The knowledge of the client is not affected by a step of the server.
LEMMA KnowsOnlySentStep ==
  ASSUME Inv, ch' \in ChannelRecord, ch.lastSentArrayId <= ch'.lastSentArrayId,
         received' = received,
         \A b \in BackChannels : req'[b].phase = "get" => req'[b] = req[b]
  PROVE  KnowsOnlySent(ch.lastSentArrayId)'
<1>1. ch.lastSentArrayId \in Int /\ ch'.lastSentArrayId \in Int
  BY DEF Inv, Guarded, Consistent, ChannelRecord
<1>2. \A b \in BackChannels : req[b].aid \in Nat
  BY DEF Inv, EnvironmentOK, Requests
<1>3. \A i \in 1..Len(received) : received[i] \in Nat
  BY DEF Inv, EnvironmentOK
<1>4. ASSUME NEW b \in BackChannels, req'[b].phase = "get"
      PROVE  req'[b].aid <= ch'.lastSentArrayId
  BY <1>1, <1>2, <1>4 DEF Inv, KnowsOnlySent
<1>5. ASSUME NEW i \in 1..Len(received)
      PROVE  received[i] <= ch'.lastSentArrayId
  BY <1>1, <1>3, <1>5 DEF Inv, KnowsOnlySent
<1> QED
  BY <1>4, <1>5 DEF KnowsOnlySent

\* A step that changes neither the channel nor what the client knows.
LEMMA EnvironmentStep ==
  ASSUME Inv, EnvironmentOK', ch' = ch, received' = received,
         \A b \in BackChannels : req'[b].phase = "get" => req'[b] = req[b],
         app = "inClose" <=> app' = "inClose"
  PROVE  StepOK
<1>1. ch' \in ChannelRecord /\ ch.lastSentArrayId <= ch'.lastSentArrayId
  BY DEF Inv, Guarded, Consistent, ChannelRecord
<1>2. Guarded(ch', app')
  BY DEF Inv, Guarded
<1> QED
  BY <1>1, <1>2, KnowsOnlySentStep DEF StepOK, Inv, Running

\* A step of the channel that the client does not see.
LEMMA ChannelStep ==
  ASSUME Inv, EnvironmentOK', Guarded(ch', app'),
         ch.lastSentArrayId <= ch'.lastSentArrayId,
         ch'.lock = "panicked" => app \in {"closing", "inClose"},
         received' = received,
         \A b \in BackChannels : req'[b].phase = "get" => req'[b] = req[b]
  PROVE  StepOK
BY KnowsOnlySentStep DEF StepOK, Inv, Guarded, Consistent

\* The updates of req keep its type.
LEMMA RequestPhase ==
  ASSUME NEW r, r \in [BackChannels -> Requests], NEW b \in BackChannels
  PROVE  /\ [r EXCEPT ![b] = NoRequest] \in [BackChannels -> Requests]
         /\ [r EXCEPT ![b] = [NoRequest EXCEPT !.phase = "wait"]]
              \in [BackChannels -> Requests]
         /\ [r EXCEPT ![b].phase = "set"] \in [BackChannels -> Requests]
         /\ [r EXCEPT ![b].phase = "set", ![b].aid = 0]
              \in [BackChannels -> Requests]
<1>1. NoRequest \in Requests /\ [NoRequest EXCEPT !.phase = "wait"] \in Requests
  BY DEF NoRequest, Requests
<1>2. /\ [r[b] EXCEPT !.phase = "set"] \in Requests
      /\ [r[b] EXCEPT !.phase = "set", !.aid = 0] \in Requests
  BY DEF Requests
<1> QED
  BY <1>1, <1>2 DEF Requests

\* A new GET acknowledges an array the client has received.
LEMMA OpenBackChannelStep ==
  ASSUME Inv, NEW b \in BackChannels, NEW chunked \in BOOLEAN,
         OpenBackChannel(b, chunked)
  PROVE  StepOK
<1>1. received \in Seq(Nat) /\ received # <<>>
  BY DEF Inv, EnvironmentOK, OpenBackChannel
<1>2. /\ LastArrayId \in Nat
      /\ LastArrayId <= ch.lastSentArrayId
  <2>1. Len(received) \in 1..Len(received)
    BY <1>1
  <2>2. received[Len(received)] \in Nat
    BY <1>1, <2>1
  <2> QED
    BY <1>1, <2>1, <2>2 DEF LastArrayId, Inv, KnowsOnlySent
<1> DEFINE r == [phase |-> "get", aid |-> LastArrayId, chunked |-> chunked]
<1>3. r \in Requests
  BY <1>2 DEF Requests
<1>4. /\ req' = [req EXCEPT ![b] = r]
      /\ link' = b
      /\ UNCHANGED <<ch, timeoutRuns, expirationRuns, heartbeat, heartbeatStop,
                     gcChan, collected, maps, mapChan, app, mapsRead, closes,
                     terminates, terminating, received, left>>
  BY DEF OpenBackChannel, otherVars, timerVars, stopVars, mapVars, appVars, termVars
<1> HIDE DEF r
<1>5. EnvironmentOK'
  BY <1>3, <1>4 DEF Inv, EnvironmentOK
<1>6. \A x \in BackChannels : req'[x] = IF x = b THEN r ELSE req[x]
  BY <1>4 DEF Inv, EnvironmentOK
<1>7. KnowsOnlySent(ch.lastSentArrayId)'
  BY <1>2, <1>4, <1>6 DEF Inv, KnowsOnlySent, r
<1>8. ch.lastSentArrayId <= ch'.lastSentArrayId
  BY <1>4 DEF Inv, Guarded, Consistent, ChannelRecord
<1>9. Guarded(ch, app)' /\ (Running => ch'.lock # "panicked")
  BY <1>4 DEF Inv, Guarded, Running
<1> QED
  BY <1>5, <1>7, <1>8, <1>9 DEF StepOK, Inv

\* The client cannot reach the channel otherwise than by requests.
LEMMA ClientLeavesStep ==
  ASSUME Inv, LoseLink \/ Leave
  PROVE  StepOK
<1>1. EnvironmentOK'
  <2>1. CASE LoseLink
    BY <2>1 DEF Inv, EnvironmentOK, LoseLink, otherVars, timerVars, stopVars,
                mapVars, appVars, termVars
  <2>2. CASE Leave
    <3>1. terminates' \in Nat
      BY <2>2, BoundAssumption DEF Leave
    <3> QED
      BY <2>2, <3>1 DEF Inv, EnvironmentOK, Leave, timerVars, stopVars, mapVars,
                        appVars
  <2> QED
    BY <2>1, <2>2
<1>2. /\ UNCHANGED <<ch, received, req, app>>
  BY DEF LoseLink, Leave, otherVars, appVars
<1> QED
  BY <1>1, <1>2, EnvironmentStep

\* The unlocked read of channel.state only moves its request on.
LEMMA ReadStateStep ==
  ASSUME Inv, NEW b \in BackChannels, ReadState(b)
  PROVE  StepOK
<1>1. /\ req' \in [BackChannels -> Requests]
      /\ \A x \in BackChannels : req'[x].phase = "get" => req'[x] = req[x]
  <2>1. req' = [req EXCEPT ![b].phase = "set"] \/ req' = [req EXCEPT ![b] = NoRequest]
    BY DEF ReadState
  <2>2. req \in [BackChannels -> Requests]
    BY DEF Inv, EnvironmentOK
  <2>3. req' \in [BackChannels -> Requests]
    <3>1. [req EXCEPT ![b].phase = "set"] \in [BackChannels -> Requests]
      BY <2>2, RequestPhase
    <3>2. [req EXCEPT ![b] = NoRequest] \in [BackChannels -> Requests]
      BY <2>2, RequestPhase
    <3> QED
      BY <2>1, <3>1, <3>2
  <2>4. /\ req'[b].phase # "get"
        /\ \A x \in BackChannels : x # b => req'[x] = req[x]
    <3>1. CASE req' = [req EXCEPT ![b].phase = "set"]
      BY <2>2, <3>1 DEF Requests
    <3>2. CASE req' = [req EXCEPT ![b] = NoRequest]
      BY <2>2, <3>2 DEF NoRequest
    <3> QED
      BY <2>1, <3>1, <3>2
  <2> QED
    BY <2>3, <2>4
<1>2. /\ link' \in BackChannels \union {None}
      /\ left' \in BOOLEAN
      /\ received' = received
      /\ UNCHANGED <<ch, timeoutRuns, expirationRuns, heartbeat, heartbeatStop,
                     gcChan, collected, maps, mapChan, app, mapsRead, closes,
                     terminates, terminating>>
  BY DEF ReadState, Inv, EnvironmentOK, clientVars, otherVars, timerVars, stopVars,
         mapVars, appVars, termVars
<1>3. EnvironmentOK'
  BY <1>1, <1>2 DEF Inv, EnvironmentOK
<1> QED
  BY <1>1, <1>2, <1>3, EnvironmentStep

\* A request that finds no session ends.
LEMMA UnknownSidStep ==
  ASSUME Inv, NEW b \in BackChannels, UnknownSid(b)
  PROVE  StepOK
<1>1. /\ req' \in [BackChannels -> Requests]
      /\ \A x \in BackChannels : req'[x].phase = "get" => req'[x] = req[x]
  BY RequestPhase DEF UnknownSid, Inv, EnvironmentOK, Requests, NoRequest
<1>2. /\ link' \in BackChannels \union {None}
      /\ left' \in BOOLEAN
      /\ received' = received
      /\ UNCHANGED <<ch, timeoutRuns, expirationRuns, heartbeat, heartbeatStop,
                     gcChan, collected, maps, mapChan, app, mapsRead, closes,
                     terminates, terminating>>
  BY DEF UnknownSid, Inv, EnvironmentOK, otherVars, timerVars, stopVars,
         mapVars, appVars, termVars
<1>3. EnvironmentOK'
  BY <1>1, <1>2 DEF Inv, EnvironmentOK
<1> QED
  BY <1>1, <1>2, <1>3, EnvironmentStep

\* A GET releases what it acknowledges.
LEMMA AcknowledgeGetStep ==
  ASSUME Inv, NEW b \in BackChannels, AcknowledgeGet(b)
  PROVE  StepOK
<1>1. Sound(ch) /\ ch.lock = "free" /\ app # "inClose"
  BY FreeSound DEF AcknowledgeGet, LockFree, Inv
<1>2. req[b].aid \in Nat /\ req[b].aid <= ch.lastSentArrayId
  BY DEF AcknowledgeGet, Inv, KnowsOnlySent, EnvironmentOK, Requests
<1>3. /\ Sound(ch')
      /\ ch'.lock = "free"
      /\ ch'.lastSentArrayId = ch.lastSentArrayId
  BY <1>1, <1>2, AcknowledgeSound DEF AcknowledgeGet
<1>4. /\ req' \in [BackChannels -> Requests]
      /\ \A x \in BackChannels : req'[x].phase = "get" => req'[x] = req[x]
  <2>1. /\ req \in [BackChannels -> Requests]
        /\ req' = [req EXCEPT ![b].phase = "set", ![b].aid = 0]
    BY DEF AcknowledgeGet, Inv, EnvironmentOK
  <2>2. req' \in [BackChannels -> Requests]
    BY <2>1, RequestPhase
  <2>3. /\ req'[b].phase = "set"
        /\ \A x \in BackChannels : x # b => req'[x] = req[x]
    BY <2>1 DEF Requests
  <2> QED
    BY <2>2, <2>3
<1>5. UNCHANGED <<timeoutRuns, expirationRuns, heartbeat, heartbeatStop, gcChan,
                  collected, maps, mapChan, app, mapsRead, closes, terminates,
                  terminating, link, received, left>>
  BY DEF AcknowledgeGet, clientVars, otherVars, timerVars, stopVars, mapVars,
         appVars, termVars
<1>6. EnvironmentOK'
  BY <1>4, <1>5 DEF Inv, EnvironmentOK
<1>7. Guarded(ch', app')
  BY <1>1, <1>3, <1>5, SoundGuarded
<1>8. ch.lastSentArrayId <= ch'.lastSentArrayId
  BY <1>1, <1>3 DEF Sound, Consistent, ChannelRecord
<1> QED
  BY <1>3, <1>4, <1>5, <1>6, <1>7, <1>8, ChannelStep

\* A request hands its back channel to the channel.
LEMMA SetBackChannelStep ==
  ASSUME Inv, NEW b \in BackChannels, SetBackChannelCall(b)
  PROVE  StepOK
<1> DEFINE c == [ch EXCEPT !.bcs[b] = NewBackChannel(req[b].chunked)]
<1>1. Sound(ch) /\ ch.lock = "free" /\ app # "inClose"
  BY FreeSound DEF SetBackChannelCall, LockFree, Inv
<1>2. req[b].chunked \in BOOLEAN
  BY DEF Inv, EnvironmentOK, Requests
<1>3. /\ Sound(c)
      /\ c.lock = "free"
      /\ c.bcs[b].dataChan = <<>>
      /\ c.lastSentArrayId = ch.lastSentArrayId
  BY <1>1, <1>2, FreshConsistent DEF Sound
<1>4. ch' = SetBackChannel(c, b)
  BY DEF SetBackChannelCall
<1> HIDE DEF c
<1>5. /\ Consistent(ch')
      /\ ch.lastSentArrayId <= ch'.lastSentArrayId
      /\ \/ ch'.lock = "free" /\ Timed(ch') /\ MapChanMatches(ch')
         \/ ch'.lock = "heartbeatStop" /\ ch'.mapChanClosed
  BY <1>3, <1>4, SetBackChannelProperties
<1>6. /\ req' \in [BackChannels -> Requests]
      /\ \A x \in BackChannels : req'[x].phase = "get" => req'[x] = req[x]
  BY RequestPhase DEF SetBackChannelCall, Inv, EnvironmentOK, Requests, NoRequest
<1>7. /\ heartbeat' \in {"none", "select", "sending", "exited"}
      /\ UNCHANGED <<timeoutRuns, expirationRuns, heartbeatStop, gcChan,
                     collected, maps, mapChan, app, mapsRead, closes, terminates,
                     terminating, link, received, left>>
  BY DEF SetBackChannelCall, Inv, EnvironmentOK, clientVars, otherVars, timerVars,
         stopVars, mapVars, appVars, termVars
<1>8. EnvironmentOK'
  BY <1>6, <1>7 DEF Inv, EnvironmentOK
<1>9. Guarded(ch', app')
  BY <1>1, <1>5, <1>7, SoundGuarded, StoppingGuarded DEF Sound
<1> QED
  BY <1>5, <1>6, <1>7, <1>8, <1>9, ChannelStep

\* The client receives only what was sent.
LEMMA WaitWritesStep ==
  ASSUME Inv, NEW b \in BackChannels, WaitWrites(b)
  PROVE  StepOK
<1> DEFINE chunk == NextChunk(ch.bcs[b])
           ids == [i \in 1..Len(chunk) |-> chunk[i].index]
<1>1. Consistent(ch) /\ HasData(ch.bcs[b]) /\ ch.lock # "panicked"
  BY DEF Inv, Guarded, WaitWrites, Running
<1>2. /\ Consistent(ch')
      /\ ch'.lock = ch.lock
      /\ ch'.state = ch.state
      /\ ch'.lastSentArrayId = ch.lastSentArrayId
      /\ ch'.mapChanClosed = ch.mapChanClosed
      /\ Timed(ch) => Timed(ch')
      /\ MapChanMatches(ch) => MapChanMatches(ch')
      /\ chunk \in Seq(OutgoingArray)
      /\ \A i \in 1..Len(chunk) : chunk[i].index <= ch.lastSentArrayId
  BY <1>1, TakeChunkConsistent DEF WaitWrites
<1> HIDE DEF chunk
<1>3. /\ ids \in Seq(Nat)
      /\ \A i \in 1..Len(ids) : ids[i] <= ch.lastSentArrayId
  <2>1. \A i \in 1..Len(chunk) : chunk[i].index \in Nat
    <3>1. \A i \in 1..Len(chunk) : chunk[i] \in OutgoingArray
      BY <1>2
    <3> QED
      BY <3>1 DEF OutgoingArray
  <2>2. Len(chunk) \in Nat
    BY <1>2
  <2>3. ids \in Seq(Nat) /\ Len(ids) = Len(chunk)
    BY <2>1, <2>2
  <2> QED
    BY <1>2, <2>3
<1>4. /\ received' = received \/ received' = received \o ids
      /\ link' \in BackChannels \union {None}
      /\ left' \in BOOLEAN
  BY DEF WaitWrites, Inv, EnvironmentOK, clientVars, chunk
<1> HIDE DEF ids
<1>5. UNCHANGED <<timeoutRuns, expirationRuns, heartbeat, heartbeatStop, gcChan,
                  collected, maps, mapChan, app, mapsRead, closes, terminates,
                  terminating, req>>
  BY DEF WaitWrites, otherVars, timerVars, stopVars, mapVars, appVars, termVars
<1>6. received \in Seq(Nat) /\ \A i \in 1..Len(received) : received[i] <= ch.lastSentArrayId
  BY DEF Inv, EnvironmentOK, KnowsOnlySent
<1>7. /\ received' \in Seq(Nat)
      /\ \A i \in 1..Len(received') : received'[i] <= ch.lastSentArrayId
  <2>1. /\ received \o ids \in Seq(Nat)
        /\ Len(received \o ids) = Len(received) + Len(ids)
        /\ Len(received) \in Nat /\ Len(ids) \in Nat
        /\ \A i \in 1..(Len(received) + Len(ids)) :
             (received \o ids)[i] = IF i <= Len(received)
                                      THEN received[i] ELSE ids[i - Len(received)]
    BY <1>3, <1>6
  <2>2. \A i \in 1..Len(received \o ids) :
          (received \o ids)[i] <= ch.lastSentArrayId
    <3>1. ASSUME NEW i \in 1..(Len(received) + Len(ids)), ~(i <= Len(received))
          PROVE  i - Len(received) \in 1..Len(ids)
      BY <2>1, <3>1
    <3> QED
      BY <1>3, <1>6, <2>1, <3>1
  <2> QED
    BY <1>4, <1>6, <2>1, <2>2
<1>8. EnvironmentOK'
  BY <1>4, <1>5, <1>7 DEF Inv, EnvironmentOK
<1>9. Guarded(ch', app')
  BY <1>2, <1>5 DEF Inv, Guarded
<1>10. KnowsOnlySent(ch.lastSentArrayId)'
  BY <1>2, <1>5, <1>7 DEF Inv, KnowsOnlySent
<1>11. ch.lastSentArrayId <= ch'.lastSentArrayId
  BY <1>2 DEF Consistent, ChannelRecord
<1> QED
  BY <1>1, <1>2, <1>8, <1>9, <1>10, <1>11 DEF StepOK, Inv

\* A back channel whose request ends holds no data.
LEMMA WaitReturnsStep ==
  ASSUME Inv, NEW b \in BackChannels, WaitReturns(b)
  PROVE  StepOK
<1>1. Consistent(ch) /\ ch.lock # "panicked"
  BY DEF Inv, Guarded, WaitReturns, Running
<1>2. /\ Consistent(ch')
      /\ ch'.lock = ch.lock
      /\ ch'.state = ch.state
      /\ ch'.lastSentArrayId = ch.lastSentArrayId
      /\ ch'.mapChanClosed = ch.mapChanClosed
      /\ Timed(ch) => Timed(ch')
      /\ MapChanMatches(ch) => MapChanMatches(ch')
  BY <1>1, FreshConsistent DEF WaitReturns
<1>3. /\ req' \in [BackChannels -> Requests]
      /\ \A x \in BackChannels : req'[x].phase = "get" => req'[x] = req[x]
  BY RequestPhase DEF WaitReturns, Inv, EnvironmentOK, Requests, NoRequest
<1>4. /\ link' \in BackChannels \union {None}
      /\ UNCHANGED <<timeoutRuns, expirationRuns, heartbeat, heartbeatStop,
                     gcChan, collected, maps, mapChan, app, mapsRead, closes,
                     terminates, terminating, received, left>>
  BY DEF WaitReturns, Inv, EnvironmentOK, otherVars, timerVars, stopVars,
         mapVars, appVars, termVars
<1>5. EnvironmentOK'
  BY <1>3, <1>4 DEF Inv, EnvironmentOK
<1>6. Guarded(ch', app')
  BY <1>2, <1>4 DEF Inv, Guarded
<1>7. ch.lastSentArrayId <= ch'.lastSentArrayId
  BY <1>2 DEF Consistent, ChannelRecord
<1> QED
  BY <1>1, <1>2, <1>3, <1>4, <1>5, <1>6, <1>7, ChannelStep

\* A POST acknowledges an array the client received, maybe long ago.
LEMMA AcknowledgePostStep ==
  ASSUME Inv, NEW i \in 1..Len(received), AcknowledgePost(received[i])
  PROVE  StepOK
<1>1. Sound(ch) /\ ch.lock = "free" /\ app # "inClose"
  BY FreeSound DEF AcknowledgePost, LockFree, Inv
<1>2. received[i] \in Nat /\ received[i] <= ch.lastSentArrayId
  BY DEF Inv, KnowsOnlySent, EnvironmentOK
<1>3. /\ Sound(ch')
      /\ ch'.lock = "free"
      /\ ch'.lastSentArrayId = ch.lastSentArrayId
  BY <1>1, <1>2, AcknowledgeSound DEF AcknowledgePost
<1>4. UNCHANGED <<timeoutRuns, expirationRuns, heartbeat, heartbeatStop, gcChan,
                  collected, maps, mapChan, app, mapsRead, closes, terminates,
                  terminating, req, link, received, left>>
  BY DEF AcknowledgePost, clientVars, otherVars, timerVars, stopVars, mapVars,
         appVars, termVars
<1>5. EnvironmentOK'
  BY <1>4 DEF Inv, EnvironmentOK
<1>6. Guarded(ch', app')
  BY <1>1, <1>3, <1>4, SoundGuarded
<1>7. ch.lastSentArrayId <= ch'.lastSentArrayId
  BY <1>1, <1>3 DEF Sound, Consistent, ChannelRecord
<1> QED
  BY <1>3, <1>4, <1>5, <1>6, <1>7, ChannelStep

\* A step that only changes who holds the lock, between free and dequeueMaps.
LEMMA LockChange ==
  ASSUME NEW c, NEW a, Guarded(c, a), c.lock \in {"free", "dequeueMaps"},
         NEW l \in {"free", "dequeueMaps"}
  PROVE  LET d == [c EXCEPT !.lock = l]
         IN  /\ Guarded(d, a)
             /\ d.lock = l
             /\ d.lastSentArrayId = c.lastSentArrayId
<1> DEFINE d == [c EXCEPT !.lock = l]
<1>1. c \in ChannelRecord
  BY DEF Guarded, Consistent
<1>2. /\ d \in ChannelRecord
      /\ d.state = c.state
      /\ d.backChannel = c.backChannel
      /\ d.bcs = c.bcs
      /\ d.outgoingArrays = c.outgoingArrays
      /\ d.lastArrayId = c.lastArrayId
      /\ d.lastSentArrayId = c.lastSentArrayId
      /\ d.channelTimeout = c.channelTimeout
      /\ d.backChannelExpiration = c.backChannelExpiration
      /\ d.mapChanClosed = c.mapChanClosed
      /\ d.lock = l
  BY <1>1 DEF ChannelRecord, Locks
<1> HIDE DEF d
<1>3. Consistent(d)
  BY <1>2, ConsistentFrame DEF Guarded, SameData
<1>4. Timed(d) /\ MapChanMatches(d)
  BY <1>2 DEF Guarded, Timed, MapChanMatches
<1> QED
  BY <1>2, <1>3, <1>4 DEF Guarded, d

\* receiveMaps only touches the map queue and the lock.
LEMMA ReceiveMapsStep ==
  ASSUME Inv, NEW offset \in 0..(MaxMaps - 1), NEW n \in 1..(MaxMaps - offset),
         ReceiveMaps(offset, n)
  PROVE  StepOK
<1>1. UNCHANGED <<timeoutRuns, expirationRuns, heartbeat, heartbeatStop, gcChan,
                  collected, mapChan, app, mapsRead, closes, terminates,
                  terminating, req, link, received, left>>
  BY DEF ReceiveMaps, clientVars, timerVars, stopVars, appVars, termVars
<1>2. CASE ch.state # "ready"
  <2>1. UNCHANGED <<ch, maps>>
    BY <1>2 DEF ReceiveMaps
  <2> QED
    BY <1>1, <2>1, EnvironmentStep DEF Inv, EnvironmentOK
<1>3. CASE ch.state = "ready"
  <2>1. /\ maps' = Enqueue(maps, offset, n)
        /\ ch.lock = "free"
        /\ \E l \in {"free", "dequeueMaps"} : ch' = [ch EXCEPT !.lock = l]
    BY <1>3 DEF ReceiveMaps, LockFree
  <2>2. Batch(offset, n) \in SUBSET Nat
    BY BoundAssumption DEF Batch
  <2>3. maps' \in MapQueueRecord
    BY <2>1, <2>2 DEF Inv, EnvironmentOK, MapQueueRecord, Enqueue
  <2>4. EnvironmentOK'
    BY <1>1, <2>3 DEF Inv, EnvironmentOK
  <2>5. /\ Guarded(ch', app)
        /\ ch'.lock # "panicked"
        /\ ch'.lastSentArrayId = ch.lastSentArrayId
    <3>1. PICK l \in {"free", "dequeueMaps"} : ch' = [ch EXCEPT !.lock = l]
      BY <2>1
    <3>2. Guarded(ch, app) /\ ch.lock \in {"free", "dequeueMaps"}
      BY <2>1 DEF Inv
    <3> QED
      BY <3>1, <3>2, LockChange
  <2>6. ch.lastSentArrayId <= ch'.lastSentArrayId
    BY <2>5 DEF Inv, Guarded, Consistent, ChannelRecord
  <2> QED
    BY <1>1, <2>4, <2>5, <2>6, ChannelStep
<1> QED
  BY <1>2, <1>3

\* dequeueMaps only touches the maps and the lock.
LEMMA DequeueMapStep ==
  ASSUME Inv, DequeueMap
  PROVE  StepOK
<1>1. UNCHANGED <<timeoutRuns, expirationRuns, heartbeat, heartbeatStop, gcChan,
                  collected, app, mapsRead, closes, terminates,
                  terminating, req, link, received, left>>
  BY DEF DequeueMap, clientVars, timerVars, stopVars, appVars, termVars
<1>2. /\ mapChan' = Append(mapChan, maps.next)
      /\ maps' = Dequeue(maps)
      /\ ch.lock = "dequeueMaps"
      /\ \E l \in {"free", "dequeueMaps"} : ch' = [ch EXCEPT !.lock = l]
  BY DEF DequeueMap
<1>3. maps \in MapQueueRecord /\ mapChan \in Seq(Nat)
  BY DEF Inv, EnvironmentOK
<1>4. maps.next \in Nat /\ maps' \in MapQueueRecord
  BY <1>2, <1>3 DEF MapQueueRecord, Dequeue
<1>5. mapChan' \in Seq(Nat)
  BY <1>2, <1>3, <1>4
<1>6. EnvironmentOK'
  BY <1>1, <1>4, <1>5 DEF Inv, EnvironmentOK
<1>7. /\ Guarded(ch', app)
      /\ ch'.lock # "panicked"
      /\ ch'.lastSentArrayId = ch.lastSentArrayId
  <2>1. PICK l \in {"free", "dequeueMaps"} : ch' = [ch EXCEPT !.lock = l]
    BY <1>2
  <2>2. Guarded(ch, app) /\ ch.lock \in {"free", "dequeueMaps"}
    BY <1>2 DEF Inv
  <2> QED
    BY <2>1, <2>2, LockChange
<1>8. ch.lastSentArrayId <= ch'.lastSentArrayId
  BY <1>7 DEF Inv, Guarded, Consistent, ChannelRecord
<1> QED
  BY <1>1, <1>6, <1>7, <1>8, ChannelStep

\* The lock is taken, and terminateInternal blocks on heartbeatStop.
LEMMA TerminateStep ==
  ASSUME Inv, LockFree, ch' = TerminateInternal(ch),
         timeoutRuns' \in Nat, terminating' \in Nat,
         UNCHANGED <<expirationRuns, heartbeat, stopVars, mapVars, appVars,
                     terminates, req, clientVars>>
  PROVE  StepOK
<1>1. Sound(ch) /\ ch.lock = "free" /\ app # "inClose"
  BY FreeSound DEF LockFree, Inv
<1>2. /\ Consistent(ch')
      /\ ch'.lastSentArrayId = ch.lastSentArrayId
      /\ ch'.lock = "heartbeatStop"
      /\ ch'.mapChanClosed
  BY <1>1, TerminateInternalConsistent
<1>3. UNCHANGED <<expirationRuns, heartbeat, heartbeatStop, gcChan, collected,
                  maps, mapChan, app, mapsRead, closes, terminates, req, link,
                  received, left>>
  BY DEF clientVars, stopVars, mapVars, appVars
<1>4. EnvironmentOK'
  BY <1>3 DEF Inv, EnvironmentOK
<1>5. Guarded(ch', app')
  BY <1>2, StoppingGuarded
<1>6. ch.lastSentArrayId <= ch'.lastSentArrayId
  BY <1>2 DEF Consistent, ChannelRecord
<1> QED
  BY <1>2, <1>3, <1>4, <1>5, <1>6, ChannelStep

\* The channel is terminated by a request or by its timeout.
LEMMA TerminateCallsStep ==
  ASSUME Inv, FindTerminated \/ Terminate \/ ChannelTimeoutRuns
  PROVE  StepOK
<1>1. CASE FindTerminated
  <2>1. /\ terminates' \in Nat /\ terminating' \in Nat
        /\ UNCHANGED <<ch, timeoutRuns, expirationRuns, heartbeat, heartbeatStop,
                       gcChan, collected, maps, mapChan, app, mapsRead, closes,
                       req, link, received, left>>
    BY <1>1 DEF FindTerminated, Inv, EnvironmentOK, clientVars, timerVars,
                stopVars, mapVars, appVars
  <2>2. EnvironmentOK'
    BY <2>1 DEF Inv, EnvironmentOK
  <2> QED
    BY <2>1, <2>2, EnvironmentStep
<1>2. CASE Terminate
  <2>1. /\ terminating' \in Nat /\ timeoutRuns' \in Nat
        /\ LockFree
        /\ ch' = TerminateInternal(ch)
        /\ UNCHANGED <<expirationRuns, heartbeat, stopVars, mapVars, appVars,
                       terminates, req, clientVars>>
    BY <1>2 DEF Terminate, Inv, EnvironmentOK, timerVars
  <2> QED
    BY <2>1, TerminateStep
<1>3. CASE ChannelTimeoutRuns
  <2>1. /\ terminating' \in Nat /\ timeoutRuns' \in Nat
        /\ LockFree
        /\ ch' = TerminateInternal(ch)
        /\ UNCHANGED <<expirationRuns, heartbeat, stopVars, mapVars, appVars,
                       terminates, req, clientVars>>
    BY <1>3 DEF ChannelTimeoutRuns, Inv, EnvironmentOK, otherVars, termVars
  <2> QED
    BY <2>1, TerminateStep
<1> QED
  BY <1>1, <1>2, <1>3

\* The channel is closed once the stop of the heartbeat is sent.
LEMMA StopHeartbeatStep ==
  ASSUME Inv, StopHeartbeat
  PROVE  StepOK
<1>1. /\ ch \in ChannelRecord
      /\ Consistent(ch)
      /\ app = "inClose" \/ ch.mapChanClosed
  BY DEF Inv, Guarded, Consistent, StopHeartbeat
<1>2. /\ ch' \in ChannelRecord
      /\ ch'.bcs = ch.bcs
      /\ ch'.outgoingArrays = ch.outgoingArrays
      /\ ch'.lastArrayId = ch.lastArrayId
      /\ ch'.lastSentArrayId = ch.lastSentArrayId
      /\ ch'.mapChanClosed = ch.mapChanClosed
      /\ ch'.state = "closed"
      /\ ch'.lock = "gcChan"
  BY <1>1 DEF StopHeartbeat, ChannelRecord, States, Locks
<1>3. /\ heartbeatStop' \in 0..1
      /\ UNCHANGED <<timeoutRuns, expirationRuns, heartbeat, gcChan, collected,
                     maps, mapChan, app, mapsRead, closes, terminates,
                     terminating, req, link, received, left>>
  BY DEF StopHeartbeat, clientVars, timerVars, mapVars, appVars, termVars
<1>4. EnvironmentOK'
  BY <1>3 DEF Inv, EnvironmentOK
<1>5. Consistent(ch')
  BY <1>1, <1>2, ConsistentFrame DEF SameData
<1>6. Guarded(ch', app')
  BY <1>1, <1>2, <1>3, <1>5 DEF Guarded
<1>7. ch.lastSentArrayId <= ch'.lastSentArrayId
  BY <1>2 DEF ChannelRecord
<1> QED
  BY <1>2, <1>3, <1>4, <1>6, <1>7, ChannelStep

\* The lock of a closed channel is released; Close then closes mapChan, which
\* panics if that was done.
LEMMA SendToGcStep ==
  ASSUME Inv, SendToGc
  PROVE  StepOK
<1> DEFINE free == [ch EXCEPT !.lock = "free"]
<1>1. /\ ch \in ChannelRecord
      /\ Consistent(ch)
      /\ ch.state = "closed"
      /\ app = "inClose" \/ ch.mapChanClosed
  BY DEF Inv, Guarded, Consistent, SendToGc
<1>2. /\ free \in ChannelRecord
      /\ free.bcs = ch.bcs
      /\ free.outgoingArrays = ch.outgoingArrays
      /\ free.lastArrayId = ch.lastArrayId
      /\ free.lastSentArrayId = ch.lastSentArrayId
      /\ free.mapChanClosed = ch.mapChanClosed
      /\ free.state = "closed"
      /\ free.lock = "free"
  BY <1>1 DEF ChannelRecord, Locks
<1>3. \/ app = "inClose" /\ ch' = CloseMapChan(free) /\ app' = "idle"
      \/ app # "inClose" /\ ch' = free /\ app' = app
  BY DEF SendToGc
<1> HIDE DEF free
<1>4. /\ ch' \in ChannelRecord
      /\ ch'.bcs = ch.bcs
      /\ ch'.outgoingArrays = ch.outgoingArrays
      /\ ch'.lastArrayId = ch.lastArrayId
      /\ ch'.lastSentArrayId = ch.lastSentArrayId
      /\ ch'.state = "closed"
      /\ ch'.lock \in {"free", "panicked"}
      /\ ch'.lock = "free" => ch'.mapChanClosed
      /\ ch'.lock = "panicked" => app = "inClose"
      /\ app' # "inClose"
  <2>1. CASE app # "inClose"
    BY <1>1, <1>2, <1>3, <2>1
  <2>2. CASE app = "inClose"
    BY <1>2, <1>3, <2>2 DEF CloseMapChan, ChannelRecord, Locks
  <2> QED
    BY <2>1, <2>2
<1>5. /\ gcChan' \in 0..GcChanCapacity
      /\ app' \in {"idle", "sending", "closing", "inClose", "returned"}
      /\ UNCHANGED <<timeoutRuns, expirationRuns, heartbeat, heartbeatStop,
                     collected, maps, mapChan, mapsRead, closes, terminates,
                     terminating, req, link, received, left>>
  BY <1>3, LimitAssumption
  DEF SendToGc, Inv, EnvironmentOK, clientVars, timerVars, mapVars, termVars
<1>6. EnvironmentOK'
  BY <1>5 DEF Inv, EnvironmentOK
<1>7. Consistent(ch')
  BY <1>1, <1>4, ConsistentFrame DEF SameData
<1>8. Timed(ch') /\ (ch'.lock = "free" => MapChanMatches(ch'))
  BY <1>4 DEF Timed, MapChanMatches, ChannelRecord
<1>9. Guarded(ch', app')
  BY <1>4, <1>7, <1>8 DEF Guarded
<1>10. ch.lastSentArrayId <= ch'.lastSentArrayId
  BY <1>1, <1>4 DEF ChannelRecord
<1> QED
  BY <1>4, <1>5, <1>6, <1>9, <1>10, ChannelStep

\* The collector does not touch the channel.
LEMMA RemoveClosedSessionStep ==
  ASSUME Inv, RemoveClosedSession
  PROVE  StepOK
<1>1. /\ gcChan' \in 0..GcChanCapacity
      /\ collected' \in BOOLEAN
      /\ UNCHANGED <<ch, timeoutRuns, expirationRuns, heartbeat, heartbeatStop,
                     maps, mapChan, app, mapsRead, closes, terminates,
                     terminating, req, link, received, left>>
  BY LimitAssumption DEF RemoveClosedSession, Inv, EnvironmentOK, clientVars,
     timerVars, mapVars, appVars, termVars
<1>2. EnvironmentOK'
  BY <1>1 DEF Inv, EnvironmentOK
<1> QED
  BY <1>1, <1>2, EnvironmentStep

\* A timer expires: it stays set, and its function waits for the lock.
LEMMA TimerFiresStep ==
  ASSUME Inv, ChannelTimeoutFires \/ ExpirationFires
  PROVE  StepOK
<1>1. ch \in ChannelRecord /\ Consistent(ch) /\ ch.lock # "panicked"
  BY DEF Inv, Guarded, Consistent, ChannelTimeoutFires, ExpirationFires, MayFire,
         Running
<1>2. \/ /\ ch.channelTimeout = "armed"
         /\ ch' = [ch EXCEPT !.channelTimeout = "fired"]
      \/ /\ ch.backChannelExpiration = "armed"
         /\ ch' = [ch EXCEPT !.backChannelExpiration = "fired"]
  BY DEF ChannelTimeoutFires, ExpirationFires
<1>3. /\ ch' \in ChannelRecord
      /\ ch'.state = ch.state
      /\ ch'.backChannel = ch.backChannel
      /\ ch'.bcs = ch.bcs
      /\ ch'.outgoingArrays = ch.outgoingArrays
      /\ ch'.lastArrayId = ch.lastArrayId
      /\ ch'.lastSentArrayId = ch.lastSentArrayId
      /\ ch'.mapChanClosed = ch.mapChanClosed
      /\ ch'.lock = ch.lock
  BY <1>1, <1>2 DEF ChannelRecord, Timers
<1>4. /\ ch'.channelTimeout = "nil" <=> ch.channelTimeout = "nil"
      /\ ch'.backChannelExpiration = "nil" <=> ch.backChannelExpiration = "nil"
  BY <1>1, <1>2 DEF ChannelRecord
<1>5. /\ timeoutRuns' \in Nat
      /\ expirationRuns' \in Nat
      /\ UNCHANGED <<heartbeat, heartbeatStop, gcChan, collected, maps, mapChan,
                     app, mapsRead, closes, terminates, terminating, req, link,
                     received, left>>
  BY DEF ChannelTimeoutFires, ExpirationFires, Inv, EnvironmentOK, otherVars,
         clientVars, stopVars, mapVars, appVars, termVars
<1>6. EnvironmentOK'
  BY <1>5 DEF Inv, EnvironmentOK
<1>7. Consistent(ch')
  BY <1>1, <1>3, ConsistentFrame DEF SameData
<1>8. /\ Timed(ch) => Timed(ch')
      /\ MapChanMatches(ch) => MapChanMatches(ch')
  BY <1>3, <1>4 DEF Timed, MapChanMatches
<1>9. Guarded(ch', app')
  BY <1>3, <1>5, <1>7, <1>8 DEF Inv, Guarded
<1>10. ch.lastSentArrayId <= ch'.lastSentArrayId
  BY <1>1, <1>3 DEF ChannelRecord
<1> QED
  BY <1>1, <1>3, <1>5, <1>6, <1>9, <1>10, ChannelStep

\* An expired back channel is cleared, or the one that replaced it.
LEMMA ExpirationRunsStep ==
  ASSUME Inv, ExpirationRuns
  PROVE  StepOK
<1>1. Sound(ch) /\ ch.lock = "free" /\ app # "inClose"
  BY FreeSound DEF ExpirationRuns, LockFree, Inv
<1>2. /\ Sound(ch')
      /\ ch'.lock = "free"
      /\ ch'.lastSentArrayId = ch.lastSentArrayId
  BY <1>1, ClearBackChannelSound DEF ExpirationRuns
<1>3. /\ expirationRuns' \in Nat
      /\ UNCHANGED <<timeoutRuns, heartbeat, heartbeatStop, gcChan, collected,
                     maps, mapChan, app, mapsRead, closes, terminates,
                     terminating, req, link, received, left>>
  BY DEF ExpirationRuns, Inv, EnvironmentOK, otherVars, clientVars, stopVars,
         mapVars, appVars, termVars
<1>4. EnvironmentOK'
  BY <1>3 DEF Inv, EnvironmentOK
<1>5. Guarded(ch', app')
  BY <1>1, <1>2, <1>3, SoundGuarded
<1>6. ch.lastSentArrayId <= ch'.lastSentArrayId
  BY <1>1, <1>2 DEF Sound, Consistent, ChannelRecord
<1> QED
  BY <1>2, <1>3, <1>4, <1>5, <1>6, ChannelStep

\* A call of SendArray, by the heartbeat goroutine or by the application.
LEMMA SendArrayStep ==
  ASSUME Inv, LockFree, NEW e \in Elements, ch' = SendArray(ch, e),
         heartbeat' \in {"none", "select", "sending", "exited"},
         app' \in {"idle", "sending", "closing", "returned"},
         UNCHANGED <<timerVars, stopVars, mapVars, closes, termVars, req,
                     clientVars>>
  PROVE  StepOK
<1>1. Sound(ch) /\ ch.lock = "free" /\ app # "inClose"
  BY FreeSound DEF LockFree, Inv
<1>2. /\ Sound(ch')
      /\ ch'.lock = "free"
      /\ ch.lastSentArrayId <= ch'.lastSentArrayId
  BY <1>1, SendArraySound
<1>3. UNCHANGED <<timeoutRuns, expirationRuns, heartbeatStop, gcChan, collected,
                  maps, mapChan, mapsRead, closes, terminates, terminating, req,
                  link, received, left>>
  BY DEF clientVars, timerVars, stopVars, mapVars, termVars
<1>4. EnvironmentOK'
  BY <1>3 DEF Inv, EnvironmentOK
<1>5. Guarded(ch', app')
  BY <1>2, SoundGuarded
<1> QED
  BY <1>2, <1>3, <1>4, <1>5, ChannelStep

\* The heartbeat goroutine sends noops until it is stopped.
LEMMA HeartbeatStep ==
  ASSUME Inv, HeartbeatTick \/ HeartbeatSends \/ HeartbeatStops
  PROVE  StepOK
<1>1. CASE HeartbeatTick \/ HeartbeatStops
  <2>1. /\ heartbeat' \in {"none", "select", "sending", "exited"}
        /\ heartbeatStop' \in 0..1
        /\ UNCHANGED <<ch, timeoutRuns, expirationRuns, gcChan, collected, maps,
                       mapChan, app, mapsRead, closes, terminates, terminating,
                       req, link, received, left>>
    BY <1>1 DEF HeartbeatTick, HeartbeatStops, Inv, EnvironmentOK, otherVars,
                clientVars, timerVars, stopVars, mapVars, appVars, termVars
  <2>2. EnvironmentOK'
    BY <2>1 DEF Inv, EnvironmentOK
  <2> QED
    BY <2>1, <2>2, EnvironmentStep
<1>2. CASE HeartbeatSends
  <2>1. app # "inClose"
    BY <1>2, FreeSound DEF HeartbeatSends, LockFree, Inv
  <2>2. /\ LockFree
        /\ ch' = SendArray(ch, "noop")
        /\ heartbeat' \in {"none", "select", "sending", "exited"}
        /\ app' \in {"idle", "sending", "closing", "returned"}
        /\ UNCHANGED <<timerVars, stopVars, mapVars, closes, termVars, req,
                       clientVars>>
    BY <1>2, <2>1 DEF HeartbeatSends, Inv, EnvironmentOK, otherVars, appVars
  <2>3. "noop" \in Elements
    BY DEF Elements
  <2> QED
    BY <2>2, <2>3, SendArrayStep
<1> QED
  BY <1>1, <1>2

\* What the application does between two calls.
LEMMA AppStepOK ==
  ASSUME Inv, \/ AppReadsMap \/ AppReturns \/ AppCallsSendArray \/ AppCallsClose
  PROVE  StepOK
<1>1. /\ mapChan' \in Seq(Nat)
      /\ mapsRead' \in Nat
      /\ closes' \in Nat
      /\ app = "idle"
      /\ app' \in {"idle", "sending", "closing", "returned"}
      /\ UNCHANGED <<ch, timeoutRuns, expirationRuns, heartbeat, heartbeatStop,
                     gcChan, collected, maps, terminates, terminating, req, link,
                     received, left>>
  <2>1. /\ mapChan \in Seq(Nat) /\ mapsRead \in Nat /\ closes \in Nat
    BY DEF Inv, EnvironmentOK
  <2>2. CASE AppReadsMap
    <3>1. mapChan' = Tail(mapChan) /\ mapChan # <<>>
      BY <2>2 DEF AppReadsMap
    <3>2. mapChan' \in Seq(Nat)
      BY <2>1, <3>1
    <3> QED
      BY <2>1, <2>2, <3>2 DEF AppReadsMap, clientVars, timerVars, stopVars, appVars,
                              termVars
  <2>3. CASE AppReturns \/ AppCallsSendArray \/ AppCallsClose
    BY <2>1, <2>3 DEF AppReturns, AppCallsSendArray, AppCallsClose, clientVars,
                      timerVars, stopVars, mapVars, termVars
  <2> QED
    BY <2>2, <2>3
<1>2. EnvironmentOK'
  BY <1>1 DEF Inv, EnvironmentOK
<1> QED
  BY <1>1, <1>2, EnvironmentStep

\* The application calls SendArray.
LEMMA AppSendsArrayStep ==
  ASSUME Inv, NEW e \in Payloads, AppSendsArray(e)
  PROVE  StepOK
<1>1. /\ LockFree
      /\ ch' = SendArray(ch, e)
      /\ heartbeat' \in {"none", "select", "sending", "exited"}
      /\ app' \in {"idle", "sending", "closing", "returned"}
      /\ UNCHANGED <<timerVars, stopVars, mapVars, closes, termVars, req,
                     clientVars>>
  BY DEF AppSendsArray, Inv, EnvironmentOK
<1>2. e \in Elements
  BY DEF Elements
<1> QED
  BY <1>1, <1>2, SendArrayStep

\* Close either closes mapChan at once, panicking if it was closed, or blocks
\* in terminateInternal first.
LEMMA AppClosesStep ==
  ASSUME Inv, AppCloses
  PROVE  StepOK
<1> DEFINE c == CloseAndFlush(ch)
<1>1. /\ Sound(ch) /\ ch.lock = "free" /\ app = "closing"
      /\ ch \in ChannelRecord
  BY FreeSound DEF AppCloses, LockFree, Inv, Sound, Consistent
<1>2. /\ Consistent(c)
      /\ c \in ChannelRecord
      /\ ch.lastSentArrayId <= c.lastSentArrayId
      /\ c.state = "writeClosed"
      /\ c.mapChanClosed = ch.mapChanClosed
      /\ \/ c.lock = "free" /\ (ch.state # "closed" => Timed(c))
         \/ c.lock = "heartbeatStop"
  BY <1>1, CloseAndFlushProperties DEF Consistent
<1>3. \/ c.lock = "free" /\ ch' = CloseMapChan(c) /\ app' = "idle"
      \/ c.lock # "free" /\ ch' = c /\ app' = "inClose"
  BY DEF AppCloses
<1> HIDE DEF c
<1>4. /\ ch' \in ChannelRecord
      /\ ch'.state = "writeClosed"
      /\ ch'.backChannel = c.backChannel
      /\ ch'.bcs = c.bcs
      /\ ch'.outgoingArrays = c.outgoingArrays
      /\ ch'.lastArrayId = c.lastArrayId
      /\ ch'.lastSentArrayId = c.lastSentArrayId
      /\ ch'.channelTimeout = c.channelTimeout
      /\ ch'.backChannelExpiration = c.backChannelExpiration
      /\ ch'.lock \in {"free", "heartbeatStop", "panicked"}
      /\ ch'.lock = "heartbeatStop" <=> app' = "inClose"
      /\ ch'.lock = "free" => /\ c.lock = "free"
                              /\ ~ch.mapChanClosed
                              /\ ch'.mapChanClosed
  <2>1. CASE c.lock = "free"
    BY <1>2, <1>3, <2>1 DEF CloseMapChan, ChannelRecord, Locks
  <2>2. CASE c.lock # "free"
    BY <1>2, <1>3, <2>2
  <2> QED
    BY <2>1, <2>2
<1>5. /\ app' \in {"idle", "inClose"}
      /\ UNCHANGED <<timeoutRuns, expirationRuns, heartbeat, heartbeatStop,
                     gcChan, collected, maps, mapChan, mapsRead, closes,
                     terminates, terminating, req, link, received, left>>
  BY <1>3 DEF AppCloses, clientVars, timerVars, stopVars, mapVars, termVars
<1>6. EnvironmentOK'
  BY <1>5 DEF Inv, EnvironmentOK
<1>7. Consistent(ch')
  BY <1>2, <1>4, ConsistentFrame DEF SameData
<1>8. ASSUME ch'.lock = "free"
      PROVE  Timed(ch') /\ MapChanMatches(ch')
  <2>1. ch.state # "closed"
    BY <1>1, <1>4, <1>8 DEF Sound, MapChanMatches
  <2>2. Timed(c)
    BY <1>2, <1>4, <1>8, <2>1
  <2> QED
    BY <1>2, <1>4, <1>8, <2>2 DEF Timed, MapChanMatches
<1>9. Guarded(ch', app')
  BY <1>4, <1>5, <1>7, <1>8 DEF Guarded
<1>10. ch.lastSentArrayId <= ch'.lastSentArrayId
  BY <1>2, <1>4
<1> QED
  BY <1>1, <1>4, <1>5, <1>6, <1>9, <1>10, ChannelStep

\* Steps of other sessions change nothing here.
LEMMA Stutter ==
  ASSUME Inv, UNCHANGED vars
  PROVE  StepOK
<1>1. UNCHANGED <<ch, timeoutRuns, expirationRuns, heartbeat, heartbeatStop,
                  gcChan, collected, maps, mapChan, app, mapsRead, closes,
                  terminates, terminating, req, link, received, left>>
  BY DEF vars, otherVars, clientVars, timerVars, stopVars, mapVars, appVars,
         termVars
<1>2. EnvironmentOK'
  BY <1>1 DEF Inv, EnvironmentOK
<1> QED
  BY <1>1, <1>2, EnvironmentStep

\* Every step keeps the invariant and the two action properties.
LEMMA Step ==
  ASSUME Inv, [Next]_vars
  PROVE  StepOK
<1>1. ASSUME NEW b \in BackChannels, NEW chunked \in BOOLEAN,
             OpenBackChannel(b, chunked)
      PROVE  StepOK
  BY <1>1, OpenBackChannelStep
<1>2. ASSUME NEW b \in BackChannels, ReadState(b)
      PROVE  StepOK
  BY <1>2, ReadStateStep
<1>3. ASSUME NEW b \in BackChannels, AcknowledgeGet(b)
      PROVE  StepOK
  BY <1>3, AcknowledgeGetStep
<1>4. ASSUME NEW b \in BackChannels, UnknownSid(b)
      PROVE  StepOK
  BY <1>4, UnknownSidStep
<1>5. ASSUME NEW b \in BackChannels, SetBackChannelCall(b)
      PROVE  StepOK
  BY <1>5, SetBackChannelStep
<1>6. ASSUME NEW b \in BackChannels, WaitWrites(b)
      PROVE  StepOK
  BY <1>6, WaitWritesStep
<1>7. ASSUME NEW b \in BackChannels, WaitReturns(b)
      PROVE  StepOK
  BY <1>7, WaitReturnsStep
<1>8. CASE LoseLink \/ Leave
  BY <1>8, ClientLeavesStep
<1>9. ASSUME NEW i \in 1..Len(received), AcknowledgePost(received[i])
      PROVE  StepOK
  BY <1>9, AcknowledgePostStep
<1>10. ASSUME NEW offset \in 0..(MaxMaps - 1), NEW n \in 1..(MaxMaps - offset),
              ReceiveMaps(offset, n)
       PROVE  StepOK
  BY <1>10, ReceiveMapsStep
<1>11. CASE DequeueMap
  BY <1>11, DequeueMapStep
<1>12. CASE FindTerminated \/ Terminate \/ ChannelTimeoutRuns
  BY <1>12, TerminateCallsStep
<1>13. CASE StopHeartbeat
  BY <1>13, StopHeartbeatStep
<1>14. CASE SendToGc
  BY <1>14, SendToGcStep
<1>15. CASE RemoveClosedSession
  BY <1>15, RemoveClosedSessionStep
<1>16. CASE ChannelTimeoutFires \/ ExpirationFires
  BY <1>16, TimerFiresStep
<1>17. CASE ExpirationRuns
  BY <1>17, ExpirationRunsStep
<1>18. CASE HeartbeatTick \/ HeartbeatSends \/ HeartbeatStops
  BY <1>18, HeartbeatStep
<1>19. CASE AppReadsMap \/ AppReturns \/ AppCallsSendArray \/ AppCallsClose
  BY <1>19, AppStepOK
<1>20. ASSUME NEW e \in Payloads, AppSendsArray(e)
       PROVE  StepOK
  BY <1>20, AppSendsArrayStep
<1>21. CASE AppCloses
  BY <1>21, AppClosesStep
<1>22. CASE UNCHANGED vars
  BY <1>22, Stutter
<1> QED
  BY <1>1, <1>2, <1>3, <1>4, <1>5, <1>6, <1>7, <1>8, <1>9, <1>10, <1>11, <1>12,
     <1>13, <1>14, <1>15, <1>16, <1>17, <1>18, <1>19, <1>20, <1>21, <1>22
  DEF Next

-----------------------------------------------------------------------------
(***************************************************************************)
(* The theorems.                                                           *)
(***************************************************************************)

\* The invariant holds in every reachable state.
THEOREM Invariance == Spec => []Inv
<1>1. Inv /\ [Next]_vars => Inv'
  BY Step DEF StepOK
<1> QED
  BY InitInv, <1>1, PTL DEF Spec

\* Every variable keeps its type; in particular heartbeatStop and gcChan never
\* hold more values than the Go channels have room for.
THEOREM TypeCorrect == Spec => []TypeOK
<1>1. Inv => TypeOK
  BY DEF Inv, Guarded, Consistent, EnvironmentOK, TypeOK
<1> QED
  BY <1>1, Invariance, PTL

\* outgoingArrays is always the consecutive ids up to lastArrayId, and what was
\* not sent is in it, so the slice that flush takes (channel.go:134) is in
\* range, whatever the acknowledgments, the sends that fail and the resets of
\* lastSentArrayId.
THEOREM WindowKept == Spec => []OutgoingWindow
<1>1. Inv => OutgoingWindow
  BY DEF Inv, Guarded, Consistent, OutgoingWindow
<1> QED
  BY <1>1, Invariance, PTL

\* Whoever gets the lock of a channel that is not closed finds one of its two
\* timers set, and the right one: the Stop of setBackChannel is never of a nil
\* timer, and a session the client left is not kept forever.
THEOREM TimersDisciplined == Spec => []TimerDiscipline
<1>1. Inv => TimerDiscipline
  BY DEF Inv, Guarded, TimerDiscipline, LockFree
<1> QED
  BY <1>1, Invariance, PTL

\* mapChan is closed exactly when the channel is, for whoever gets the lock.
THEOREM MapChanClosedOnce == Spec => []MapChanLifecycle
<1>1. Inv => MapChanLifecycle
  BY DEF Inv, Guarded, MapChanLifecycle, LockFree
<1> QED
  BY <1>1, Invariance, PTL

\* lastSentArrayId never goes back, although setBackChannel resets it to the
\* last acknowledged id before it flushes.
THEOREM LastSentMonotone == Spec => LastSentNeverDecreases
<1>1. Inv /\ [Next]_vars => [ch'.lastSentArrayId >= ch.lastSentArrayId]_vars
  <2> SUFFICES ASSUME Inv, [Next]_vars
               PROVE  ch'.lastSentArrayId >= ch.lastSentArrayId
    OBVIOUS
  <2>1. StepOK
    BY Step
  <2>2. ch.lastSentArrayId \in Int /\ ch'.lastSentArrayId \in Int
    BY <2>1 DEF StepOK, Inv, Guarded, Consistent, ChannelRecord
  <2> QED
    BY <2>1, <2>2 DEF StepOK
<1> QED
  BY <1>1, Invariance, PTL DEF Spec, LastSentNeverDecreases

\* No request, timer, heartbeat or map ever makes the program panic on mapChan
\* or on a timer: only an application that calls Close on a channel that is
\* already closed does.
THEOREM PanicsOnlyInClose == Spec => OnlyClosePanics
<1>1. Inv /\ [Next]_vars =>
        [Running /\ ch'.lock = "panicked" => app \in {"closing", "inClose"}]_vars
  BY Step DEF StepOK
<1> QED
  BY <1>1, Invariance, PTL DEF Spec, OnlyClosePanics
=============================================================================
