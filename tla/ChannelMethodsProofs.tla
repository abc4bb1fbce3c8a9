------------------------ MODULE ChannelMethodsProofs ------------------------
(***************************************************************************)
(* Lemmas about the methods of a channel: what each does to a record that  *)
(* satisfies what the holder of the lock may rely on (Sound).  The proofs  *)
(* about Channel and about Handler rest on them.                           *)
(***************************************************************************)
EXTENDS ChannelMethods, FiniteSetTheorems, TLAPS

\* send keeps the type of a back channel.
LEMMA SendType ==
  ASSUME NEW bc \in BackChannelRecord(OutgoingArray),
         NEW data \in Seq(OutgoingArray)
  PROVE  Send(bc, data) \in BackChannelRecord(OutgoingArray)
<1>1. Append(bc.dataChan, data) \in Seq(Seq(OutgoingArray))
  BY DEF BackChannelRecord
<1>2. bc.bytesSent + Len(data) \in Nat
  <2>1. Len(data) \in Nat
    OBVIOUS
  <2> QED
    BY <2>1 DEF BackChannelRecord
<1>3. [bc EXCEPT !.dataChan = Append(@, data), !.bytesSent = @ + Len(data)]
        \in BackChannelRecord(OutgoingArray)
  BY <1>1, <1>2 DEF BackChannelRecord
<1>4. [bc EXCEPT !.err = TRUE] \in BackChannelRecord(OutgoingArray)
  BY DEF BackChannelRecord
<1> QED
  BY <1>3, <1>4 DEF Send

\* discard keeps the type.
LEMMA DiscardType ==
  ASSUME NEW bc \in BackChannelRecord(OutgoingArray)
  PROVE  Discard(bc) \in BackChannelRecord(OutgoingArray)
BY DEF Discard, BackChannelRecord

\* newBackChannel and setChunked return a back channel record.
LEMMA NewBackChannelType ==
  ASSUME NEW chunked \in BOOLEAN
  PROVE  NewBackChannel(chunked) \in BackChannelRecord(OutgoingArray)
BY DEF NewBackChannel, BackChannelRecord

\* What flush marshals is a sequence of outgoing arrays, empty on an error.
LEMMA MarshalType ==
  ASSUME NEW arrays \in Seq(OutgoingArray)
  PROVE  Marshal(arrays) \in Seq(OutgoingArray)
BY DEF Marshal

\* queueArray keeps the type of the channel.
LEMMA QueueArrayType ==
  ASSUME NEW c \in ChannelRecord, NEW e \in Elements
  PROVE  QueueArray(c, e) \in ChannelRecord
<1>1. [index |-> c.lastArrayId + 1, elements |-> e] \in OutgoingArray
  BY DEF ChannelRecord, OutgoingArray
<1>2. /\ c.lastArrayId + 1 \in Nat
      /\ Append(c.outgoingArrays,
                [index |-> c.lastArrayId + 1, elements |-> e]) \in Seq(OutgoingArray)
  BY <1>1 DEF ChannelRecord
<1> QED
  BY <1>2 DEF QueueArray, ChannelRecord

\* clearBackChannel keeps the type of the channel.
LEMMA ClearBackChannelType ==
  ASSUME NEW c \in ChannelRecord, NEW permanent \in BOOLEAN
  PROVE  ClearBackChannel(c, permanent) \in ChannelRecord
<1>1. CASE c.backChannel = None
  BY <1>1 DEF ClearBackChannel
<1>2. CASE c.backChannel # None
  <2>1. c.backChannel \in BackChannels
    BY <1>2 DEF ChannelRecord
  <2>2. Discard(c.bcs[c.backChannel]) \in BackChannelRecord(OutgoingArray)
    BY <2>1, DiscardType DEF ChannelRecord
  <2> QED
    BY <1>2, <2>1, <2>2 DEF ClearBackChannel, ChannelRecord, Timers
<1> QED
  BY <1>1, <1>2

-----------------------------------------------------------------------------
(***************************************************************************)
(* The methods.                                                            *)
(***************************************************************************)

\* Every array in a data channel has an id of at most n.
SentUpTo(c, n) ==
  \A b \in BackChannels :
    \A k \in 1..Len(c.bcs[b].dataChan) :
      \A i \in 1..Len(c.bcs[b].dataChan[k]) : c.bcs[b].dataChan[k][i].index <= n

\* The data channels hold the same chunks.
SameData(c, d) == \A b \in BackChannels : d.bcs[b].dataChan = c.bcs[b].dataChan

\* queueArray appends the next id, so the window stays consecutive.
LEMMA QueueArrayWindow ==
  ASSUME NEW c \in ChannelRecord, Window(c), NEW e \in Elements
  PROVE  /\ Window(QueueArray(c, e))
         /\ QueueArray(c, e).lastArrayId = c.lastArrayId + 1
         /\ Len(QueueArray(c, e).outgoingArrays) = Len(c.outgoingArrays) + 1
<1> DEFINE a == [index |-> c.lastArrayId + 1, elements |-> e]
           d == QueueArray(c, e)
<1>1. /\ d.outgoingArrays = Append(c.outgoingArrays, a)
      /\ d.lastArrayId = c.lastArrayId + 1
      /\ d.lastSentArrayId = c.lastSentArrayId
  BY DEF QueueArray, ChannelRecord
<1>2. /\ c.outgoingArrays \in Seq(OutgoingArray)
      /\ Len(c.outgoingArrays) \in Nat
      /\ c.lastArrayId \in Nat
      /\ c.lastSentArrayId \in Int
  BY DEF ChannelRecord
<1> HIDE DEF d
<1>3. /\ Len(d.outgoingArrays) = Len(c.outgoingArrays) + 1
      /\ \A i \in 1..Len(c.outgoingArrays) :
           d.outgoingArrays[i] = c.outgoingArrays[i]
      /\ d.outgoingArrays[Len(c.outgoingArrays) + 1] = a
  BY <1>1, <1>2
<1>4. \A i \in 1..Len(d.outgoingArrays) :
        d.outgoingArrays[i].index = d.lastArrayId - Len(d.outgoingArrays) + i
  <2> SUFFICES ASSUME NEW i \in 1..Len(d.outgoingArrays)
               PROVE  d.outgoingArrays[i].index
                        = d.lastArrayId - Len(d.outgoingArrays) + i
    OBVIOUS
  <2>1. d.lastArrayId - Len(d.outgoingArrays) = c.lastArrayId - Len(c.outgoingArrays)
    BY <1>1, <1>2, <1>3
  <2>2. CASE i \in 1..Len(c.outgoingArrays)
    <3>1. d.outgoingArrays[i] = c.outgoingArrays[i]
      BY <1>3, <2>2
    <3> QED
      BY <2>1, <2>2, <3>1 DEF Window
  <2>3. CASE i = Len(c.outgoingArrays) + 1
    <3>1. d.outgoingArrays[i].index = c.lastArrayId + 1
      BY <1>3, <2>3
    <3> QED
      BY <1>2, <2>1, <2>3, <3>1
  <2> QED
    BY <1>2, <1>3, <2>2, <2>3
<1>5. /\ d.lastSentArrayId <= d.lastArrayId
      /\ d.lastArrayId - Len(d.outgoingArrays) <= d.lastSentArrayId
  BY <1>1, <1>2, <1>3 DEF Window
<1> QED
  BY <1>1, <1>3, <1>4, <1>5 DEF Window, d

\* queueArray changes outgoingArrays and lastArrayId only.
LEMMA QueueArrayFrame ==
  ASSUME NEW c \in ChannelRecord, NEW e \in Elements
  PROVE  LET d == QueueArray(c, e)
         IN  /\ d.state = c.state
             /\ d.backChannel = c.backChannel
             /\ d.bcs = c.bcs
             /\ d.lastSentArrayId = c.lastSentArrayId
             /\ d.channelTimeout = c.channelTimeout
             /\ d.backChannelExpiration = c.backChannelExpiration
             /\ d.mapChanClosed = c.mapChanClosed
             /\ d.lock = c.lock
BY DEF QueueArray, ChannelRecord

\* clearBackChannel leaves no back channel, touches no data, and unless it is
\* permanent hands the session over to the channel timeout.
LEMMA ClearBackChannelFrame ==
  ASSUME NEW c \in ChannelRecord, NEW permanent \in BOOLEAN
  PROVE  LET d == ClearBackChannel(c, permanent)
         IN  /\ d.state = c.state
             /\ d.backChannel = None
             /\ SameData(c, d)
             /\ d.outgoingArrays = c.outgoingArrays
             /\ d.lastArrayId = c.lastArrayId
             /\ d.lastSentArrayId = c.lastSentArrayId
             /\ d.mapChanClosed = c.mapChanClosed
             /\ d.lock = c.lock
             /\ ~permanent /\ Timed(c) => Timed(d)
<1>1. CASE c.backChannel = None
  BY <1>1 DEF ClearBackChannel, SameData
<1>2. CASE c.backChannel # None
  <2>1. c.backChannel \in BackChannels
    BY <1>2 DEF ChannelRecord
  <2> DEFINE d == ClearBackChannel(c, permanent)
  <2>2. /\ d.state = c.state
        /\ d.backChannel = None
        /\ d.outgoingArrays = c.outgoingArrays
        /\ d.lastArrayId = c.lastArrayId
        /\ d.lastSentArrayId = c.lastSentArrayId
        /\ d.mapChanClosed = c.mapChanClosed
        /\ d.lock = c.lock
        /\ d.backChannelExpiration = "nil"
        /\ ~permanent => d.channelTimeout = "armed"
        /\ d.bcs = [c.bcs EXCEPT ![c.backChannel] = Discard(@)]
    BY <1>2 DEF ClearBackChannel, ChannelRecord
  <2>3. SameData(c, d)
    BY <2>1, <2>2 DEF SameData, Discard, ChannelRecord, BackChannelRecord
  <2> QED
    BY <2>2, <2>3 DEF Timed
<1> QED
  BY <1>1, <1>2

\* terminateInternal closes mapChan when that is still to be done, without a
\* panic, and blocks on heartbeatStop.
LEMMA TerminateInternalProperties ==
  ASSUME NEW c \in ChannelRecord, c.lock = "free",
         c.state \in {"init", "ready"} => ~c.mapChanClosed
  PROVE  LET d == TerminateInternal(c)
         IN  /\ d \in ChannelRecord
             /\ d.lock = "heartbeatStop"
             /\ d.mapChanClosed = IF c.state \in {"init", "ready"}
                                    THEN TRUE ELSE c.mapChanClosed
             /\ SameData(c, d)
             /\ d.outgoingArrays = c.outgoingArrays
             /\ d.lastArrayId = c.lastArrayId
             /\ d.lastSentArrayId = c.lastSentArrayId
             /\ d.state = c.state
<1> DEFINE e == IF c.state \in {"init", "ready"} THEN CloseMapChan(c) ELSE c
<1>1. /\ e \in ChannelRecord
      /\ e.lock = "free"
      /\ e.mapChanClosed = IF c.state \in {"init", "ready"}
                             THEN TRUE ELSE c.mapChanClosed
      /\ e.bcs = c.bcs
      /\ e.outgoingArrays = c.outgoingArrays
      /\ e.lastArrayId = c.lastArrayId
      /\ e.lastSentArrayId = c.lastSentArrayId
      /\ e.state = c.state
  BY DEF CloseMapChan, ChannelRecord
<1> DEFINE f == ClearBackChannel(e, TRUE)
<1>2. f \in ChannelRecord
  BY <1>1, ClearBackChannelType
<1>3. /\ f.state = e.state
      /\ SameData(e, f)
      /\ f.outgoingArrays = e.outgoingArrays
      /\ f.lastArrayId = e.lastArrayId
      /\ f.lastSentArrayId = e.lastSentArrayId
      /\ f.mapChanClosed = e.mapChanClosed
  BY <1>1, ClearBackChannelFrame
<1>4. TerminateInternal(c) = [f EXCEPT !.lock = "heartbeatStop"]
  BY <1>1 DEF TerminateInternal
<1> HIDE DEF f
<1>5. [f EXCEPT !.lock = "heartbeatStop"] \in ChannelRecord
  BY <1>2 DEF ChannelRecord, Locks
<1>6. LET d == [f EXCEPT !.lock = "heartbeatStop"]
      IN  /\ d.lock = "heartbeatStop"
          /\ d.mapChanClosed = f.mapChanClosed
          /\ d.bcs = f.bcs
          /\ d.outgoingArrays = f.outgoingArrays
          /\ d.lastArrayId = f.lastArrayId
          /\ d.lastSentArrayId = f.lastSentArrayId
          /\ d.state = f.state
  BY <1>2 DEF ChannelRecord
<1> HIDE DEF e
<1>7. SameData(c, f)
  BY <1>1, <1>3 DEF SameData
<1>8. SameData(c, [f EXCEPT !.lock = "heartbeatStop"])
  BY <1>6, <1>7 DEF SameData
<1>9. f.mapChanClosed = IF c.state \in {"init", "ready"}
                          THEN TRUE ELSE c.mapChanClosed
  BY <1>1, <1>3
<1> QED
  BY <1>1, <1>3, <1>4, <1>5, <1>6, <1>8, <1>9

\* The slice that flush marshals is in range and holds only queued arrays.
LEMMA UnsentProperties ==
  ASSUME NEW c \in ChannelRecord, Window(c)
  PROVE  /\ Unsent(c) \in Seq(OutgoingArray)
         /\ \A i \in 1..Len(Unsent(c)) : Unsent(c)[i].index <= c.lastArrayId
<1> DEFINE out == c.outgoingArrays
           next == Len(out) - (c.lastArrayId - c.lastSentArrayId)
<1>1. /\ out \in Seq(OutgoingArray)
      /\ Len(out) \in Nat
      /\ c.lastArrayId \in Nat
      /\ c.lastSentArrayId \in Int
  BY DEF ChannelRecord
<1>2. next \in 0..Len(out)
  BY <1>1 DEF Window
<1>3. Unsent(c) = SubSeq(out, next + 1, Len(out))
  BY DEF Unsent
<1>4. /\ Unsent(c) \in Seq(OutgoingArray)
      /\ Len(Unsent(c)) = Len(out) - next
      /\ \A i \in 1..Len(Unsent(c)) : Unsent(c)[i] = out[next + i]
  <2> HIDE DEF out, next
  <2> QED
    BY <1>1, <1>2, <1>3
<1>5. ASSUME NEW i \in 1..Len(Unsent(c))
      PROVE  Unsent(c)[i].index <= c.lastArrayId
  <2>1. next + i \in 1..Len(out)
    BY <1>1, <1>2, <1>4
  <2>2. out[next + i].index = c.lastArrayId - Len(out) + (next + i)
    BY <2>1 DEF Window
  <2>3. Unsent(c)[i] = out[next + i]
    BY <1>4
  <2> HIDE DEF out, next
  <2> QED
    BY <1>1, <1>2, <2>1, <2>2, <2>3
<1> QED
  BY <1>4, <1>5

\* The send of flush advances lastSentArrayId to lastArrayId or fails.
LEMMA SendUnsentProperties ==
  ASSUME NEW c \in ChannelRecord, Window(c), c.backChannel # None
  PROVE  LET d == SendUnsent(c)
         IN  /\ d \in ChannelRecord
             /\ Window(d)
             /\ d.state = c.state
             /\ d.backChannel = c.backChannel
             /\ d.outgoingArrays = c.outgoingArrays
             /\ d.lastArrayId = c.lastArrayId
             /\ d.lastSentArrayId = IF CanSend(c.bcs[c.backChannel])
                                      THEN c.lastArrayId ELSE c.lastSentArrayId
             /\ d.channelTimeout = c.channelTimeout
             /\ d.backChannelExpiration = c.backChannelExpiration
             /\ d.mapChanClosed = c.mapChanClosed
             /\ d.lock = c.lock
<1> DEFINE b == c.backChannel
           d == SendUnsent(c)
<1>1. b \in BackChannels /\ c.bcs[b] \in BackChannelRecord(OutgoingArray)
  BY DEF ChannelRecord
<1>2. Send(c.bcs[b], Marshal(Unsent(c))) \in BackChannelRecord(OutgoingArray)
  BY <1>1, UnsentProperties, MarshalType, SendType
<1>3. /\ d.bcs = [c.bcs EXCEPT ![b] = Send(@, Marshal(Unsent(c)))]
      /\ d.lastSentArrayId = IF CanSend(c.bcs[b])
                               THEN c.lastArrayId ELSE c.lastSentArrayId
      /\ d = [c EXCEPT !.bcs = d.bcs, !.lastSentArrayId = d.lastSentArrayId]
  BY DEF SendUnsent, ChannelRecord
<1>4. d.bcs \in [BackChannels -> BackChannelRecord(OutgoingArray)]
  BY <1>1, <1>2, <1>3 DEF ChannelRecord
<1>5. d.lastSentArrayId \in Int
  BY <1>3 DEF ChannelRecord
<1> HIDE DEF d
<1>6. d \in ChannelRecord
  BY <1>3, <1>4, <1>5 DEF ChannelRecord
<1>7. /\ d.state = c.state
      /\ d.backChannel = c.backChannel
      /\ d.outgoingArrays = c.outgoingArrays
      /\ d.lastArrayId = c.lastArrayId
      /\ d.channelTimeout = c.channelTimeout
      /\ d.backChannelExpiration = c.backChannelExpiration
      /\ d.mapChanClosed = c.mapChanClosed
      /\ d.lock = c.lock
  BY <1>3 DEF ChannelRecord
<1>8. Window(d)
  BY <1>3, <1>7 DEF Window, ChannelRecord
<1> QED
  BY <1>3, <1>6, <1>7, <1>8 DEF d

\* What the send of flush puts into a data channel was queued.
LEMMA SendUnsentData ==
  ASSUME NEW c \in ChannelRecord, Window(c), c.backChannel # None,
         SentUpTo(c, c.lastArrayId)
  PROVE  /\ CanSend(c.bcs[c.backChannel]) => SentUpTo(SendUnsent(c), c.lastArrayId)
         /\ ~CanSend(c.bcs[c.backChannel]) => SameData(c, SendUnsent(c))
<1> DEFINE b == c.backChannel
           d == SendUnsent(c)
           data == Marshal(Unsent(c))
<1>1. b \in BackChannels /\ c.bcs[b] \in BackChannelRecord(OutgoingArray)
  BY DEF ChannelRecord
<1>2. /\ data \in Seq(OutgoingArray)
      /\ \A i \in 1..Len(data) : data[i].index <= c.lastArrayId
  BY UnsentProperties, MarshalType DEF Marshal
<1>3. d.bcs = [c.bcs EXCEPT ![b] = Send(@, data)]
  BY DEF SendUnsent, ChannelRecord
<1> HIDE DEF d, data
<1>4. \A x \in BackChannels :
        d.bcs[x] = IF x = b THEN Send(c.bcs[b], data) ELSE c.bcs[x]
  BY <1>1, <1>3 DEF ChannelRecord
<1>5. CASE CanSend(c.bcs[b])
  <2> SUFFICES ASSUME NEW x \in BackChannels,
                      NEW k \in 1..Len(d.bcs[x].dataChan),
                      NEW i \in 1..Len(d.bcs[x].dataChan[k])
               PROVE  d.bcs[x].dataChan[k][i].index <= c.lastArrayId
    BY <1>5 DEF SentUpTo, d
  <2>1. CASE x # b
    BY <1>4, <2>1 DEF SentUpTo
  <2>2. CASE x = b
    <3> DEFINE q == c.bcs[b].dataChan
    <3>1. d.bcs[x].dataChan = Append(q, data)
      BY <1>1, <1>4, <1>5, <2>2 DEF Send, BackChannelRecord
    <3>2. q \in Seq(Seq(OutgoingArray))
      BY <1>1 DEF BackChannelRecord
    <3>3. /\ k \in 1..(Len(q) + 1)
          /\ d.bcs[x].dataChan[k] = IF k = Len(q) + 1 THEN data ELSE q[k]
      <4> HIDE DEF q
      <4>1. /\ Len(Append(q, data)) = Len(q) + 1
            /\ k \in 1..Len(Append(q, data))
            /\ Append(q, data)[k] = IF k = Len(q) + 1 THEN data ELSE q[k]
        BY <1>2, <3>1, <3>2
      <4> QED
        BY <3>1, <4>1
    <3>4. CASE k = Len(q) + 1
      BY <1>2, <3>3, <3>4
    <3>5. CASE k # Len(q) + 1
      <4>1. k \in 1..Len(q) /\ d.bcs[x].dataChan[k] = q[k]
        BY <3>2, <3>3, <3>5
      <4> QED
        BY <1>1, <4>1 DEF SentUpTo
    <3> QED
      BY <3>4, <3>5
  <2> QED
    BY <2>1, <2>2
<1>6. CASE ~CanSend(c.bcs[b])
  BY <1>1, <1>4, <1>6 DEF Send, SameData, BackChannelRecord, d
<1> QED
  BY <1>5, <1>6 DEF d

\* The arrays sent are below n, or the flush to come sends everything.
WillCover(c, n) ==
  \/ n <= c.lastSentArrayId
  \/ /\ c.backChannel # None
     /\ c.lastSentArrayId # c.lastArrayId
     /\ CanSend(c.bcs[c.backChannel])

\* A larger bound on the ids sent is a bound too.
LEMMA SentUpToMonotone ==
  ASSUME NEW c \in ChannelRecord, NEW m \in Int, NEW n \in Int, m <= n,
         SentUpTo(c, m)
  PROVE  SentUpTo(c, n)
<1> SUFFICES ASSUME NEW b \in BackChannels,
                    NEW k \in 1..Len(c.bcs[b].dataChan),
                    NEW i \in 1..Len(c.bcs[b].dataChan[k])
             PROVE  c.bcs[b].dataChan[k][i].index <= n
  BY DEF SentUpTo
<1>1. c.bcs[b].dataChan \in Seq(Seq(OutgoingArray))
  BY DEF ChannelRecord, BackChannelRecord
<1>2. c.bcs[b].dataChan[k] \in Seq(OutgoingArray)
  BY <1>1
<1>3. c.bcs[b].dataChan[k][i].index \in Nat
  <2>1. c.bcs[b].dataChan[k][i] \in OutgoingArray
    BY <1>2
  <2> QED
    BY <2>1 DEF OutgoingArray
<1>4. c.bcs[b].dataChan[k][i].index <= m
  BY DEF SentUpTo
<1> QED
  BY <1>3, <1>4

\* The ids sent depend on the data channels only.
LEMMA SameDataSentUpTo ==
  ASSUME NEW c, NEW d, NEW n, SameData(c, d), SentUpTo(c, n)
  PROVE  SentUpTo(d, n)
BY DEF SameData, SentUpTo

\* After a send, flush keeps the queue; it either frees the lock with a timer
\* set, or terminates a channel whose application has closed it.
LEMMA AfterSendProperties ==
  ASSUME NEW c \in ChannelRecord, c.lock = "free", NEW sent \in BOOLEAN
  PROVE  LET d == AfterSend(c, sent)
         IN  /\ d \in ChannelRecord
             /\ SameData(c, d)
             /\ d.state = c.state
             /\ d.outgoingArrays = c.outgoingArrays
             /\ d.lastArrayId = c.lastArrayId
             /\ d.lastSentArrayId = c.lastSentArrayId
             /\ d.mapChanClosed = c.mapChanClosed
             /\ \/ d.lock = "free" /\ (Timed(c) => Timed(d))
                \/ d.lock = "heartbeatStop" /\ c.state = "writeClosed"
<1>1. CASE sent /\ c.state = "writeClosed"
  <2>1. AfterSend(c, sent) = TerminateInternal(c)
    BY <1>1 DEF AfterSend
  <2> QED
    BY <1>1, <2>1, TerminateInternalProperties
<1>2. CASE /\ ~(sent /\ c.state = "writeClosed")
           /\ ~IsReusable(c.bcs[c.backChannel]) \/ Len(c.outgoingArrays) > ArrayLimit
  <2>1. AfterSend(c, sent) = ClearBackChannel(c, FALSE)
    BY <1>2 DEF AfterSend
  <2> QED
    BY <2>1, ClearBackChannelType, ClearBackChannelFrame
<1>3. CASE /\ ~(sent /\ c.state = "writeClosed")
           /\ ~(~IsReusable(c.bcs[c.backChannel]) \/ Len(c.outgoingArrays) > ArrayLimit)
  <2>1. AfterSend(c, sent) = c
    BY <1>3 DEF AfterSend
  <2> QED
    BY <2>1 DEF SameData
<1> QED
  BY <1>1, <1>2, <1>3

\* flush covers everything sent before, never lowers lastSentArrayId, and ends
\* either with a timer set or in the termination of a closing channel.
LEMMA FlushProperties ==
  ASSUME NEW c \in ChannelRecord, Window(c), c.lock = "free",
         NEW n \in Int, n <= c.lastArrayId, SentUpTo(c, n), WillCover(c, n)
  PROVE  LET d == Flush(c)
         IN  /\ d \in ChannelRecord
             /\ Window(d)
             /\ SentUpTo(d, d.lastSentArrayId)
             /\ n <= d.lastSentArrayId
             /\ c.lastSentArrayId <= d.lastSentArrayId
             /\ d.state = c.state
             /\ d.lastArrayId = c.lastArrayId
             /\ d.mapChanClosed = c.mapChanClosed
             /\ \/ d.lock = "free" /\ (Timed(c) => Timed(d))
                \/ d.lock = "heartbeatStop" /\ c.state = "writeClosed"
<1>0. c.lastArrayId \in Nat /\ c.lastSentArrayId \in Int
  BY DEF ChannelRecord
<1>1. CASE c.backChannel = None \/ c.lastArrayId = c.lastSentArrayId
  <2>1. Flush(c) = c
    BY <1>1 DEF Flush
  <2>2. n <= c.lastSentArrayId
    BY <1>1 DEF WillCover
  <2>3. SentUpTo(c, c.lastSentArrayId)
    BY <1>0, <2>2, SentUpToMonotone
  <2> QED
    BY <1>0, <2>1, <2>2, <2>3
<1>2. CASE ~(c.backChannel = None \/ c.lastArrayId = c.lastSentArrayId)
  <2> DEFINE e == SendUnsent(c)
             sent == CanSend(c.bcs[c.backChannel])
             d == AfterSend(e, sent)
  <2>1. Flush(c) = d
    BY <1>2 DEF Flush
  <2>2. /\ e \in ChannelRecord
        /\ Window(e)
        /\ e.state = c.state
        /\ e.lastArrayId = c.lastArrayId
        /\ e.lastSentArrayId = IF sent THEN c.lastArrayId ELSE c.lastSentArrayId
        /\ e.mapChanClosed = c.mapChanClosed
        /\ e.lock = "free"
        /\ Timed(c) => Timed(e)
    BY <1>2, SendUnsentProperties DEF Timed
  <2>3. sent \in BOOLEAN
    BY DEF CanSend
  <2>4. c.lastSentArrayId <= e.lastSentArrayId /\ n <= e.lastSentArrayId
    BY <1>0, <1>2, <2>2 DEF Window, WillCover
  <2>5. SentUpTo(e, e.lastSentArrayId)
    <3>1. SentUpTo(c, c.lastArrayId)
      BY <1>0, SentUpToMonotone
    <3>2. CASE sent
      BY <1>2, <2>2, <3>1, <3>2, SendUnsentData
    <3>3. CASE ~sent
      <4>1. SameData(c, e)
        BY <1>2, <3>1, <3>3, SendUnsentData
      <4>2. SentUpTo(e, n)
        BY <4>1, SameDataSentUpTo
      <4> QED
        BY <2>2, <2>4, <4>2, SentUpToMonotone DEF ChannelRecord
    <3> QED
      BY <3>2, <3>3
  <2>6. /\ d \in ChannelRecord
        /\ SameData(e, d)
        /\ d.state = e.state
        /\ d.outgoingArrays = e.outgoingArrays
        /\ d.lastArrayId = e.lastArrayId
        /\ d.lastSentArrayId = e.lastSentArrayId
        /\ d.mapChanClosed = e.mapChanClosed
        /\ \/ d.lock = "free" /\ (Timed(e) => Timed(d))
           \/ d.lock = "heartbeatStop" /\ e.state = "writeClosed"
    BY <2>2, <2>3, AfterSendProperties
  <2>7. SentUpTo(d, d.lastSentArrayId)
    BY <2>5, <2>6, SameDataSentUpTo
  <2>8. Window(d)
    BY <2>2, <2>6 DEF Window
  <2> HIDE DEF e, d
  <2> QED
    BY <2>1, <2>2, <2>4, <2>6, <2>7, <2>8
<1> QED
  BY <1>1, <1>2

-----------------------------------------------------------------------------
(***************************************************************************)
(* The calls.  Sound is what the holder of the lock finds when it gets it, *)
(* except that Timed and MapChanMatches need not hold any more once it is  *)
(* blocked in terminateInternal.                                           *)
(***************************************************************************)
Consistent(c) ==
  /\ c \in ChannelRecord
  /\ Window(c)
  /\ SentUpTo(c, c.lastSentArrayId)

Sound(c) == Consistent(c) /\ Timed(c) /\ MapChanMatches(c)

\* SendArray leaves a channel in the state the next holder of the lock expects.
LEMMA SendArraySound ==
  ASSUME NEW c, Sound(c), c.lock = "free", NEW e \in Elements
  PROVE  LET d == SendArray(c, e)
         IN  /\ Sound(d)
             /\ d.lock = "free"
             /\ c.lastSentArrayId <= d.lastSentArrayId
<1>0. c.lastArrayId \in Nat /\ c.lastSentArrayId \in Int
  BY DEF Sound, Consistent, ChannelRecord
<1>1. CASE c.state # "ready"
  BY <1>0, <1>1 DEF SendArray
<1>2. CASE c.state = "ready"
  <2> DEFINE q == QueueArray(c, e)
             d == Flush(q)
  <2>1. SendArray(c, e) = d
    BY <1>2 DEF SendArray
  <2>2. q \in ChannelRecord /\ Window(q)
    BY QueueArrayType, QueueArrayWindow DEF Sound, Consistent
  <2>3. /\ q.state = "ready"
        /\ q.lock = "free"
        /\ q.mapChanClosed = c.mapChanClosed
        /\ q.bcs = c.bcs
        /\ q.lastSentArrayId = c.lastSentArrayId
        /\ Timed(q)
    BY <1>2, QueueArrayFrame DEF Sound, Consistent, Timed
  <2>4. SentUpTo(q, c.lastSentArrayId)
    BY <2>3 DEF Sound, Consistent, SentUpTo
  <2>5. c.lastSentArrayId <= q.lastArrayId /\ WillCover(q, c.lastSentArrayId)
    BY <1>0, <2>2, <2>3 DEF Window, WillCover
  <2> HIDE DEF q
  <2>6. /\ d \in ChannelRecord
        /\ Window(d)
        /\ SentUpTo(d, d.lastSentArrayId)
        /\ c.lastSentArrayId <= d.lastSentArrayId
        /\ d.state = q.state
        /\ d.mapChanClosed = q.mapChanClosed
        /\ d.lock = "free" /\ Timed(d)
    BY <1>0, <2>2, <2>3, <2>4, <2>5, FlushProperties
  <2>7. MapChanMatches(d)
    BY <1>2, <2>3, <2>6 DEF Sound, MapChanMatches
  <2> QED
    BY <2>1, <2>6, <2>7 DEF Sound, Consistent
<1> QED
  BY <1>1, <1>2

\* Close up to the close of mapChan keeps the window, and a channel that was
\* not closed before keeps a timer unless it is terminated.
LEMMA CloseAndFlushProperties ==
  ASSUME NEW c, Sound(c), c.lock = "free"
  PROVE  LET d == CloseAndFlush(c)
         IN  /\ Consistent(d)
             /\ c.lastSentArrayId <= d.lastSentArrayId
             /\ d.state = "writeClosed"
             /\ d.mapChanClosed = c.mapChanClosed
             /\ \/ d.lock = "free" /\ (c.state # "closed" => Timed(d))
                \/ d.lock = "heartbeatStop"
<1> DEFINE w == [c EXCEPT !.state = "writeClosed"]
           q == QueueArray(w, "stop")
           d == Flush(q)
<1>1. CloseAndFlush(c) = d
  BY DEF CloseAndFlush
<1>2. /\ w \in ChannelRecord
      /\ w.state = "writeClosed"
      /\ w.lock = "free"
      /\ w.mapChanClosed = c.mapChanClosed
      /\ w.bcs = c.bcs
      /\ w.lastSentArrayId = c.lastSentArrayId
      /\ Window(w)
      /\ c.state # "closed" => Timed(w)
  BY DEF Sound, Consistent, ChannelRecord, States, Window, Timed
<1> HIDE DEF w
<1>3. "stop" \in Elements
  BY DEF Elements
<1>4. q \in ChannelRecord /\ Window(q)
  BY <1>2, <1>3, QueueArrayType, QueueArrayWindow
<1>5. /\ q.state = "writeClosed"
      /\ q.lock = "free"
      /\ q.mapChanClosed = c.mapChanClosed
      /\ q.bcs = c.bcs
      /\ q.lastSentArrayId = c.lastSentArrayId
      /\ c.state # "closed" => Timed(q)
  BY <1>2, <1>3, QueueArrayFrame DEF Timed
<1>6. SentUpTo(q, c.lastSentArrayId)
  BY <1>5 DEF Sound, Consistent, SentUpTo
<1>7. /\ c.lastSentArrayId \in Int
      /\ c.lastSentArrayId <= q.lastArrayId
      /\ WillCover(q, c.lastSentArrayId)
  BY <1>4, <1>5 DEF Window, WillCover, ChannelRecord
<1> HIDE DEF q
<1>8. /\ d \in ChannelRecord
      /\ Window(d)
      /\ SentUpTo(d, d.lastSentArrayId)
      /\ c.lastSentArrayId <= d.lastSentArrayId
      /\ d.state = q.state
      /\ d.mapChanClosed = q.mapChanClosed
      /\ \/ d.lock = "free" /\ (Timed(q) => Timed(d))
         \/ d.lock = "heartbeatStop"
  BY <1>4, <1>5, <1>6, <1>7, FlushProperties
<1> HIDE DEF d
<1> QED
  BY <1>1, <1>5, <1>8 DEF Consistent

\* terminateInternal, called on a channel nobody is changing, closes mapChan.
LEMMA TerminateInternalConsistent ==
  ASSUME NEW c, Sound(c), c.lock = "free"
  PROVE  LET d == TerminateInternal(c)
         IN  /\ Consistent(d)
             /\ d.lastSentArrayId = c.lastSentArrayId
             /\ d.lock = "heartbeatStop"
             /\ d.mapChanClosed
<1> DEFINE d == TerminateInternal(c)
<1>1. /\ c \in ChannelRecord
      /\ c.state \in {"init", "ready"} => ~c.mapChanClosed
  BY DEF Sound, Consistent, MapChanMatches
<1>2. /\ d \in ChannelRecord
      /\ d.lock = "heartbeatStop"
      /\ d.mapChanClosed = IF c.state \in {"init", "ready"}
                             THEN TRUE ELSE c.mapChanClosed
      /\ SameData(c, d)
      /\ d.outgoingArrays = c.outgoingArrays
      /\ d.lastArrayId = c.lastArrayId
      /\ d.lastSentArrayId = c.lastSentArrayId
  BY <1>1, TerminateInternalProperties
<1> HIDE DEF d
<1>3. d.mapChanClosed
  BY <1>2 DEF Sound, Consistent, MapChanMatches, ChannelRecord, States
<1>4. Window(d) /\ SentUpTo(d, d.lastSentArrayId)
  BY <1>2, SameDataSentUpTo DEF Sound, Consistent, Window
<1> QED
  BY <1>2, <1>3, <1>4 DEF Consistent, d

\* clearBackChannel leaves a channel as the next holder of the lock expects it.
LEMMA ClearBackChannelSound ==
  ASSUME NEW c, Sound(c), c.lock = "free"
  PROVE  LET d == ClearBackChannel(c, FALSE)
         IN  /\ Sound(d)
             /\ d.lock = "free"
             /\ d.state = c.state
             /\ d.backChannel = None
             /\ d.outgoingArrays = c.outgoingArrays
             /\ d.lastArrayId = c.lastArrayId
             /\ d.lastSentArrayId = c.lastSentArrayId
             /\ SameData(c, d)
<1> DEFINE d == ClearBackChannel(c, FALSE)
<1>1. /\ d \in ChannelRecord
      /\ d.state = c.state
      /\ d.backChannel = None
      /\ SameData(c, d)
      /\ d.outgoingArrays = c.outgoingArrays
      /\ d.lastArrayId = c.lastArrayId
      /\ d.lastSentArrayId = c.lastSentArrayId
      /\ d.mapChanClosed = c.mapChanClosed
      /\ d.lock = "free"
      /\ Timed(d)
  BY ClearBackChannelType, ClearBackChannelFrame DEF Sound, Consistent
<1> HIDE DEF d
<1>2. /\ Window(d)
      /\ SentUpTo(d, d.lastSentArrayId)
      /\ MapChanMatches(d)
  BY <1>1, SameDataSentUpTo DEF Sound, Consistent, Window, MapChanMatches
<1> QED
  BY <1>1, <1>2 DEF Sound, Consistent, d

\* acknowledgeArrays releases at most what was sent.
LEMMA AcknowledgeSound ==
  ASSUME NEW c, Sound(c), NEW aid \in Nat, aid <= c.lastSentArrayId
  PROVE  LET d == AcknowledgeArrays(c, aid)
         IN  /\ Sound(d)
             /\ d.lock = c.lock
             /\ d.lastSentArrayId = c.lastSentArrayId
<1> DEFINE out == c.outgoingArrays
           acked == {i \in 1..Len(out) : \A j \in 1..i : out[j].index <= aid}
           n == Cardinality(acked)
           d == AcknowledgeArrays(c, aid)
<1>1. /\ out \in Seq(OutgoingArray)
      /\ Len(out) \in Nat
      /\ c.lastArrayId \in Nat
      /\ c.lastSentArrayId \in Int
      /\ \A i \in 1..Len(out) : out[i].index = c.lastArrayId - Len(out) + i
      /\ c.lastArrayId - Len(out) <= c.lastSentArrayId
      /\ c.lastSentArrayId <= c.lastArrayId
  BY DEF Sound, Consistent, Window, ChannelRecord
<1> DEFINE k == c.lastSentArrayId - (c.lastArrayId - Len(out))
<1>2. k \in 0..Len(out)
  BY <1>1
<1>3. acked \subseteq 1..k
  <2> HIDE DEF out
  <2> SUFFICES ASSUME NEW i \in acked
               PROVE  i \in 1..k
    OBVIOUS
  <2>1. i \in 1..Len(out) /\ out[i].index <= aid
    OBVIOUS
  <2>2. c.lastArrayId - Len(out) + i <= c.lastSentArrayId
    BY <1>1, <2>1
  <2> QED
    BY <1>1, <2>1, <2>2
<1>4. n \in 0..k
  <2> HIDE DEF acked, k
  <2>1. IsFiniteSet(1..k) /\ Cardinality(1..k) = k
    BY <1>2, FS_Interval
  <2>2. IsFiniteSet(acked) /\ Cardinality(acked) <= k /\ Cardinality(acked) \in Nat
    BY <1>3, <2>1, FS_Subset, FS_CardinalityType
  <2> QED
    BY <1>2, <2>2
<1>5. d = [c EXCEPT !.outgoingArrays = SubSeq(out, n + 1, Len(out))]
  BY DEF AcknowledgeArrays, Acknowledged
<1> HIDE DEF out, acked, n, k
<1>6. /\ SubSeq(out, n + 1, Len(out)) \in Seq(OutgoingArray)
      /\ Len(SubSeq(out, n + 1, Len(out))) = Len(out) - n
      /\ \A i \in 1..(Len(out) - n) : SubSeq(out, n + 1, Len(out))[i] = out[n + i]
  BY <1>1, <1>2, <1>4
<1>7. /\ d \in ChannelRecord
      /\ d.outgoingArrays = SubSeq(out, n + 1, Len(out))
      /\ d.state = c.state
      /\ d.backChannel = c.backChannel
      /\ d.bcs = c.bcs
      /\ d.lastArrayId = c.lastArrayId
      /\ d.lastSentArrayId = c.lastSentArrayId
      /\ d.channelTimeout = c.channelTimeout
      /\ d.backChannelExpiration = c.backChannelExpiration
      /\ d.mapChanClosed = c.mapChanClosed
      /\ d.lock = c.lock
  BY <1>5, <1>6 DEF Sound, Consistent, ChannelRecord
<1> HIDE DEF d
<1>8. Window(d)
  <2>1. c.lastArrayId - (Len(out) - n) <= c.lastSentArrayId
    BY <1>1, <1>4 DEF k
  <2>2. \A i \in 1..(Len(out) - n) :
          out[n + i].index = c.lastArrayId - (Len(out) - n) + i
    BY <1>1, <1>2, <1>4
  <2> QED
    BY <1>1, <1>6, <1>7, <2>1, <2>2 DEF Window
<1>9. SentUpTo(d, d.lastSentArrayId) /\ Timed(d) /\ MapChanMatches(d)
  BY <1>7 DEF Sound, Consistent, SentUpTo, Timed, MapChanMatches
<1> QED
  BY <1>7, <1>8, <1>9 DEF Sound, Consistent, d

\* The first back channel makes the channel ready and queues one array.
LEMMA OpenChannelSound ==
  ASSUME NEW c, Sound(c), c.lock = "free"
  PROVE  LET d == OpenChannel(c)
         IN  /\ Sound(d)
             /\ d.lock = "free"
             /\ d.state = IF c.state = "init" THEN "ready" ELSE c.state
             /\ d.bcs = c.bcs
             /\ d.lastArrayId = IF c.state = "init" THEN c.lastArrayId + 1
                                                    ELSE c.lastArrayId
             /\ d.lastSentArrayId = c.lastSentArrayId
<1>1. CASE c.state # "init"
  BY <1>1 DEF OpenChannel
<1>2. CASE c.state = "init"
  <2> DEFINE q == QueueArray(c, "c")
             d == [q EXCEPT !.state = "ready"]
  <2>1. OpenChannel(c) = d
    BY <1>2 DEF OpenChannel
  <2>2. "c" \in Elements
    BY DEF Elements
  <2>3. q \in ChannelRecord /\ Window(q)
    BY <2>2, QueueArrayType, QueueArrayWindow DEF Sound, Consistent
  <2>4. /\ q.lock = "free"
        /\ q.mapChanClosed = c.mapChanClosed
        /\ q.bcs = c.bcs
        /\ q.lastSentArrayId = c.lastSentArrayId
        /\ q.lastArrayId = c.lastArrayId + 1
        /\ q.state = "init"
        /\ Timed(q)
    BY <1>2, <2>2, QueueArrayFrame, QueueArrayWindow DEF Sound, Consistent, Timed
  <2> HIDE DEF q
  <2>5. /\ d \in ChannelRecord
        /\ d.state = "ready"
        /\ d.lock = "free"
        /\ d.mapChanClosed = c.mapChanClosed
        /\ d.bcs = c.bcs
        /\ d.lastArrayId = c.lastArrayId + 1
        /\ d.lastSentArrayId = c.lastSentArrayId
        /\ Window(d)
        /\ Timed(d)
    BY <2>3, <2>4 DEF ChannelRecord, States, Window, Timed
  <2> HIDE DEF d
  <2>6. SentUpTo(d, d.lastSentArrayId) /\ MapChanMatches(d)
    BY <1>2, <2>5 DEF Sound, Consistent, SentUpTo, MapChanMatches
  <2> QED
    BY <1>2, <2>1, <2>5, <2>6 DEF Sound, Consistent
<1> QED
  BY <1>1, <1>2

\* setBackChannel never meets a nil timer, and the flush at its end makes up
\* for the reset of lastSentArrayId.
LEMMA SetBackChannelProperties ==
  ASSUME NEW c, Sound(c), c.lock = "free", NEW b \in BackChannels,
         c.bcs[b].dataChan = <<>>
  PROVE  LET d == SetBackChannel(c, b)
         IN  /\ Consistent(d)
             /\ d.state = IF c.state = "init" THEN "ready" ELSE c.state
             /\ c.lastSentArrayId <= d.lastSentArrayId
             /\ c.state # "closed" => d.lastSentArrayId = d.lastArrayId
             /\ c.state = "init" => 1 <= d.lastSentArrayId
             /\ \/ d.lock = "free" /\ Timed(d) /\ MapChanMatches(d)
                \/ d.lock = "heartbeatStop" /\ d.mapChanClosed
<1>0. c \in ChannelRecord /\ c.lastSentArrayId \in Int
  BY DEF Sound, Consistent, ChannelRecord
<1>1. CASE c.state = "closed"
  <2> DEFINE d == [c EXCEPT !.bcs[b] = Discard(@)]
  <2>1. SetBackChannel(c, b) = d
    BY <1>1 DEF SetBackChannel
  <2>2. Discard(c.bcs[b]) \in BackChannelRecord(OutgoingArray)
    BY <1>0, DiscardType DEF ChannelRecord
  <2>3. /\ d \in ChannelRecord
        /\ d.state = c.state
        /\ d.lock = c.lock
        /\ d.mapChanClosed = c.mapChanClosed
        /\ d.outgoingArrays = c.outgoingArrays
        /\ d.lastArrayId = c.lastArrayId
        /\ d.lastSentArrayId = c.lastSentArrayId
        /\ d.bcs = [c.bcs EXCEPT ![b] = Discard(@)]
    BY <1>0, <2>2 DEF ChannelRecord
  <2> HIDE DEF d
  <2>4. SameData(c, d)
    BY <1>0, <2>3 DEF SameData, Discard, ChannelRecord, BackChannelRecord
  <2>5. /\ Window(d)
        /\ SentUpTo(d, d.lastSentArrayId)
        /\ Timed(d)
        /\ MapChanMatches(d)
    BY <1>1, <2>3, <2>4, SameDataSentUpTo
    DEF Sound, Consistent, Window, Timed, MapChanMatches
  <2> QED
    BY <1>0, <1>1, <2>1, <2>3, <2>5 DEF Consistent
<1>2. CASE c.state # "closed"
  <2> DEFINE o == OpenChannel(c)
             e == ClearBackChannel(o, FALSE)
             f == InstallBackChannel(e, b)
             d == Flush(f)
  <2>1. /\ Sound(o)
        /\ o.lock = "free"
        /\ o.state = IF c.state = "init" THEN "ready" ELSE c.state
        /\ o.bcs = c.bcs
        /\ o.lastArrayId = IF c.state = "init" THEN c.lastArrayId + 1
                                               ELSE c.lastArrayId
        /\ o.lastSentArrayId = c.lastSentArrayId
    BY <1>2, OpenChannelSound
  <2> HIDE DEF o
  <2>2. /\ Sound(e)
        /\ e.lock = "free"
        /\ e.state = o.state
        /\ e.state # "closed"
        /\ e.backChannel = None
        /\ e.lastArrayId = o.lastArrayId
        /\ e.lastSentArrayId = c.lastSentArrayId
        /\ SameData(o, e)
    BY <1>2, <2>1, ClearBackChannelSound
  <2>3. e \in ChannelRecord /\ e.channelTimeout # "nil"
    BY <2>2 DEF Sound, Consistent, Timed
  <2>4. e.bcs[b].dataChan = <<>>
    BY <2>1, <2>2 DEF SameData
  <2> HIDE DEF e
  <2>5. f = [e EXCEPT !.backChannel = b,
                      !.channelTimeout = "nil",
                      !.backChannelExpiration = "armed",
                      !.lastSentArrayId =
                        IF e.outgoingArrays # <<>>
                          THEN e.outgoingArrays[1].index - 1
                          ELSE @]
    BY <2>3 DEF InstallBackChannel
  <2>6. e.outgoingArrays # <<>> =>
          /\ Len(e.outgoingArrays) >= 1
          /\ e.outgoingArrays[1].index - 1
               = e.lastArrayId - Len(e.outgoingArrays)
    <3>1. e.outgoingArrays \in Seq(OutgoingArray) /\ e.lastArrayId \in Nat
      BY <2>3 DEF ChannelRecord
    <3>2. ASSUME e.outgoingArrays # <<>>
          PROVE  Len(e.outgoingArrays) >= 1
      BY <3>1, <3>2
    <3>3. ASSUME e.outgoingArrays # <<>>
          PROVE  e.outgoingArrays[1].index
                   = e.lastArrayId - Len(e.outgoingArrays) + 1
      BY <2>2, <3>1, <3>2, <3>3 DEF Sound, Consistent, Window
    <3> QED
      BY <3>1, <3>2, <3>3
  <2>7. /\ f.state = e.state
        /\ f.backChannel = b
        /\ f.bcs = e.bcs
        /\ f.outgoingArrays = e.outgoingArrays
        /\ f.lastArrayId = e.lastArrayId
        /\ f.channelTimeout = "nil"
        /\ f.backChannelExpiration = "armed"
        /\ f.mapChanClosed = e.mapChanClosed
        /\ f.lock = "free"
        /\ f.lastSentArrayId = IF e.outgoingArrays # <<>>
                                 THEN e.lastArrayId - Len(e.outgoingArrays)
                                 ELSE e.lastSentArrayId
    BY <2>2, <2>3, <2>5, <2>6 DEF ChannelRecord
  <2>8. f.lastSentArrayId \in Int
    BY <2>3, <2>7 DEF ChannelRecord
  <2>9. f \in ChannelRecord
    BY <2>3, <2>5, <2>7, <2>8 DEF ChannelRecord, Timers
  <2> HIDE DEF f
  <2>10. Window(f) /\ Timed(f)
    BY <2>2, <2>3, <2>6, <2>7, NoneAssumption
    DEF Sound, Consistent, Window, Timed, ChannelRecord
  <2>11. SentUpTo(f, c.lastSentArrayId)
    BY <2>2, <2>7 DEF Sound, Consistent, SentUpTo
  <2>12. c.lastSentArrayId <= f.lastArrayId
    BY <2>2, <2>7 DEF Sound, Consistent, Window
  <2>13. WillCover(f, c.lastSentArrayId)
    <3>1. CASE e.outgoingArrays = <<>>
      BY <1>0, <2>2, <2>7, <3>1 DEF WillCover
    <3>2. CASE e.outgoingArrays # <<>>
      <4>1. f.lastSentArrayId # f.lastArrayId
        BY <2>3, <2>6, <2>7, <3>2 DEF ChannelRecord
      <4>2. CanSend(f.bcs[f.backChannel])
        BY <2>4, <2>7, CapacityAssumption DEF CanSend
      <4> QED
        BY <2>7, <4>1, <4>2, NoneAssumption DEF WillCover
    <3> QED
      BY <3>1, <3>2
  <2>14. /\ d \in ChannelRecord
         /\ Window(d)
         /\ SentUpTo(d, d.lastSentArrayId)
         /\ c.lastSentArrayId <= d.lastSentArrayId
         /\ d.state = f.state
         /\ d.lastArrayId = f.lastArrayId
         /\ d.mapChanClosed = f.mapChanClosed
         /\ \/ d.lock = "free" /\ Timed(d)
            \/ d.lock = "heartbeatStop" /\ f.state = "writeClosed"
    BY <1>0, <2>7, <2>9, <2>10, <2>11, <2>12, <2>13, FlushProperties
  <2>15. SetBackChannel(c, b) = d
    BY <1>2, <2>7 DEF SetBackChannel, o, e, f
  <2>16. f.lastArrayId <= d.lastSentArrayId
    <3>1. SentUpTo(f, f.lastArrayId) /\ f.lastArrayId \in Int
      BY <1>0, <2>9, <2>11, <2>12, SentUpToMonotone DEF ChannelRecord
    <3>2. WillCover(f, f.lastArrayId)
      <4>1. CASE e.outgoingArrays = <<>>
        <5>1. e.lastArrayId <= e.lastSentArrayId
          BY <2>2, <2>3, <4>1 DEF Sound, Consistent, Window, ChannelRecord
        <5> QED
          BY <2>7, <4>1, <5>1 DEF WillCover
      <4>2. CASE e.outgoingArrays # <<>>
        <5>1. f.lastSentArrayId # f.lastArrayId
          BY <2>3, <2>6, <2>7, <4>2 DEF ChannelRecord
        <5>2. CanSend(f.bcs[f.backChannel])
          BY <2>4, <2>7, CapacityAssumption DEF CanSend
        <5> QED
          BY <2>7, <5>1, <5>2, NoneAssumption DEF WillCover
      <4> QED
        BY <4>1, <4>2
    <3>3. f.lastArrayId <= f.lastArrayId
      BY <3>1
    <3> QED
      BY <2>7, <2>9, <2>10, <3>1, <3>2, <3>3, FlushProperties
  <2> HIDE DEF d
  <2>17. d.lastSentArrayId = d.lastArrayId
    BY <2>14, <2>16 DEF Window, ChannelRecord
  <2>18. c.state = "init" => 1 <= d.lastArrayId
    BY <1>0, <2>1, <2>2, <2>7, <2>14 DEF ChannelRecord
  <2>19. MapChanMatches(d) /\ (d.state = "writeClosed" => d.mapChanClosed)
    BY <2>2, <2>7, <2>14 DEF Sound, MapChanMatches
  <2> QED
    BY <2>1, <2>2, <2>7, <2>14, <2>15, <2>19, <2>17, <2>18 DEF Consistent
<1> QED
  BY <1>1, <1>2

\* Consistent depends on the outgoing arrays and the data channels only.
LEMMA ConsistentFrame ==
  ASSUME NEW c, Consistent(c), NEW d \in ChannelRecord, SameData(c, d),
         d.outgoingArrays = c.outgoingArrays,
         d.lastArrayId = c.lastArrayId,
         d.lastSentArrayId = c.lastSentArrayId
  PROVE  Consistent(d)
BY SameDataSentUpTo DEF Consistent, Window

\* The record of a back channel that no request uses yet, or any more.
LEMMA FreshConsistent ==
  ASSUME NEW c, Consistent(c), NEW b \in BackChannels, NEW chunked \in BOOLEAN
  PROVE  LET d == [c EXCEPT !.bcs[b] = NewBackChannel(chunked)]
         IN  /\ Consistent(d)
             /\ d.bcs[b].dataChan = <<>>
             /\ d.lock = c.lock
             /\ d.state = c.state
             /\ d.lastSentArrayId = c.lastSentArrayId
             /\ d.mapChanClosed = c.mapChanClosed
             /\ Timed(c) => Timed(d)
             /\ MapChanMatches(c) => MapChanMatches(d)
<1> DEFINE d == [c EXCEPT !.bcs[b] = NewBackChannel(chunked)]
<1>1. NewBackChannel(chunked) \in BackChannelRecord(OutgoingArray)
  BY NewBackChannelType
<1>2. /\ d \in ChannelRecord
      /\ \A x \in BackChannels :
           d.bcs[x] = IF x = b THEN NewBackChannel(chunked) ELSE c.bcs[x]
      /\ d.state = c.state
      /\ d.backChannel = c.backChannel
      /\ d.outgoingArrays = c.outgoingArrays
      /\ d.lastArrayId = c.lastArrayId
      /\ d.lastSentArrayId = c.lastSentArrayId
      /\ d.channelTimeout = c.channelTimeout
      /\ d.backChannelExpiration = c.backChannelExpiration
      /\ d.mapChanClosed = c.mapChanClosed
      /\ d.lock = c.lock
  BY <1>1 DEF Consistent, ChannelRecord
<1> HIDE DEF d
<1>3. d.bcs[b].dataChan = <<>>
  BY <1>2 DEF NewBackChannel
<1>4. \A x \in BackChannels :
        d.bcs[x].dataChan = <<>> \/ d.bcs[x].dataChan = c.bcs[x].dataChan
  BY <1>2, <1>3
<1>5. SentUpTo(d, d.lastSentArrayId)
  <2> SUFFICES ASSUME NEW x \in BackChannels,
                      NEW k \in 1..Len(d.bcs[x].dataChan),
                      NEW i \in 1..Len(d.bcs[x].dataChan[k])
               PROVE  d.bcs[x].dataChan[k][i].index <= d.lastSentArrayId
    BY DEF SentUpTo
  <2>1. d.bcs[x].dataChan # <<>>
    OBVIOUS
  <2>2. d.bcs[x].dataChan = c.bcs[x].dataChan
    BY <1>4, <2>1
  <2> QED
    BY <1>2, <2>2 DEF Consistent, SentUpTo
<1>6. Window(d) /\ (Timed(c) => Timed(d)) /\ (MapChanMatches(c) => MapChanMatches(d))
  BY <1>2 DEF Consistent, Window, Timed, MapChanMatches
<1> QED
  BY <1>2, <1>3, <1>5, <1>6 DEF Consistent, d

\* What wait takes from a data channel was sent.
LEMMA TakeChunkConsistent ==
  ASSUME NEW c, Consistent(c), NEW b \in BackChannels, HasData(c.bcs[b])
  PROVE  LET d == [c EXCEPT !.bcs[b] = TakeChunk(@)]
             chunk == NextChunk(c.bcs[b])
         IN  /\ Consistent(d)
             /\ d.lock = c.lock
             /\ d.state = c.state
             /\ d.lastSentArrayId = c.lastSentArrayId
             /\ d.mapChanClosed = c.mapChanClosed
             /\ Timed(c) => Timed(d)
             /\ MapChanMatches(c) => MapChanMatches(d)
             /\ chunk \in Seq(OutgoingArray)
             /\ \A i \in 1..Len(chunk) : chunk[i].index <= c.lastSentArrayId
<1> DEFINE d == [c EXCEPT !.bcs[b] = TakeChunk(@)]
           q == c.bcs[b].dataChan
<1>1. /\ c \in ChannelRecord
      /\ c.bcs[b] \in BackChannelRecord(OutgoingArray)
      /\ q \in Seq(Seq(OutgoingArray))
      /\ q # <<>>
  BY DEF Consistent, ChannelRecord, BackChannelRecord, HasData
<1>2. TakeChunk(c.bcs[b]) = [c.bcs[b] EXCEPT !.dataChan = Tail(q)]
  BY <1>1 DEF TakeChunk, BackChannelRecord
<1> HIDE DEF q
<1>3. /\ Tail(q) \in Seq(Seq(OutgoingArray))
      /\ Len(q) \in Nat \ {0}
      /\ Len(Tail(q)) = Len(q) - 1
      /\ \A k \in 1..Len(Tail(q)) : k + 1 \in 1..Len(q) /\ Tail(q)[k] = q[k + 1]
      /\ Head(q) = q[1]
      /\ q[1] \in Seq(OutgoingArray)
  BY <1>1
<1>4. /\ TakeChunk(c.bcs[b]) \in BackChannelRecord(OutgoingArray)
      /\ TakeChunk(c.bcs[b]).dataChan = Tail(q)
  BY <1>1, <1>2, <1>3 DEF BackChannelRecord
<1>5. /\ d \in ChannelRecord
      /\ \A x \in BackChannels :
           d.bcs[x] = IF x = b THEN TakeChunk(c.bcs[b]) ELSE c.bcs[x]
      /\ d.state = c.state
      /\ d.backChannel = c.backChannel
      /\ d.outgoingArrays = c.outgoingArrays
      /\ d.lastArrayId = c.lastArrayId
      /\ d.lastSentArrayId = c.lastSentArrayId
      /\ d.channelTimeout = c.channelTimeout
      /\ d.backChannelExpiration = c.backChannelExpiration
      /\ d.mapChanClosed = c.mapChanClosed
      /\ d.lock = c.lock
  BY <1>1, <1>4 DEF ChannelRecord
<1> HIDE DEF d
<1>6. SentUpTo(d, d.lastSentArrayId)
  <2> SUFFICES ASSUME NEW x \in BackChannels,
                      NEW k \in 1..Len(d.bcs[x].dataChan),
                      NEW i \in 1..Len(d.bcs[x].dataChan[k])
               PROVE  d.bcs[x].dataChan[k][i].index <= d.lastSentArrayId
    BY DEF SentUpTo
  <2>1. CASE x # b
    BY <1>5, <2>1 DEF Consistent, SentUpTo
  <2>2. CASE x = b
    <3>1. d.bcs[x].dataChan = Tail(q)
      BY <1>4, <1>5, <2>2
    <3>2. k + 1 \in 1..Len(q) /\ d.bcs[x].dataChan[k] = q[k + 1]
      BY <1>3, <3>1
    <3> QED
      BY <1>5, <3>2 DEF Consistent, SentUpTo, q
  <2> QED
    BY <2>1, <2>2
<1>7. /\ NextChunk(c.bcs[b]) = q[1]
      /\ 1 \in 1..Len(q)
  BY <1>3 DEF NextChunk, q
<1>8. \A i \in 1..Len(q[1]) : q[1][i].index <= c.lastSentArrayId
  BY <1>7 DEF Consistent, SentUpTo, q
<1>9. Window(d) /\ (Timed(c) => Timed(d)) /\ (MapChanMatches(c) => MapChanMatches(d))
  BY <1>5 DEF Consistent, Window, Timed, MapChanMatches
<1> QED
  BY <1>3, <1>5, <1>6, <1>7, <1>8, <1>9 DEF Consistent, d

\* A channel that newChannel just returned is sound.
LEMMA NewChannelSound ==
  /\ Sound(NewChannel)
  /\ NewChannel.lock = "free"
  /\ NewChannel.state = "init"
  /\ NewChannel.lastSentArrayId = 0
<1> DEFINE bcs == [b \in BackChannels |-> NewBackChannel(FALSE)]
<1>1. bcs \in [BackChannels -> BackChannelRecord(OutgoingArray)]
  BY NewBackChannelType
<1>2. /\ <<>> \in Seq(OutgoingArray)
      /\ "init" \in States
      /\ "nil" \in Timers /\ "armed" \in Timers
      /\ "free" \in Locks
  BY DEF States, Timers, Locks
<1>3. NewChannel =
        [state |-> "init", backChannel |-> None, bcs |-> bcs,
         outgoingArrays |-> <<>>, lastArrayId |-> 0, lastSentArrayId |-> 0,
         channelTimeout |-> "armed", backChannelExpiration |-> "nil",
         mapChanClosed |-> FALSE, lock |-> "free"]
  BY DEF NewChannel
<1>4. \A b \in BackChannels : bcs[b].dataChan = <<>>
  BY DEF NewBackChannel
<1> HIDE DEF bcs
<1>5. NewChannel \in ChannelRecord
  BY <1>1, <1>2, <1>3 DEF ChannelRecord
<1>6. SentUpTo(NewChannel, 0)
  BY <1>3, <1>4 DEF SentUpTo
<1>7. Window(NewChannel) /\ Timed(NewChannel) /\ MapChanMatches(NewChannel)
  BY <1>3 DEF Window, Timed, MapChanMatches
<1> QED
  BY <1>3, <1>5, <1>6, <1>7 DEF Sound, Consistent

-----------------------------------------------------------------------------
(***************************************************************************)
(* The handlers in wait, W, and what the back channel was given.           *)
(***************************************************************************)

\* A back channel that is set was given every array, and is not kept when it
\* is time for an acknowledgment.
Settled(c) ==
  c.backChannel # None =>
    /\ c.lastSentArrayId = c.lastArrayId
    /\ Len(c.outgoingArrays) <= ArrayLimit

\* Of the handlers in W, those whose data channel is open are those of the
\* back channel.
Waiting(c, W) ==
  \A b \in BackChannels : b \in W /\ c.bcs[b].open <=> c.backChannel = b

Flow(c, W) == Settled(c) /\ Waiting(c, W)

\* Nobody is left waiting by clearBackChannel.
LEMMA ClearFlow ==
  ASSUME NEW c \in ChannelRecord, NEW W, Waiting(c, W), NEW permanent \in BOOLEAN
  PROVE  Flow(ClearBackChannel(c, permanent), W)
<1> DEFINE d == ClearBackChannel(c, permanent)
<1>1. CASE c.backChannel = None
  BY <1>1 DEF ClearBackChannel, Flow, Settled
<1>2. CASE c.backChannel # None
  <2>1. c.backChannel \in BackChannels
    BY <1>2 DEF ChannelRecord
  <2>2. /\ d.backChannel = None
        /\ d.bcs = [c.bcs EXCEPT ![c.backChannel] = Discard(@)]
    BY <1>2 DEF ClearBackChannel, ChannelRecord
  <2> HIDE DEF d
  <2>3. \A b \in BackChannels :
          d.bcs[b].open <=> c.bcs[b].open /\ b # c.backChannel
    BY <2>1, <2>2 DEF Discard, ChannelRecord, BackChannelRecord
  <2>4. Waiting(d, W)
    BY <2>2, <2>3, NoneAssumption DEF Waiting
  <2> QED
    BY <2>2, <2>4 DEF Flow, Settled, d
<1> QED
  BY <1>1, <1>2

\* Fields that neither predicate reads.
LEMMA FlowFrame ==
  ASSUME NEW c, NEW d, NEW W, Flow(c, W),
         d.backChannel = c.backChannel, d.bcs = c.bcs,
         d.lastArrayId = c.lastArrayId, d.lastSentArrayId = c.lastSentArrayId,
         Len(d.outgoingArrays) = Len(c.outgoingArrays)
  PROVE  Flow(d, W)
BY DEF Flow, Settled, Waiting

\* terminateInternal clears the back channel.
LEMMA TerminateFlow ==
  ASSUME NEW c \in ChannelRecord, NEW W, Waiting(c, W), c.lock # "panicked",
         c.state \in {"init", "ready"} => ~c.mapChanClosed
  PROVE  Flow(TerminateInternal(c), W)
<1> DEFINE e == IF c.state \in {"init", "ready"} THEN CloseMapChan(c) ELSE c
           f == ClearBackChannel(e, TRUE)
<1>1. /\ e \in ChannelRecord
      /\ e.lock # "panicked"
      /\ e.bcs = c.bcs
      /\ e.backChannel = c.backChannel
  BY DEF CloseMapChan, ChannelRecord
<1>2. TerminateInternal(c) = [f EXCEPT !.lock = "heartbeatStop"]
  BY <1>1 DEF TerminateInternal
<1> HIDE DEF e
<1>3. Waiting(e, W)
  BY <1>1 DEF Waiting
<1>4. Flow(f, W) /\ f \in ChannelRecord
  BY <1>1, <1>3, ClearFlow, ClearBackChannelType
<1> HIDE DEF f
<1>5. LET d == [f EXCEPT !.lock = "heartbeatStop"]
      IN  /\ d.backChannel = f.backChannel
          /\ d.bcs = f.bcs
          /\ d.lastArrayId = f.lastArrayId
          /\ d.lastSentArrayId = f.lastSentArrayId
          /\ d.outgoingArrays = f.outgoingArrays
  BY <1>4 DEF ChannelRecord
<1> QED
  BY <1>2, <1>4, <1>5, FlowFrame

\* flush leaves a back channel only when it has given it every array.
LEMMA FlushFlow ==
  ASSUME NEW c \in ChannelRecord, Window(c), c.lock # "panicked",
         NEW W, Waiting(c, W),
         c.lastArrayId = c.lastSentArrayId => Settled(c)
  PROVE  Flow(Flush(c), W)
<1>1. CASE c.backChannel = None \/ c.lastArrayId = c.lastSentArrayId
  BY <1>1 DEF Flush, Flow, Settled
<1>2. CASE ~(c.backChannel = None \/ c.lastArrayId = c.lastSentArrayId)
  <2> DEFINE e == SendUnsent(c)
             b == c.backChannel
             sent == CanSend(c.bcs[b])
  <2>1. Flush(c) = AfterSend(e, sent)
    BY <1>2 DEF Flush
  <2>2. b \in BackChannels /\ c.bcs[b] \in BackChannelRecord(OutgoingArray)
    BY <1>2 DEF ChannelRecord
  <2>3. /\ e \in ChannelRecord
        /\ e.state = c.state
        /\ e.backChannel = b
        /\ e.outgoingArrays = c.outgoingArrays
        /\ e.lastArrayId = c.lastArrayId
        /\ e.lastSentArrayId = IF sent THEN c.lastArrayId ELSE c.lastSentArrayId
        /\ e.lock # "panicked"
    BY <1>2, SendUnsentProperties
  <2>4. e.bcs = [c.bcs EXCEPT ![b] = Send(@, Marshal(Unsent(c)))]
    BY DEF SendUnsent, ChannelRecord
  <2>5. \A x \in BackChannels : e.bcs[x].open = c.bcs[x].open
    BY <2>2, <2>4 DEF Send, BackChannelRecord, ChannelRecord
  <2>6. ~sent => ~IsReusable(e.bcs[b])
    BY <2>2, <2>4 DEF Send, IsReusable, BackChannelRecord, ChannelRecord
  <2>7. Waiting(e, W)
    BY <2>3, <2>5 DEF Waiting
  <2> HIDE DEF e, sent
  <2>8. CASE sent /\ e.state = "writeClosed"
    BY <2>1, <2>3, <2>7, <2>8, TerminateFlow DEF AfterSend
  <2>9. CASE /\ ~(sent /\ e.state = "writeClosed")
             /\ ~IsReusable(e.bcs[e.backChannel]) \/ Len(e.outgoingArrays) > ArrayLimit
    BY <2>1, <2>3, <2>7, <2>9, ClearFlow DEF AfterSend
  <2>10. CASE /\ ~(sent /\ e.state = "writeClosed")
              /\ ~(~IsReusable(e.bcs[e.backChannel]) \/ Len(e.outgoingArrays) > ArrayLimit)
    <3>1. AfterSend(e, sent) = e
      BY <2>10 DEF AfterSend
    <3>2. sent
      BY <2>3, <2>6, <2>10
    <3>3. Len(e.outgoingArrays) \in Nat /\ ~(Len(e.outgoingArrays) > ArrayLimit)
      BY <2>3, <2>10 DEF ChannelRecord
    <3>4. Settled(e)
      BY <2>3, <3>2, <3>3, ArrayLimitAssumption DEF Settled
    <3> QED
      BY <2>1, <2>7, <3>1, <3>4 DEF Flow
  <2> QED
    BY <2>8, <2>9, <2>10
<1> QED
  BY <1>1, <1>2

\* An array was queued, so the flush that follows has something to send.
LEMMA QueueFlushFlow ==
  ASSUME NEW c \in ChannelRecord, Window(c), c.lock # "panicked",
         NEW W, Waiting(c, W), NEW e \in Elements
  PROVE  Flow(Flush(QueueArray(c, e)), W)
<1> DEFINE d == QueueArray(c, e)
<1>1. /\ d \in ChannelRecord
      /\ Window(d)
      /\ d.lastArrayId = c.lastArrayId + 1
  BY QueueArrayType, QueueArrayWindow
<1>2. /\ d.lastSentArrayId = c.lastSentArrayId
      /\ d.bcs = c.bcs
      /\ d.backChannel = c.backChannel
      /\ d.lock # "panicked"
  BY QueueArrayFrame
<1> HIDE DEF d
<1>3. d.lastArrayId # d.lastSentArrayId
  BY <1>1, <1>2 DEF Window, ChannelRecord
<1>4. Waiting(d, W)
  BY <1>2 DEF Waiting
<1> QED
  BY <1>1, <1>2, <1>3, <1>4, FlushFlow DEF d

\* An acknowledgment makes room only.
LEMMA AcknowledgeFlow ==
  ASSUME NEW c \in ChannelRecord, NEW aid, NEW W, Flow(c, W)
  PROVE  Flow(AcknowledgeArrays(c, aid), W)
<1> DEFINE out == c.outgoingArrays
           k == Acknowledged(c, aid)
           d == AcknowledgeArrays(c, aid)
           I == {i \in 1..Len(out) : \A j \in 1..i : out[j].index <= aid}
<1>1. out \in Seq(OutgoingArray) /\ Len(out) \in Nat
  BY DEF ChannelRecord
<1>2. k \in Nat
  <2>1. IsFiniteSet(1..Len(out))
    BY <1>1, FS_Interval
  <2>2. IsFiniteSet(I)
    BY <2>1, FS_Subset
  <2>3. k = Cardinality(I)
    BY DEF Acknowledged
  <2> HIDE DEF I
  <2> QED
    BY <2>2, <2>3, FS_CardinalityType
<1> HIDE DEF k
<1>3. Len(SubSeq(out, k + 1, Len(out))) <= Len(out)
  <2> HIDE DEF out
  <2> QED
    BY <1>1, <1>2
<1>4. /\ d.outgoingArrays = SubSeq(out, k + 1, Len(out))
      /\ d.backChannel = c.backChannel
      /\ d.bcs = c.bcs
      /\ d.lastArrayId = c.lastArrayId
      /\ d.lastSentArrayId = c.lastSentArrayId
  BY DEF AcknowledgeArrays, ChannelRecord, k
<1>5. Len(d.outgoingArrays) <= Len(out) /\ Len(d.outgoingArrays) \in Nat
  <2> HIDE DEF out, d
  <2> QED
    BY <1>1, <1>2, <1>3, <1>4
<1> HIDE DEF d
<1>6. Settled(d)
  <2> SUFFICES ASSUME c.backChannel # None
               PROVE  /\ c.lastSentArrayId = c.lastArrayId
                      /\ Len(d.outgoingArrays) <= ArrayLimit
    BY <1>4 DEF Settled
  <2>1. c.lastSentArrayId = c.lastArrayId /\ Len(out) <= ArrayLimit
    BY DEF Flow, Settled
  <2> HIDE DEF out
  <2> QED
    BY <1>1, <1>5, <2>1, ArrayLimitAssumption
<1>7. Waiting(d, W)
  BY <1>4 DEF Flow, Waiting
<1> QED
  BY <1>6, <1>7 DEF Flow, d

\* SendArray, for the heartbeat and the application.
LEMMA SendArrayFlow ==
  ASSUME NEW c \in ChannelRecord, Window(c), c.lock # "panicked",
         NEW W, Flow(c, W), NEW e \in Elements
  PROVE  Flow(SendArray(c, e), W)
BY QueueFlushFlow DEF SendArray, Flow

\* Close: the flush either sends 'stop' and terminates, or finds no back
\* channel.
LEMMA CloseFlow ==
  ASSUME NEW c \in ChannelRecord, Window(c), c.lock # "panicked",
         NEW W, Flow(c, W)
  PROVE  Flow(CloseAndFlush(c), W)
<1> DEFINE w == [c EXCEPT !.state = "writeClosed"]
<1>1. /\ w \in ChannelRecord
      /\ w.lock # "panicked"
      /\ w.bcs = c.bcs
      /\ w.backChannel = c.backChannel
      /\ w.outgoingArrays = c.outgoingArrays
      /\ w.lastArrayId = c.lastArrayId
      /\ w.lastSentArrayId = c.lastSentArrayId
  BY DEF ChannelRecord, States
<1>2. CloseAndFlush(c) = Flush(QueueArray(w, "stop"))
  BY DEF CloseAndFlush
<1> HIDE DEF w
<1>3. Window(w) /\ Waiting(w, W)
  BY <1>1 DEF Window, Waiting, Flow
<1>4. "stop" \in Elements
  BY DEF Elements
<1> QED
  BY <1>1, <1>2, <1>3, <1>4, QueueFlushFlow

\* Close panics or marks mapChan closed.
LEMMA CloseMapChanFlow ==
  ASSUME NEW c \in ChannelRecord, NEW W, Flow(c, W)
  PROVE  Flow(CloseMapChan(c), W)
<1>1. LET d == CloseMapChan(c)
      IN  /\ d.backChannel = c.backChannel
          /\ d.bcs = c.bcs
          /\ d.lastArrayId = c.lastArrayId
          /\ d.lastSentArrayId = c.lastSentArrayId
          /\ d.outgoingArrays = c.outgoingArrays
  BY DEF CloseMapChan, ChannelRecord
<1> QED
  BY <1>1, FlowFrame

\* setBackChannel: the new handler replaces the old one, and is given what is
\* unacknowledged; the handler of a closed session does not wait.
LEMMA SetBackChannelFlow ==
  ASSUME NEW c, Sound(c), c.lock = "free", NEW b \in BackChannels,
         c.bcs[b].open, NEW W, b \notin W, Flow(c, W)
  PROVE  Flow(SetBackChannel(c, b), W \union {b})
<1>0. c \in ChannelRecord /\ c.backChannel # b
  BY DEF Sound, Consistent, Flow, Waiting
<1>1. CASE c.state = "closed"
  <2> DEFINE d == [c EXCEPT !.bcs[b] = Discard(@)]
  <2>1. SetBackChannel(c, b) = d
    BY <1>1 DEF SetBackChannel
  <2>2. /\ d.backChannel = c.backChannel
        /\ d.bcs = [c.bcs EXCEPT ![b] = Discard(@)]
        /\ d.lastArrayId = c.lastArrayId
        /\ d.lastSentArrayId = c.lastSentArrayId
        /\ d.outgoingArrays = c.outgoingArrays
    BY <1>0 DEF ChannelRecord
  <2> HIDE DEF d
  <2>3. \A x \in BackChannels : d.bcs[x].open <=> c.bcs[x].open /\ x # b
    BY <1>0, <2>2 DEF Discard, ChannelRecord, BackChannelRecord
  <2>4. Settled(d)
    BY <2>2 DEF Flow, Settled
  <2>5. Waiting(d, W \union {b})
    BY <1>0, <2>2, <2>3 DEF Flow, Waiting
  <2> QED
    BY <2>1, <2>4, <2>5 DEF Flow
<1>2. CASE c.state # "closed"
  <2> DEFINE o == OpenChannel(c)
             f == ClearBackChannel(o, FALSE)
             d == InstallBackChannel(f, b)
  <2>1. /\ Sound(o) /\ o.lock = "free"
        /\ o.bcs = c.bcs
        /\ o.state # "closed"
    BY <1>2, OpenChannelSound
  <2>2. o.backChannel = c.backChannel
    BY <1>0 DEF OpenChannel, QueueArray, ChannelRecord
  <2> HIDE DEF o
  <2>3. Waiting(o, W)
    BY <2>1, <2>2 DEF Flow, Waiting
  <2>4. /\ Sound(f) /\ f.lock = "free"
        /\ f.state # "closed"
        /\ f.backChannel = None
    BY <2>1, ClearBackChannelSound
  <2>5. Flow(f, W)
    BY <2>1, <2>3, ClearFlow DEF Sound, Consistent
  <2>6. f.bcs[b].open
    <3>1. o.backChannel # b /\ o.bcs[b].open /\ o \in ChannelRecord
      BY <1>0, <2>1, <2>2 DEF Sound, Consistent
    <3> QED
      BY <3>1 DEF ClearBackChannel, ChannelRecord
  <2> HIDE DEF f
  <2>7. f \in ChannelRecord /\ Window(f) /\ f.channelTimeout # "nil"
    BY <2>4 DEF Sound, Consistent, Timed
  <2>8. /\ d.backChannel = b
        /\ d.bcs = f.bcs
        /\ d.state = f.state
        /\ d.outgoingArrays = f.outgoingArrays
        /\ d.lastArrayId = f.lastArrayId
        /\ d.lastSentArrayId = IF f.outgoingArrays # <<>>
                                 THEN f.outgoingArrays[1].index - 1
                                 ELSE f.lastSentArrayId
        /\ d.lock = "free"
    BY <2>4, <2>7 DEF InstallBackChannel, ChannelRecord
  <2>9. d \in ChannelRecord
    <3>1. f.outgoingArrays # <<>> => f.outgoingArrays[1].index - 1 \in Int
      <4>1. ASSUME f.outgoingArrays # <<>>
            PROVE  f.outgoingArrays[1] \in OutgoingArray
        BY <2>7, <4>1 DEF ChannelRecord
      <4> QED
        BY <4>1 DEF OutgoingArray
    <3> QED
      BY <2>7, <3>1 DEF InstallBackChannel, ChannelRecord, Timers
  <2>10. SetBackChannel(c, b) = Flush(d)
    BY <1>2, <2>8 DEF SetBackChannel, o, f
  <2> HIDE DEF d
  <2>11. /\ Window(d)
         /\ d.lastArrayId = d.lastSentArrayId => Settled(d)
    <3> DEFINE n == Len(f.outgoingArrays)
    <3>1. n \in Nat /\ f.lastArrayId \in Nat /\ f.lastSentArrayId \in Int
      BY <2>7 DEF ChannelRecord
    <3>2. CASE n = 0
      <4>1. f.outgoingArrays = <<>>
        BY <2>7, <3>2 DEF ChannelRecord
      <4>2. d.lastSentArrayId = f.lastSentArrayId
        BY <2>8, <4>1
      <4> QED
        BY <2>7, <2>8, <3>1, <3>2, <4>2, ArrayLimitAssumption DEF Window, Settled
    <3>3. CASE n # 0
      <4>1. f.outgoingArrays # <<>> /\ 1 \in 1..n
        BY <3>1, <3>3
      <4>2. f.outgoingArrays[1].index = f.lastArrayId - n + 1
        BY <2>7, <4>1 DEF Window
      <4>3. d.lastSentArrayId = f.lastArrayId - n
        BY <2>8, <3>1, <4>1, <4>2
      <4> QED
        BY <2>7, <2>8, <3>1, <3>3, <4>3 DEF Window
    <3> QED
      BY <3>2, <3>3
  <2>12. Waiting(d, W \union {b})
    <3> SUFFICES ASSUME NEW x \in BackChannels
                 PROVE  x \in W \union {b} /\ d.bcs[x].open <=> d.backChannel = x
      BY DEF Waiting
    <3>1. ~(x \in W /\ f.bcs[x].open)
      BY <2>4, <2>5, NoneAssumption DEF Flow, Waiting
    <3> QED
      BY <2>6, <2>8, <3>1
  <2> QED
    BY <2>8, <2>9, <2>10, <2>11, <2>12, FlushFlow
<1> QED
  BY <1>1, <1>2

-----------------------------------------------------------------------------
(***************************************************************************)
(* What the session is to others.                                          *)
(***************************************************************************)

\* Only a ready session has a back channel; one that Close has left to its
\* next back channel has something to send to it, 'stop' at least.
Live(c) ==
  /\ c.backChannel # None => c.state = "ready" /\ c.lock \in {"free", "dequeueMaps"}
  /\ c.state = "writeClosed" /\ c.lock = "free" => c.lastSentArrayId < c.lastArrayId

View(c, registered) ==
  [status |-> Status(c, registered), streaming |-> c.backChannel # None,
   sent |-> c.lastArrayId]

\* The steps of Session, from v to w.
ViewStep(v, w) ==
  \/ /\ w.status = v.status
     /\ (w.streaming <=> v.streaming) /\ w.sent = v.sent
  \/ v.status = "init" /\ w.status = "ready" /\ w.sent = v.sent + 1
  \/ /\ v.status = "ready" /\ w.status = "ready"
     /\ (w.streaming <=> ~v.streaming) /\ w.sent = v.sent
  \/ /\ v.status = "ready" /\ w.status = "ready"
     /\ w.streaming => v.streaming
     /\ w.sent = v.sent + 1
  \/ /\ v.status \in {"init", "ready"}
     /\ w.status = "writeClosed" \/ (v.streaming /\ w.status = "closed")
     /\ ~w.streaming /\ w.sent = v.sent + 1
  \/ /\ v.status \in {"init", "ready", "writeClosed"}
     /\ w.status = "closed" /\ ~w.streaming /\ w.sent = v.sent
  \/ /\ v.status = "closed" /\ w.status = "unknown"
     /\ (w.streaming <=> v.streaming) /\ w.sent = v.sent
  \/ /\ v.status \in {"writeClosed", "closed", "unknown"}
     /\ w.status = "crashed"
     /\ (w.streaming <=> v.streaming) /\ w.sent = v.sent + 1

\* What a step of the channel may do to the session while the session map has
\* it (registered) or has it no longer.
Lives(c, d, registered) ==
  Live(d) /\ ViewStep(View(c, registered), View(d, registered))

\* The fields of View.
LEMMA ViewFields ==
  ASSUME NEW c, NEW registered
  PROVE  /\ View(c, registered).status = Status(c, registered)
         /\ View(c, registered).streaming <=> c.backChannel # None
         /\ View(c, registered).sent = c.lastArrayId
BY DEF View

\* A step that others do not notice.
LEMMA LifeFrame ==
  ASSUME NEW c, Live(c), NEW d, NEW registered \in BOOLEAN,
         d.state = c.state, d.backChannel = c.backChannel, d.lock = c.lock,
         d.lastArrayId = c.lastArrayId, d.lastSentArrayId = c.lastSentArrayId
  PROVE  Lives(c, d, registered)
BY DEF Lives, Live, View, Status, ViewStep

\* clearBackChannel leaves the session ready.
LEMMA ClearLife ==
  ASSUME NEW c \in ChannelRecord, Live(c), c.lock = "free",
         NEW registered \in BOOLEAN, ~registered => c.state = "closed"
  PROVE  Lives(c, ClearBackChannel(c, FALSE), registered)
<1> DEFINE d == ClearBackChannel(c, FALSE)
<1>1. /\ d.state = c.state
      /\ d.backChannel = None
      /\ d.lastArrayId = c.lastArrayId
      /\ d.lastSentArrayId = c.lastSentArrayId
      /\ d.lock = c.lock
  BY ClearBackChannelFrame
<1> HIDE DEF d
<1>2. Live(d)
  BY <1>1 DEF Live
<1>3. CASE c.backChannel = None
  BY <1>1, <1>3, LifeFrame DEF d
<1>4. CASE c.backChannel # None
  <2>1. registered /\ c.state = "ready"
    BY <1>4 DEF Live
  <2>2. /\ Status(c, registered) = "ready"
        /\ Status(d, registered) = "ready"
    BY <1>1, <2>1 DEF Status
  <2> QED
    BY <1>1, <1>2, <1>4, <2>2, ViewFields DEF Lives, ViewStep, d
<1> QED
  BY <1>3, <1>4

\* terminateInternal closes the session from now on.
LEMMA TerminateLife ==
  ASSUME NEW c \in ChannelRecord, Live(c), c.lock = "free",
         c.state \in {"init", "ready"} => ~c.mapChanClosed,
         NEW registered \in BOOLEAN, ~registered => c.state = "closed"
  PROVE  /\ Lives(c, TerminateInternal(c), registered)
         /\ TerminateInternal(c).backChannel = None
<1> DEFINE e == IF c.state \in {"init", "ready"} THEN CloseMapChan(c) ELSE c
           f == ClearBackChannel(e, TRUE)
           d == TerminateInternal(c)
<1>1. /\ d.lock = "heartbeatStop"
      /\ d.lastArrayId = c.lastArrayId
      /\ d.state = c.state
  BY TerminateInternalProperties
<1>2. d.backChannel = None
  <2>1. e \in ChannelRecord /\ e.lock # "panicked"
    BY DEF CloseMapChan, ChannelRecord
  <2>2. d = [f EXCEPT !.lock = "heartbeatStop"]
    BY <2>1 DEF TerminateInternal
  <2> HIDE DEF e, d
  <2>3. f.backChannel = None /\ f \in ChannelRecord
    BY <2>1, ClearBackChannelFrame, ClearBackChannelType
  <2> HIDE DEF f
  <2> QED
    BY <2>2, <2>3 DEF ChannelRecord
<1> HIDE DEF d
<1>3. Live(d)
  BY <1>1, <1>2 DEF Live
<1>4. CASE c.state = "closed"
  <2>1. View(d, registered) = View(c, registered)
    BY <1>1, <1>2, <1>4 DEF View, Status, Live
  <2> QED
    BY <1>2, <1>3, <2>1 DEF Lives, ViewStep, d
<1>5. CASE c.state # "closed"
  <2>1. registered /\ c.state \in {"init", "ready", "writeClosed"}
    BY <1>5 DEF ChannelRecord, States
  <2>2. /\ Status(c, registered) = c.state
        /\ Status(d, registered) = "closed"
    BY <1>1, <2>1 DEF Status
  <2> QED
    BY <1>1, <1>2, <1>3, <2>1, <2>2, ViewFields DEF Lives, ViewStep, d
<1> QED
  BY <1>4, <1>5

\* flush with something to send: only in writeClosed does it close the channel,
\* and then the back channel is gone whether the send succeeds or not.
LEMMA FlushLife ==
  ASSUME NEW c \in ChannelRecord, Window(c), c.lock = "free",
         c.backChannel # None => c.lastSentArrayId # c.lastArrayId
  PROVE  LET d == Flush(c)
         IN  /\ d.backChannel \in {c.backChannel, None}
             /\ d.lock = IF /\ c.state = "writeClosed" /\ c.backChannel # None
                            /\ CanSend(c.bcs[c.backChannel])
                           THEN "heartbeatStop" ELSE "free"
             /\ c.state = "writeClosed" => d.backChannel = None
             /\ d.state = c.state
             /\ d.lastArrayId = c.lastArrayId
             /\ d.lock = "free" /\ c.state = "writeClosed" =>
                  d.lastSentArrayId = c.lastSentArrayId
<1> DEFINE d == Flush(c)
<1>1. CASE c.backChannel = None
  BY <1>1 DEF Flush
<1>2. CASE c.backChannel # None
  <2> DEFINE e == SendUnsent(c)
             b == c.backChannel
             sent == CanSend(c.bcs[b])
  <2>1. d = AfterSend(e, sent)
    BY <1>2 DEF Flush
  <2>2. b \in BackChannels /\ c.bcs[b] \in BackChannelRecord(OutgoingArray)
    BY <1>2 DEF ChannelRecord
  <2>3. /\ e \in ChannelRecord
        /\ e.state = c.state
        /\ e.backChannel = b
        /\ e.lastArrayId = c.lastArrayId
        /\ e.lastSentArrayId = IF sent THEN c.lastArrayId ELSE c.lastSentArrayId
        /\ e.lock = "free"
    BY <1>2, SendUnsentProperties
  <2>4. ~sent => ~IsReusable(e.bcs[b])
    <3>1. e.bcs = [c.bcs EXCEPT ![b] = Send(@, Marshal(Unsent(c)))]
      BY DEF SendUnsent, ChannelRecord
    <3> QED
      BY <2>2, <3>1 DEF Send, IsReusable, BackChannelRecord, ChannelRecord
  <2> HIDE DEF e, sent, d
  <2>5. CASE sent /\ e.state = "writeClosed"
    <3>1. d = TerminateInternal(e)
      BY <2>1, <2>5 DEF AfterSend
    <3>2. /\ d.lock = "heartbeatStop"
          /\ d.lastArrayId = e.lastArrayId
          /\ d.state = e.state
      BY <2>3, <2>5, <3>1, TerminateInternalProperties
    <3>3. d.backChannel = None
      <4>1. d = [ClearBackChannel(e, TRUE) EXCEPT !.lock = "heartbeatStop"]
        BY <2>3, <2>5, <3>1 DEF TerminateInternal
      <4>2. /\ ClearBackChannel(e, TRUE).backChannel = None
            /\ ClearBackChannel(e, TRUE) \in ChannelRecord
        BY <2>3, ClearBackChannelFrame, ClearBackChannelType
      <4> QED
        BY <4>1, <4>2 DEF ChannelRecord
    <3> QED
      BY <1>2, <2>3, <2>5, <3>2, <3>3 DEF sent, d
  <2>6. CASE ~(sent /\ e.state = "writeClosed")
    <3>1. \/ d = ClearBackChannel(e, FALSE)
          \/ d = e /\ sent
      BY <2>1, <2>3, <2>4, <2>6 DEF AfterSend
    <3>2. /\ ClearBackChannel(e, FALSE).backChannel = None
          /\ ClearBackChannel(e, FALSE).state = e.state
          /\ ClearBackChannel(e, FALSE).lastArrayId = e.lastArrayId
          /\ ClearBackChannel(e, FALSE).lastSentArrayId = e.lastSentArrayId
          /\ ClearBackChannel(e, FALSE).lock = "free"
      BY <2>3, ClearBackChannelFrame
    <3>3. /\ d.lock = "free"
          /\ d.state = c.state
          /\ d.lastArrayId = c.lastArrayId
          /\ d.lastSentArrayId = e.lastSentArrayId
          /\ d.backChannel = None \/ (d.backChannel = b /\ sent)
      BY <2>3, <3>1, <3>2
    <3>4. c.state = "writeClosed" => ~sent
      BY <2>3, <2>6
    <3> QED
      BY <1>2, <2>3, <3>3, <3>4 DEF sent, d
  <2> QED
    BY <2>5, <2>6
<1> QED
  BY <1>1, <1>2

\* SendArray queues for a ready session, which may cost it its back channel.
LEMMA SendArrayLife ==
  ASSUME NEW c \in ChannelRecord, Window(c), Live(c), c.lock = "free",
         NEW e \in Elements,
         NEW registered \in BOOLEAN, ~registered => c.state = "closed"
  PROVE  Lives(c, SendArray(c, e), registered)
<1>1. CASE c.state # "ready"
  BY <1>1 DEF SendArray, Lives, ViewStep
<1>2. CASE c.state = "ready"
  <2> DEFINE q == QueueArray(c, e)
             d == Flush(q)
  <2>1. SendArray(c, e) = d
    BY <1>2 DEF SendArray
  <2>2. /\ q \in ChannelRecord
        /\ Window(q)
        /\ q.lastArrayId = c.lastArrayId + 1
        /\ q.lastSentArrayId = c.lastSentArrayId
        /\ q.state = "ready"
        /\ q.backChannel = c.backChannel
        /\ q.lock = "free"
    BY <1>2, QueueArrayType, QueueArrayWindow, QueueArrayFrame
  <2>3. q.lastSentArrayId # q.lastArrayId
    BY <2>2 DEF Window, ChannelRecord
  <2> HIDE DEF q
  <2>4. /\ d.backChannel \in {q.backChannel, None}
        /\ d.lock = "free"
        /\ d.state = "ready"
        /\ d.lastArrayId = q.lastArrayId
    BY <2>2, <2>3, FlushLife
  <2> HIDE DEF d
  <2>5. Live(d)
    BY <2>4 DEF Live
  <2>6. Status(c, registered) = "ready" /\ Status(d, registered) = "ready"
    BY <1>2, <2>4 DEF Status
  <2>7. d.lastArrayId = c.lastArrayId + 1
    BY <2>2, <2>4
  <2>8. d.backChannel # None => c.backChannel # None
    BY <2>2, <2>4
  <2> QED
    BY <2>1, <2>5, <2>6, <2>7, <2>8, ViewFields DEF Lives, ViewStep
<1> QED
  BY <1>1, <1>2

\* Close, up to the close of mapChan: 'stop' is on its way, or waits for the
\* next back channel.
LEMMA CloseLife ==
  ASSUME NEW c \in ChannelRecord, Window(c), Live(c), c.lock = "free"
  PROVE  LET d == CloseAndFlush(c)
         IN  /\ Live(d)
             /\ d.backChannel = None
             /\ d.state = "writeClosed"
             /\ d.lastArrayId = c.lastArrayId + 1
             /\ \/ d.lock = "free"
                \/ d.lock = "heartbeatStop" /\ c.backChannel # None
<1> DEFINE w == [c EXCEPT !.state = "writeClosed"]
           q == QueueArray(w, "stop")
           d == Flush(q)
<1>1. CloseAndFlush(c) = d
  BY DEF CloseAndFlush
<1>2. /\ w \in ChannelRecord
      /\ Window(w)
      /\ w.state = "writeClosed"
      /\ w.lock = "free"
      /\ w.backChannel = c.backChannel
      /\ w.lastArrayId = c.lastArrayId
  BY DEF ChannelRecord, States, Window
<1>3. "stop" \in Elements
  BY DEF Elements
<1> HIDE DEF w
<1>4. /\ q \in ChannelRecord
      /\ Window(q)
      /\ q.lastArrayId = c.lastArrayId + 1
      /\ q.lastSentArrayId = w.lastSentArrayId
      /\ q.state = "writeClosed"
      /\ q.backChannel = c.backChannel
      /\ q.lock = "free"
  BY <1>2, <1>3, QueueArrayType, QueueArrayWindow, QueueArrayFrame
<1>5. q.lastSentArrayId < q.lastArrayId
  BY <1>2, <1>4 DEF Window, ChannelRecord
<1>6. q.lastSentArrayId # q.lastArrayId
  BY <1>4, <1>5 DEF ChannelRecord
<1> HIDE DEF q
<1>7. /\ d.backChannel = None
      /\ d.lock = IF c.backChannel # None /\ CanSend(q.bcs[q.backChannel])
                    THEN "heartbeatStop" ELSE "free"
      /\ d.state = "writeClosed"
      /\ d.lastArrayId = q.lastArrayId
      /\ d.lock = "free" => d.lastSentArrayId = q.lastSentArrayId
  BY <1>4, <1>6, FlushLife
<1> HIDE DEF d
<1>8. Live(d)
  BY <1>5, <1>7 DEF Live
<1> QED
  BY <1>1, <1>4, <1>7, <1>8

\* setBackChannel opens the session; it may be of no use to a ready one, and
\* takes what is left of one that is closed for writing, which ends with it.
LEMMA SetBackChannelLife ==
  ASSUME NEW c, Sound(c), Live(c), c.lock = "free", NEW b \in BackChannels,
         c.bcs[b] \in {NewBackChannel(chunked) : chunked \in BOOLEAN},
         c.backChannel # b,
         NEW registered \in BOOLEAN, ~registered => c.state = "closed"
  PROVE  Lives(c, SetBackChannel(c, b), registered)
<1>0. c \in ChannelRecord
  BY DEF Sound, Consistent
<1>1. CASE c.state = "closed"
  <2> DEFINE d == [c EXCEPT !.bcs[b] = Discard(@)]
  <2>1. SetBackChannel(c, b) = d
    BY <1>1 DEF SetBackChannel
  <2>2. /\ d.backChannel = c.backChannel
        /\ d.state = c.state
        /\ d.lock = c.lock
        /\ d.lastArrayId = c.lastArrayId
        /\ d.lastSentArrayId = c.lastSentArrayId
    BY <1>0 DEF ChannelRecord
  <2> HIDE DEF d
  <2> QED
    BY <2>1, <2>2, LifeFrame
<1>2. CASE c.state # "closed"
  <2> DEFINE o == OpenChannel(c)
             f == ClearBackChannel(o, FALSE)
             i == InstallBackChannel(f, b)
             d == Flush(i)
             nxt == IF c.state = "init" THEN c.lastArrayId + 1 ELSE c.lastArrayId
  <2>1. /\ Sound(o) /\ o.lock = "free"
        /\ o.bcs = c.bcs
        /\ o.state = IF c.state = "init" THEN "ready" ELSE c.state
        /\ o.lastArrayId = nxt
        /\ o.lastSentArrayId = c.lastSentArrayId
    BY OpenChannelSound
  <2>2. o.backChannel = c.backChannel
    BY <1>0 DEF OpenChannel, QueueArray, ChannelRecord
  <2> HIDE DEF o
  <2>3. /\ Sound(f) /\ f.lock = "free"
        /\ f.state = o.state
        /\ f.backChannel = None
        /\ f.outgoingArrays = o.outgoingArrays
        /\ f.lastArrayId = o.lastArrayId
        /\ f.lastSentArrayId = o.lastSentArrayId
    BY <2>1, ClearBackChannelSound
  <2>4. f.bcs[b] = c.bcs[b]
    <3>1. o.backChannel # b /\ o.bcs[b] = c.bcs[b] /\ o \in ChannelRecord
      BY <2>1, <2>2 DEF Sound, Consistent
    <3> QED
      BY <3>1 DEF ClearBackChannel, ChannelRecord
  <2> HIDE DEF f
  <2>5. f \in ChannelRecord /\ Window(f) /\ f.channelTimeout # "nil"
    BY <1>2, <2>1, <2>3 DEF Sound, Consistent, Timed
  <2>6. /\ i.backChannel = b
        /\ i.bcs = f.bcs
        /\ i.state = f.state
        /\ i.outgoingArrays = f.outgoingArrays
        /\ i.lastArrayId = f.lastArrayId
        /\ i.lastSentArrayId = IF f.outgoingArrays # <<>>
                                 THEN f.outgoingArrays[1].index - 1
                                 ELSE f.lastSentArrayId
        /\ i.lock = "free"
    BY <2>3, <2>5 DEF InstallBackChannel, ChannelRecord
  <2>7. /\ i \in ChannelRecord
        /\ Window(i)
        /\ f.lastSentArrayId < f.lastArrayId => i.lastSentArrayId # i.lastArrayId
    <3> DEFINE n == Len(f.outgoingArrays)
    <3>1. n \in Nat /\ f.lastArrayId \in Nat /\ f.lastSentArrayId \in Int
      BY <2>5 DEF ChannelRecord
    <3>2. f.outgoingArrays # <<>> => f.outgoingArrays[1].index - 1 \in Int
      <4>1. ASSUME f.outgoingArrays # <<>>
            PROVE  f.outgoingArrays[1] \in OutgoingArray
        BY <2>5, <4>1 DEF ChannelRecord
      <4> QED
        BY <4>1 DEF OutgoingArray
    <3>3. i \in ChannelRecord
      BY <2>5, <3>2 DEF InstallBackChannel, ChannelRecord, Timers
    <3>4. CASE n = 0
      <4>1. i.lastSentArrayId = f.lastSentArrayId
        BY <2>5, <2>6, <3>4 DEF ChannelRecord
      <4> QED
        BY <2>5, <2>6, <3>1, <3>3, <3>4, <4>1 DEF Window
    <3>5. CASE n # 0
      <4>1. f.outgoingArrays # <<>> /\ 1 \in 1..n
        BY <3>1, <3>5
      <4>2. f.outgoingArrays[1].index = f.lastArrayId - n + 1
        BY <2>5, <4>1 DEF Window
      <4>3. i.lastSentArrayId = f.lastArrayId - n
        BY <2>6, <3>1, <4>1, <4>2
      <4> QED
        BY <2>5, <2>6, <3>1, <3>3, <3>5, <4>3 DEF Window
    <3> QED
      BY <3>4, <3>5
  <2>8. SetBackChannel(c, b) = d
    BY <1>2, <2>6 DEF SetBackChannel, o, f
  <2> HIDE DEF i
  <2>9. CASE i.lastSentArrayId = i.lastArrayId
    <3>1. d = i
      BY <2>9 DEF Flush
    <3>2. c.state # "writeClosed"
      BY <2>1, <2>3, <2>7, <2>9 DEF Live
    <3>3. /\ Status(c, registered) = c.state
          /\ Status(d, registered) = "ready"
          /\ d.state = "ready" /\ d.lock = "free"
          /\ d.lastArrayId = nxt
          /\ c.state \in {"init", "ready"}
      BY <1>0, <1>2, <2>1, <2>3, <2>6, <3>1, <3>2 DEF Status, ChannelRecord, States
    <3> HIDE DEF d
    <3>4. Live(d)
      BY <3>3 DEF Live
    <3> QED
      BY <2>8, <3>3, <3>4, ViewFields DEF Lives, ViewStep
  <2>10. CASE i.lastSentArrayId # i.lastArrayId
    <3>1. /\ d.lock = IF /\ i.state = "writeClosed" /\ i.backChannel # None
                         /\ CanSend(i.bcs[i.backChannel])
                        THEN "heartbeatStop" ELSE "free"
          /\ i.state = "writeClosed" => d.backChannel = None
          /\ d.state = i.state
          /\ d.lastArrayId = i.lastArrayId
      BY <2>6, <2>7, <2>10, FlushLife
    <3>2. CASE c.state = "writeClosed"
      <4>1. CanSend(i.bcs[i.backChannel]) /\ i.backChannel # None
        <5>1. c.bcs[b].dataChan = <<>>
          BY DEF NewBackChannel
        <5> QED
          BY <2>4, <2>6, <5>1, NoneAssumption, CapacityAssumption DEF CanSend
      <4>2. /\ d.lock = "heartbeatStop"
            /\ d.backChannel = None
            /\ d.lastArrayId = c.lastArrayId
        BY <2>1, <2>3, <2>6, <3>1, <3>2, <4>1
      <4>3. /\ Status(c, registered) = "writeClosed"
            /\ Status(d, registered) = "closed"
        BY <3>2, <4>2 DEF Status
      <4> HIDE DEF d
      <4>4. Live(d)
        BY <4>2 DEF Live
      <4> QED
        BY <2>8, <4>2, <4>3, <4>4, ViewFields DEF Lives, ViewStep
    <3>3. CASE c.state # "writeClosed"
      <4>1. /\ Status(c, registered) = c.state
            /\ Status(d, registered) = "ready"
            /\ d.state = "ready" /\ d.lock = "free"
            /\ d.lastArrayId = nxt
            /\ c.state \in {"init", "ready"}
        BY <1>0, <1>2, <2>1, <2>3, <2>6, <3>1, <3>3
           DEF Status, ChannelRecord, States
      <4> HIDE DEF d
      <4>2. Live(d)
        BY <4>1 DEF Live
      <4> QED
        BY <2>8, <4>1, <4>2, ViewFields DEF Lives, ViewStep
    <3> QED
      BY <3>2, <3>3
  <2> QED
    BY <2>9, <2>10
<1> QED
  BY <1>1, <1>2

\* A channel that newChannel just returned.
LEMMA NewChannelLife ==
  /\ Live(NewChannel)
  /\ \A registered \in BOOLEAN :
       View(NewChannel, registered) =
         [status |-> IF registered THEN "init" ELSE "unknown",
          streaming |-> FALSE, sent |-> 0]
BY DEF Live, View, Status, NewChannel

-----------------------------------------------------------------------------
(***************************************************************************)
(* The methods set and stop timers; none makes one expire.  And what they  *)
(* do to the lock.                                                         *)
(***************************************************************************)
NoneFires(c, d) ==
  /\ d.channelTimeout = "fired" => c.channelTimeout = "fired"
  /\ d.backChannelExpiration = "fired" => c.backChannelExpiration = "fired"

LEMMA ClearFires ==
  ASSUME NEW c \in ChannelRecord, NEW permanent \in BOOLEAN
  PROVE  NoneFires(c, ClearBackChannel(c, permanent))
BY DEF ClearBackChannel, NoneFires, ChannelRecord

LEMMA TerminateFires ==
  ASSUME NEW c \in ChannelRecord, c.lock = "free",
         c.state \in {"init", "ready"} => ~c.mapChanClosed
  PROVE  NoneFires(c, TerminateInternal(c))
<1> DEFINE e == IF c.state \in {"init", "ready"} THEN CloseMapChan(c) ELSE c
           f == ClearBackChannel(e, TRUE)
<1>1. /\ e \in ChannelRecord
      /\ e.lock # "panicked"
      /\ e.channelTimeout = c.channelTimeout
      /\ e.backChannelExpiration = c.backChannelExpiration
  BY DEF CloseMapChan, ChannelRecord
<1>2. TerminateInternal(c) = [f EXCEPT !.lock = "heartbeatStop"]
  BY <1>1 DEF TerminateInternal
<1> HIDE DEF e
<1>3. NoneFires(e, f) /\ f \in ChannelRecord
  BY <1>1, ClearFires, ClearBackChannelType
<1> HIDE DEF f
<1> QED
  BY <1>1, <1>2, <1>3 DEF NoneFires, ChannelRecord

LEMMA FlushFires ==
  ASSUME NEW c \in ChannelRecord, Window(c), c.lock = "free"
  PROVE  NoneFires(c, Flush(c))
<1>1. CASE c.backChannel = None \/ c.lastArrayId = c.lastSentArrayId
  BY <1>1 DEF Flush, NoneFires
<1>2. CASE ~(c.backChannel = None \/ c.lastArrayId = c.lastSentArrayId)
  <2> DEFINE e == SendUnsent(c)
             sent == CanSend(c.bcs[c.backChannel])
  <2>1. Flush(c) = AfterSend(e, sent)
    BY <1>2 DEF Flush
  <2>2. /\ e \in ChannelRecord
        /\ e.channelTimeout = c.channelTimeout
        /\ e.backChannelExpiration = c.backChannelExpiration
        /\ e.lock = "free"
        /\ e.state = c.state
    BY <1>2, SendUnsentProperties
  <2> HIDE DEF e, sent
  <2>3. \/ e.state = "writeClosed" /\ AfterSend(e, sent) = TerminateInternal(e)
        \/ AfterSend(e, sent) = ClearBackChannel(e, FALSE)
        \/ AfterSend(e, sent) = e
    BY DEF AfterSend
  <2>4. NoneFires(e, AfterSend(e, sent))
    BY <2>2, <2>3, ClearFires, TerminateFires DEF NoneFires
  <2> QED
    BY <2>1, <2>2, <2>4 DEF NoneFires
<1> QED
  BY <1>1, <1>2

\* terminateInternal leaves the channel timeout as it is: a timer that was armed
\* will expire once more.
LEMMA TerminateTimeout ==
  ASSUME NEW c \in ChannelRecord, c.lock = "free",
         c.state \in {"init", "ready"} => ~c.mapChanClosed
  PROVE  TerminateInternal(c).channelTimeout = c.channelTimeout
<1> DEFINE e == IF c.state \in {"init", "ready"} THEN CloseMapChan(c) ELSE c
           f == ClearBackChannel(e, TRUE)
<1>1. e \in ChannelRecord /\ e.lock # "panicked" /\ e.channelTimeout = c.channelTimeout
  BY DEF CloseMapChan, ChannelRecord
<1>2. TerminateInternal(c) = [f EXCEPT !.lock = "heartbeatStop"]
  BY <1>1 DEF TerminateInternal
<1> HIDE DEF e
<1>3. f \in ChannelRecord /\ f.channelTimeout = e.channelTimeout
  BY <1>1, ClearBackChannelType DEF ClearBackChannel, ChannelRecord
<1> HIDE DEF f
<1> QED
  BY <1>1, <1>2, <1>3 DEF ChannelRecord

\* flush terminates none but a channel that is closed for writing.
LEMMA FlushReturns ==
  ASSUME NEW c \in ChannelRecord, Window(c), c.lock = "free", c.state # "writeClosed"
  PROVE  Flush(c).state = c.state /\ Flush(c).lock = "free"
<1>1. CASE c.backChannel = None \/ c.lastArrayId = c.lastSentArrayId
  BY <1>1 DEF Flush
<1>2. CASE ~(c.backChannel = None \/ c.lastArrayId = c.lastSentArrayId)
  <2> DEFINE e == SendUnsent(c)
             sent == CanSend(c.bcs[c.backChannel])
  <2>1. Flush(c) = AfterSend(e, sent)
    BY <1>2 DEF Flush
  <2>2. e \in ChannelRecord /\ e.lock = "free" /\ e.state = c.state
    BY <1>2, SendUnsentProperties
  <2>3. sent \in BOOLEAN
    BY DEF CanSend
  <2> HIDE DEF e, sent
  <2> QED
    BY <2>1, <2>2, <2>3, AfterSendProperties
<1> QED
  BY <1>1, <1>2

LEMMA SendArrayReturned ==
  ASSUME NEW c \in ChannelRecord, Window(c), c.lock = "free", NEW e \in Elements
  PROVE  SendArray(c, e).state = c.state /\ SendArray(c, e).lock = "free"
<1>1. CASE c.state # "ready"
  BY <1>1 DEF SendArray
<1>2. CASE c.state = "ready"
  <2> DEFINE q == QueueArray(c, e)
  <2>1. SendArray(c, e) = Flush(q)
    BY <1>2 DEF SendArray
  <2>2. q \in ChannelRecord /\ Window(q) /\ q.state = "ready" /\ q.lock = "free"
    BY <1>2, QueueArrayType, QueueArrayWindow, QueueArrayFrame
  <2> HIDE DEF q
  <2> QED
    BY <1>2, <2>1, <2>2, FlushReturns
<1> QED
  BY <1>1, <1>2

LEMMA SetBackChannelFires ==
  ASSUME NEW c, Sound(c), c.lock = "free", NEW b \in BackChannels
  PROVE  /\ NoneFires(c, SetBackChannel(c, b))
         /\ c.state # "writeClosed" =>
              /\ SetBackChannel(c, b).lock = "free"
              /\ SetBackChannel(c, b).state = IF c.state = "init" THEN "ready" ELSE c.state
<1>0. c \in ChannelRecord
  BY DEF Sound, Consistent
<1>1. CASE c.state = "closed"
  BY <1>0, <1>1 DEF SetBackChannel, NoneFires, ChannelRecord
<1>2. CASE c.state # "closed"
  <2> DEFINE o == OpenChannel(c)
             f == ClearBackChannel(o, FALSE)
             i == InstallBackChannel(f, b)
  <2>0. o.state = IF c.state = "init" THEN "ready" ELSE c.state
    BY <1>0 DEF OpenChannel, QueueArray, ChannelRecord
  <2>1. Sound(o) /\ o.lock = "free" /\ o.state # "closed"
    BY <1>2, OpenChannelSound
  <2> HIDE DEF o
  <2>2. /\ Sound(f)
        /\ f.lock = "free"
        /\ f.state = o.state
        /\ f.backChannel = None
    BY <2>1, ClearBackChannelSound, ClearBackChannelFrame DEF Sound, Consistent
  <2> HIDE DEF f
  <2>3. f \in ChannelRecord /\ Window(f) /\ f.channelTimeout # "nil"
    BY <2>1, <2>2 DEF Sound, Consistent, Timed
  <2>4. /\ i.lock = "free"
        /\ i.state = f.state
        /\ i.channelTimeout = "nil"
        /\ i.backChannelExpiration = "armed"
        /\ i.outgoingArrays = f.outgoingArrays
        /\ i.lastArrayId = f.lastArrayId
        /\ i.lastSentArrayId = IF f.outgoingArrays # <<>>
                                 THEN f.outgoingArrays[1].index - 1
                                 ELSE f.lastSentArrayId
    BY <2>2, <2>3 DEF InstallBackChannel, ChannelRecord
  <2>5. i \in ChannelRecord /\ Window(i)
    <3> DEFINE n == Len(f.outgoingArrays)
    <3>1. n \in Nat /\ f.lastArrayId \in Nat /\ f.lastSentArrayId \in Int
      BY <2>3 DEF ChannelRecord
    <3>2. f.outgoingArrays # <<>> =>
            /\ n # 0
            /\ f.outgoingArrays[1].index - 1 \in Int
            /\ f.outgoingArrays[1].index = f.lastArrayId - n + 1
      <4>1. ASSUME f.outgoingArrays # <<>>
            PROVE  f.outgoingArrays[1] \in OutgoingArray /\ 1 \in 1..n
        BY <2>3, <4>1 DEF ChannelRecord
      <4> QED
        BY <2>3, <4>1 DEF OutgoingArray, Window
    <3>3. i \in ChannelRecord
      BY <2>3, <3>2 DEF InstallBackChannel, ChannelRecord, Timers
    <3> QED
      BY <2>3, <2>4, <3>1, <3>2, <3>3 DEF Window
  <2>6. SetBackChannel(c, b) = Flush(i)
    BY <1>2, <2>4 DEF SetBackChannel, o, f
  <2> HIDE DEF i
  <2>7. NoneFires(i, Flush(i))
    BY <2>4, <2>5, FlushFires
  <2>8. i.state # "writeClosed" =>
          Flush(i).state = i.state /\ Flush(i).lock = "free"
    BY <2>4, <2>5, FlushReturns
  <2> QED
    BY <2>0, <2>2, <2>4, <2>6, <2>7, <2>8 DEF NoneFires
<1> QED
  BY <1>1, <1>2
=============================================================================
