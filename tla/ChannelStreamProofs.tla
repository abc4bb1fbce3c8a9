------------------------ MODULE ChannelStreamProofs ------------------------
(***************************************************************************)
(* The proof that a channel implements the stream of arrays of ArrayStream *)
(* when every array can be marshalled.  What the client's back channel is  *)
(* about to deliver continues what the client received (Delivers), and a   *)
(* back channel that is about to be set is preceded by an acknowledgment   *)
(* of just that (Released).                                                *)
(***************************************************************************)
EXTENDS ChannelFlowProofs

-----------------------------------------------------------------------------
(***************************************************************************)
(* The methods.                                                            *)
(***************************************************************************)

\* The chunks of q hold the arrays after n up to m; f says where each starts.
Carries(q, n, m) ==
  \E f \in [1..(Len(q) + 1) -> Nat] :
    /\ f[1] = n
    /\ f[Len(q) + 1] = m
    /\ \A k \in 1..Len(q) :
         /\ f[k + 1] = f[k] + Len(q[k])
         /\ \A i \in 1..Len(q[k]) : q[k][i].index = f[k] + i

\* What b buffers continues what a client that received n arrays has; if b is
\* the back channel, the next flush continues that.
Delivers(c, b, n) ==
  \E m \in Nat :
    /\ Carries(c.bcs[b].dataChan, n, m)
    /\ c.backChannel = b => m = c.lastSentArrayId

\* The last array the server has forgotten.
Released(c) == c.lastArrayId - Len(c.outgoingArrays)

\* An empty data channel carries nothing.
LEMMA CarriesNothing ==
  ASSUME NEW n \in Nat
  PROVE  Carries(<<>>, n, n)
<1> DEFINE f == [k \in 1..1 |-> n]
<1>1. /\ f \in [1..(Len(<<>>) + 1) -> Nat]
      /\ f[1] = n
      /\ f[Len(<<>>) + 1] = n
  OBVIOUS
<1>2. \A k \in 1..Len(<<>>) : FALSE
  OBVIOUS
<1> QED
  BY <1>1, <1>2 DEF Carries

\* A chunk that continues the last one may follow it.
LEMMA CarriesAppend ==
  ASSUME NEW q \in Seq(Seq(OutgoingArray)), NEW s \in Seq(OutgoingArray),
         NEW n \in Nat, NEW m \in Nat, Carries(q, n, m),
         \A i \in 1..Len(s) : s[i].index = m + i
  PROVE  Carries(Append(q, s), n, m + Len(s))
<1> DEFINE p == Append(q, s)
           l == Len(q)
<1>1. PICK f \in [1..(l + 1) -> Nat] :
        /\ f[1] = n
        /\ f[l + 1] = m
        /\ \A k \in 1..l :
             /\ f[k + 1] = f[k] + Len(q[k])
             /\ \A i \in 1..Len(q[k]) : q[k][i].index = f[k] + i
  BY DEF Carries
<1>2. /\ l \in Nat
      /\ Len(p) = l + 1
      /\ \A k \in 1..l : p[k] = q[k]
      /\ p[l + 1] = s
      /\ Len(s) \in Nat
  OBVIOUS
<1> HIDE DEF p, l
<1> DEFINE g == [k \in 1..(Len(p) + 1) |-> IF k = l + 2 THEN m + Len(s) ELSE f[k]]
<1>3. g \in [1..(Len(p) + 1) -> Nat]
  <2> SUFFICES ASSUME NEW k \in 1..(Len(p) + 1)
               PROVE  (IF k = l + 2 THEN m + Len(s) ELSE f[k]) \in Nat
    OBVIOUS
  <2>1. k = l + 2 \/ k \in 1..(l + 1)
    BY <1>2
  <2> QED
    BY <1>1, <1>2, <2>1
<1>4. /\ g[l + 2] = m + Len(s)
      /\ \A k \in 1..(l + 1) : g[k] = f[k]
  BY <1>2
<1> HIDE DEF g
<1>5. g[1] = n /\ g[Len(p) + 1] = m + Len(s)
  BY <1>1, <1>2, <1>4
<1>6. ASSUME NEW k \in 1..Len(p)
      PROVE  /\ g[k + 1] = g[k] + Len(p[k])
             /\ \A i \in 1..Len(p[k]) : p[k][i].index = g[k] + i
  <2>1. CASE k = l + 1
    BY <1>1, <1>2, <1>4, <2>1
  <2>2. CASE k # l + 1
    <3>1. k \in 1..l /\ k \in 1..(l + 1) /\ k + 1 \in 1..(l + 1)
      BY <1>2, <2>2
    <3>2. g[k] = f[k] /\ g[k + 1] = f[k + 1] /\ p[k] = q[k]
      BY <1>2, <1>4, <3>1
    <3> QED
      BY <1>1, <3>1, <3>2
  <2> QED
    BY <2>1, <2>2
<1> QED
  BY <1>3, <1>5, <1>6 DEF Carries, p

\* The first chunk starts with the array that is due, and the others continue
\* it.
LEMMA CarriesTail ==
  ASSUME NEW q \in Seq(Seq(OutgoingArray)), q # <<>>,
         NEW n \in Nat, NEW m \in Nat, Carries(q, n, m)
  PROVE  /\ Carries(Tail(q), n + Len(Head(q)), m)
         /\ \A i \in 1..Len(Head(q)) : Head(q)[i].index = n + i
<1> DEFINE p == Tail(q)
           l == Len(p)
<1>1. /\ l \in Nat
      /\ Len(q) = l + 1
      /\ \A k \in 1..l : p[k] = q[k + 1]
      /\ Head(q) = q[1]
      /\ Len(q[1]) \in Nat
  OBVIOUS
<1>2. PICK f \in [1..(Len(q) + 1) -> Nat] :
        /\ f[1] = n
        /\ f[Len(q) + 1] = m
        /\ \A k \in 1..Len(q) :
             /\ f[k + 1] = f[k] + Len(q[k])
             /\ \A i \in 1..Len(q[k]) : q[k][i].index = f[k] + i
  BY DEF Carries
<1> HIDE DEF p, l
<1> DEFINE g == [k \in 1..(l + 1) |-> f[k + 1]]
<1>3. /\ g \in [1..(l + 1) -> Nat]
      /\ \A k \in 1..(l + 1) : g[k] = f[k + 1]
  BY <1>1, <1>2
<1> HIDE DEF g
<1>4. g[1] = n + Len(Head(q)) /\ g[l + 1] = m
  BY <1>1, <1>2, <1>3
<1>5. ASSUME NEW k \in 1..l
      PROVE  /\ g[k + 1] = g[k] + Len(p[k])
             /\ \A i \in 1..Len(p[k]) : p[k][i].index = g[k] + i
  <2>1. k \in 1..(l + 1) /\ k + 1 \in 1..(l + 1) /\ k + 1 \in 1..Len(q)
    BY <1>1
  <2>2. g[k] = f[k + 1] /\ g[k + 1] = f[(k + 1) + 1] /\ p[k] = q[k + 1]
    BY <1>1, <1>3, <2>1
  <2>3. /\ f[(k + 1) + 1] = f[k + 1] + Len(q[k + 1])
        /\ \A i \in 1..Len(q[k + 1]) : q[k + 1][i].index = f[k + 1] + i
    BY <1>2, <2>1
  <2> QED
    BY <2>2, <2>3
<1>6. \A i \in 1..Len(Head(q)) : Head(q)[i].index = n + i
  BY <1>1, <1>2
<1> QED
  BY <1>3, <1>4, <1>5, <1>6 DEF Carries, p, l

\* The slice that flush sends starts after the last array sent.
LEMMA UnsentContinues ==
  ASSUME NEW c \in ChannelRecord, Window(c)
  PROVE  /\ Unsent(c) \in Seq(OutgoingArray)
         /\ Len(Unsent(c)) = c.lastArrayId - c.lastSentArrayId
         /\ \A i \in 1..Len(Unsent(c)) : Unsent(c)[i].index = c.lastSentArrayId + i
<1> DEFINE out == c.outgoingArrays
           next == Len(out) - (c.lastArrayId - c.lastSentArrayId)
<1>1. /\ out \in Seq(OutgoingArray)
      /\ Len(out) \in Nat
      /\ c.lastArrayId \in Nat
      /\ c.lastSentArrayId \in Int
      /\ \A i \in 1..Len(out) : out[i].index = c.lastArrayId - Len(out) + i
  BY DEF ChannelRecord, Window
<1>2. next \in 0..Len(out)
  BY <1>1 DEF Window
<1>3. Unsent(c) = SubSeq(out, next + 1, Len(out))
  BY DEF Unsent
<1>4. /\ Unsent(c) \in Seq(OutgoingArray)
      /\ Len(Unsent(c)) = Len(out) - next
      /\ \A i \in 1..Len(Unsent(c)) : Unsent(c)[i] = out[next + i]
  <2> HIDE DEF out, next
  <2> QED
    BY <1>1, <1>2, <1>3
<1>5. Len(Unsent(c)) = c.lastArrayId - c.lastSentArrayId
  <2>1. Len(out) - next = c.lastArrayId - c.lastSentArrayId
    BY <1>1
  <2> QED
    BY <1>4, <2>1
<1>6. ASSUME NEW i \in 1..Len(Unsent(c))
      PROVE  Unsent(c)[i].index = c.lastSentArrayId + i
  <2>1. next + i \in 1..Len(out)
    BY <1>1, <1>2, <1>4
  <2>2. out[next + i].index = c.lastArrayId - Len(out) + (next + i)
    BY <1>1, <2>1
  <2>3. Unsent(c)[i].index = out[next + i].index
    BY <1>4
  <2>4. c.lastArrayId - Len(out) + (next + i) = c.lastSentArrayId + i
    BY <1>1
  <2> QED
    BY <2>2, <2>3, <2>4
<1> QED
  BY <1>4, <1>5, <1>6

\* The data channels are the same, and no flush will write to another one.
LEMMA DeliversFrame ==
  ASSUME NEW c, NEW d, NEW b, NEW n, Delivers(c, b, n),
         d.bcs[b].dataChan = c.bcs[b].dataChan,
         d.backChannel = b =>
           c.backChannel = b /\ d.lastSentArrayId = c.lastSentArrayId
  PROVE  Delivers(d, b, n)
BY DEF Delivers

\* clearBackChannel and terminateInternal leave what is buffered to be read.
LEMMA ClearDelivers ==
  ASSUME NEW c \in ChannelRecord, NEW permanent \in BOOLEAN,
         NEW b \in BackChannels, NEW n, Delivers(c, b, n)
  PROVE  Delivers(ClearBackChannel(c, permanent), b, n)
BY ClearBackChannelFrame, DeliversFrame, NoneAssumption DEF SameData

LEMMA TerminateDelivers ==
  ASSUME NEW c \in ChannelRecord, c.lock = "free",
         c.state \in {"init", "ready"} => ~c.mapChanClosed,
         NEW b \in BackChannels, NEW n, Delivers(c, b, n)
  PROVE  Delivers(TerminateInternal(c), b, n)
<1>1. /\ TerminateInternal(c).lastSentArrayId = c.lastSentArrayId
      /\ SameData(c, TerminateInternal(c))
  BY TerminateInternalProperties
<1>2. TerminateInternal(c).backChannel = None
  <2> DEFINE e == IF c.state \in {"init", "ready"} THEN CloseMapChan(c) ELSE c
             f == ClearBackChannel(e, TRUE)
  <2>1. e \in ChannelRecord /\ e.lock = "free"
    BY DEF CloseMapChan, ChannelRecord
  <2>2. TerminateInternal(c) = [f EXCEPT !.lock = "heartbeatStop"]
    BY <2>1 DEF TerminateInternal
  <2> HIDE DEF e
  <2>3. f \in ChannelRecord /\ f.backChannel = None
    BY <2>1, ClearBackChannelType, ClearBackChannelFrame
  <2> QED
    BY <2>2, <2>3 DEF ChannelRecord
<1> QED
  BY <1>1, <1>2, DeliversFrame, NoneAssumption DEF SameData

\* flush appends what follows the last array sent, or gives the back channel
\* up; it forgets no array.
LEMMA FlushDelivers ==
  ASSUME Unmarshalable = {},
         NEW c \in ChannelRecord, Window(c), c.lock = "free",
         c.state \in {"init", "ready"} => ~c.mapChanClosed
  PROVE  /\ \A b \in BackChannels, n \in Nat :
              Delivers(c, b, n) => Delivers(Flush(c), b, n)
         /\ Flush(c).lastArrayId = c.lastArrayId
         /\ Flush(c).outgoingArrays = c.outgoingArrays
<1>1. CASE c.backChannel = None \/ c.lastArrayId = c.lastSentArrayId
  BY <1>1 DEF Flush
<1>2. CASE ~(c.backChannel = None \/ c.lastArrayId = c.lastSentArrayId)
  <2> DEFINE e == SendUnsent(c)
             x == c.backChannel
             sent == CanSend(c.bcs[x])
             data == Unsent(c)
  <2>1. Flush(c) = AfterSend(e, sent)
    BY <1>2 DEF Flush
  <2>2. x \in BackChannels /\ c.bcs[x] \in BackChannelRecord(OutgoingArray)
    BY <1>2 DEF ChannelRecord
  <2>3. /\ e \in ChannelRecord
        /\ e.state = c.state
        /\ e.backChannel = x
        /\ e.outgoingArrays = c.outgoingArrays
        /\ e.lastArrayId = c.lastArrayId
        /\ e.lastSentArrayId = IF sent THEN c.lastArrayId ELSE c.lastSentArrayId
        /\ e.mapChanClosed = c.mapChanClosed
        /\ e.lock = "free"
    BY <1>2, SendUnsentProperties
  <2>4. /\ data \in Seq(OutgoingArray)
        /\ Len(data) = c.lastArrayId - c.lastSentArrayId
        /\ \A i \in 1..Len(data) : data[i].index = c.lastSentArrayId + i
    BY UnsentContinues
  <2>5. e.bcs = [c.bcs EXCEPT ![x] = Send(@, data)]
    BY DEF SendUnsent, Marshal, ChannelRecord
  <2>6. sent \in BOOLEAN
    BY DEF CanSend
  <2> HIDE DEF data
  <2>7. /\ \A y \in BackChannels : y # x => e.bcs[y] = c.bcs[y]
        /\ e.bcs[x].dataChan = IF sent THEN Append(c.bcs[x].dataChan, data)
                                       ELSE c.bcs[x].dataChan
    BY <2>2, <2>5 DEF Send, BackChannelRecord, ChannelRecord
  <2> HIDE DEF e
  <2>8. ASSUME NEW b \in BackChannels, NEW n \in Nat, Delivers(c, b, n)
        PROVE  Delivers(e, b, n)
    <3>1. CASE b # x
      BY <2>3, <2>7, <2>8, <3>1, DeliversFrame
    <3>2. CASE b = x /\ ~sent
      BY <2>3, <2>7, <2>8, <3>2, DeliversFrame
    <3>3. CASE b = x /\ sent
      <4>1. PICK m \in Nat : /\ Carries(c.bcs[x].dataChan, n, m)
                             /\ m = c.lastSentArrayId
        BY <2>8, <3>3 DEF Delivers
      <4>2. c.bcs[x].dataChan \in Seq(Seq(OutgoingArray))
        BY <2>2 DEF BackChannelRecord
      <4>3. Carries(Append(c.bcs[x].dataChan, data), n, m + Len(data))
        BY <2>4, <4>1, <4>2, CarriesAppend
      <4>4. m + Len(data) = c.lastArrayId /\ c.lastArrayId \in Nat
        BY <2>4, <4>1 DEF ChannelRecord
      <4> QED
        BY <2>3, <2>7, <3>3, <4>3, <4>4 DEF Delivers
    <3> QED
      BY <3>1, <3>2, <3>3
  <2>9. ASSUME NEW b \in BackChannels, NEW n \in Nat, Delivers(e, b, n)
        PROVE  Delivers(AfterSend(e, sent), b, n)
    BY <2>3, <2>9, TerminateDelivers, ClearDelivers DEF AfterSend
  <2>10. /\ AfterSend(e, sent).lastArrayId = e.lastArrayId
         /\ AfterSend(e, sent).outgoingArrays = e.outgoingArrays
    BY <2>3, <2>6, AfterSendProperties
  <2> QED
    BY <2>1, <2>3, <2>8, <2>9, <2>10
<1> QED
  BY <1>1, <1>2

\* A new array goes to whoever the flush sends it to.
LEMMA QueueFlushDelivers ==
  ASSUME Unmarshalable = {},
         NEW c \in ChannelRecord, Window(c), c.lock = "free",
         c.state \in {"init", "ready"} => ~c.mapChanClosed, NEW e \in Elements
  PROVE  LET d == Flush(QueueArray(c, e))
         IN  /\ \A b \in BackChannels, n \in Nat :
                  Delivers(c, b, n) => Delivers(d, b, n)
             /\ d.lastArrayId = c.lastArrayId + 1
             /\ Released(d) = Released(c)
<1> DEFINE q == QueueArray(c, e)
<1>1. /\ q \in ChannelRecord
      /\ Window(q)
      /\ q.lastArrayId = c.lastArrayId + 1
      /\ Len(q.outgoingArrays) = Len(c.outgoingArrays) + 1
  BY QueueArrayType, QueueArrayWindow
<1>2. /\ q.state = c.state
      /\ q.lastSentArrayId = c.lastSentArrayId
      /\ q.bcs = c.bcs
      /\ q.backChannel = c.backChannel
      /\ q.mapChanClosed = c.mapChanClosed
      /\ q.lock = "free"
  BY QueueArrayFrame
<1> HIDE DEF q
<1>3. ASSUME NEW b \in BackChannels, NEW n \in Nat, Delivers(c, b, n)
      PROVE  Delivers(q, b, n)
  BY <1>2, <1>3, DeliversFrame
<1>4. /\ \A b \in BackChannels, n \in Nat :
           Delivers(q, b, n) => Delivers(Flush(q), b, n)
      /\ Flush(q).lastArrayId = q.lastArrayId
      /\ Flush(q).outgoingArrays = q.outgoingArrays
  BY <1>1, <1>2, FlushDelivers
<1>5. Released(Flush(q)) = Released(c)
  <2>1. Len(c.outgoingArrays) \in Nat /\ c.lastArrayId \in Nat
    BY DEF ChannelRecord
  <2> QED
    BY <1>1, <1>4, <2>1 DEF Released
<1> QED
  BY <1>1, <1>3, <1>4, <1>5 DEF q

\* What is acknowledged, and only that, is forgotten.
LEMMA AcknowledgeReleases ==
  ASSUME NEW c, Sound(c), NEW aid \in Nat, aid <= c.lastSentArrayId
  PROVE  LET d == AcknowledgeArrays(c, aid)
         IN  /\ Released(d) = IF Released(c) < aid THEN aid ELSE Released(c)
             /\ d.bcs = c.bcs
             /\ d.backChannel = c.backChannel
             /\ d.lastArrayId = c.lastArrayId
             /\ d.lastSentArrayId = c.lastSentArrayId
<1> DEFINE out == c.outgoingArrays
           acked == {i \in 1..Len(out) : \A j \in 1..i : out[j].index <= aid}
           a == Released(c)
           k == IF a < aid THEN aid - a ELSE 0
           d == AcknowledgeArrays(c, aid)
<1>1. /\ out \in Seq(OutgoingArray)
      /\ Len(out) \in Nat
      /\ c.lastArrayId \in Nat
      /\ c.lastSentArrayId \in Int
      /\ a \in Int
      /\ a + Len(out) = c.lastArrayId
      /\ \A i \in 1..Len(out) : out[i].index = a + i
      /\ c.lastSentArrayId <= c.lastArrayId
  BY DEF Sound, Consistent, Window, ChannelRecord, Released
<1> HIDE DEF a
<1>2. k \in 0..Len(out)
  BY <1>1
<1>3. acked = 1..k
  <2> HIDE DEF out
  <2>1. ASSUME NEW i \in 1..Len(out)
        PROVE  (\A j \in 1..i : out[j].index <= aid) <=> i \in 1..k
    <3>1. ASSUME \A j \in 1..i : out[j].index <= aid
          PROVE  i \in 1..k
      <4>1. a + i <= aid
        BY <1>1, <3>1
      <4> QED
        BY <1>1, <4>1
    <3>2. ASSUME i \in 1..k, NEW j \in 1..i
          PROVE  out[j].index <= aid
      <4>1. j \in 1..Len(out) /\ a + j <= aid
        BY <1>1, <3>2
      <4> QED
        BY <1>1, <4>1
    <3> QED
      BY <3>1, <3>2
  <2>2. \A i \in 1..k : i \in 1..Len(out)
    BY <1>1, <1>2
  <2> HIDE DEF k
  <2> QED
    BY <2>1, <2>2
<1>4. Acknowledged(c, aid) = k
  <2>1. Cardinality(1..k) = k
    <3> HIDE DEF k
    <3> QED
      BY <1>2, FS_Interval
  <2>2. Acknowledged(c, aid) = Cardinality(acked)
    BY DEF Acknowledged
  <2> HIDE DEF acked, k
  <2> QED
    BY <1>3, <2>1, <2>2
<1>5. Len(SubSeq(out, k + 1, Len(out))) = Len(out) - k
  <2> HIDE DEF out, k
  <2> QED
    BY <1>1, <1>2
<1>6. /\ d.outgoingArrays = SubSeq(out, k + 1, Len(out))
      /\ d.bcs = c.bcs
      /\ d.backChannel = c.backChannel
      /\ d.lastArrayId = c.lastArrayId
      /\ d.lastSentArrayId = c.lastSentArrayId
  <2> HIDE DEF k
  <2> QED
    BY <1>4 DEF AcknowledgeArrays, Sound, Consistent, ChannelRecord
<1>7. Released(d) = a + k
  <2>1. Released(d) = c.lastArrayId - (Len(out) - k)
    BY <1>5, <1>6 DEF Released
  <2> HIDE DEF out, d
  <2> QED
    BY <1>1, <1>2, <2>1
<1>8. a + k = IF a < aid THEN aid ELSE a
  BY <1>1
<1> QED
  BY <1>6, <1>7, <1>8 DEF a

\* setBackChannel starts the new back channel after the last array that was
\* acknowledged, and the old one keeps what it has.
LEMMA SetBackChannelDelivers ==
  ASSUME Unmarshalable = {},
         NEW c, Sound(c), c.lock = "free", NEW b \in BackChannels,
         c.bcs[b].dataChan = <<>>, c.backChannel # b, Released(c) \in Nat
  PROVE  LET d == SetBackChannel(c, b)
         IN  /\ \A x \in BackChannels, n \in Nat :
                  x # b /\ Delivers(c, x, n) => Delivers(d, x, n)
             /\ Delivers(d, b, Released(c))
             /\ d.lastArrayId \in {c.lastArrayId, c.lastArrayId + 1}
             /\ Released(d) = Released(c)
<1>0. c \in ChannelRecord /\ Carries(<<>>, Released(c), Released(c))
  BY CarriesNothing DEF Sound, Consistent
<1>1. CASE c.state = "closed"
  <2> DEFINE d == [c EXCEPT !.bcs[b] = Discard(@)]
  <2>1. SetBackChannel(c, b) = d
    BY <1>1 DEF SetBackChannel
  <2>2. /\ d.backChannel = c.backChannel
        /\ d.bcs = [c.bcs EXCEPT ![b] = Discard(@)]
        /\ d.lastArrayId = c.lastArrayId
        /\ d.lastSentArrayId = c.lastSentArrayId
        /\ d.outgoingArrays = c.outgoingArrays
    BY <1>0 DEF ChannelRecord
  <2> HIDE DEF d
  <2>3. \A x \in BackChannels : d.bcs[x].dataChan = c.bcs[x].dataChan
    BY <1>0, <2>2 DEF Discard, ChannelRecord, BackChannelRecord
  <2>4. \A x \in BackChannels, n \in Nat : Delivers(c, x, n) => Delivers(d, x, n)
    BY <2>2, <2>3, DeliversFrame
  <2>5. Delivers(d, b, Released(c))
    BY <1>0, <2>2, <2>3 DEF Delivers
  <2>6. Released(d) = Released(c)
    BY <2>2 DEF Released
  <2> QED
    BY <2>1, <2>2, <2>4, <2>5, <2>6
<1>2. CASE c.state # "closed"
  <2> DEFINE o == OpenChannel(c)
             f == ClearBackChannel(o, FALSE)
             d == InstallBackChannel(f, b)
  <2>1. /\ Sound(o) /\ o.lock = "free"
        /\ o.bcs = c.bcs
        /\ o.state # "closed"
        /\ o.lastArrayId \in {c.lastArrayId, c.lastArrayId + 1}
    BY <1>2, OpenChannelSound
  <2>2. Released(o) = Released(c)
    <3>1. CASE c.state = "init"
      <4> DEFINE q == QueueArray(c, "c")
      <4>1. /\ q \in ChannelRecord
            /\ q.lastArrayId = c.lastArrayId + 1
            /\ Len(q.outgoingArrays) = Len(c.outgoingArrays) + 1
        BY QueueArrayType, QueueArrayWindow DEF Sound, Consistent, Elements
      <4> HIDE DEF q
      <4>2. /\ [q EXCEPT !.state = "ready"].lastArrayId = q.lastArrayId
            /\ [q EXCEPT !.state = "ready"].outgoingArrays = q.outgoingArrays
        BY <4>1 DEF ChannelRecord
      <4>3. o = [q EXCEPT !.state = "ready"]
        BY <3>1 DEF OpenChannel, q
      <4>4. c.lastArrayId \in Nat /\ Len(c.outgoingArrays) \in Nat
        BY <1>0 DEF ChannelRecord
      <4> HIDE DEF o
      <4> QED
        BY <4>1, <4>2, <4>3, <4>4 DEF Released
    <3>2. CASE c.state # "init"
      BY <3>2 DEF OpenChannel
    <3> QED
      BY <3>1, <3>2
  <2> HIDE DEF o
  <2>3. /\ Sound(f) /\ f.lock = "free"
        /\ f.state # "closed"
        /\ f.backChannel = None
        /\ f.outgoingArrays = o.outgoingArrays
        /\ f.lastArrayId = o.lastArrayId
        /\ SameData(o, f)
    BY <2>1, ClearBackChannelSound
  <2> HIDE DEF f
  <2>4. /\ f \in ChannelRecord
        /\ Window(f)
        /\ f.channelTimeout # "nil"
        /\ f.state \in {"init", "ready"} => ~f.mapChanClosed
        /\ Released(f) = Released(c)
    BY <2>2, <2>3 DEF Sound, Consistent, Timed, MapChanMatches, Released
  <2>5. /\ d.backChannel = b
        /\ d.bcs = f.bcs
        /\ d.state = f.state
        /\ d.mapChanClosed = f.mapChanClosed
        /\ d.outgoingArrays = f.outgoingArrays
        /\ d.lastArrayId = f.lastArrayId
        /\ d.lastSentArrayId = IF f.outgoingArrays # <<>>
                                 THEN f.outgoingArrays[1].index - 1
                                 ELSE f.lastSentArrayId
        /\ d.lock = "free"
    BY <2>3, <2>4 DEF InstallBackChannel, ChannelRecord
  <2>6. d.lastSentArrayId = Released(c)
    <3> DEFINE n == Len(f.outgoingArrays)
    <3>1. n \in Nat /\ f.lastArrayId \in Nat /\ f.lastSentArrayId \in Int
      BY <2>4 DEF ChannelRecord
    <3>2. CASE n = 0
      <4>1. f.outgoingArrays = <<>>
        BY <2>4, <3>2 DEF ChannelRecord
      <4>2. f.lastSentArrayId = f.lastArrayId
        BY <2>4, <3>1, <3>2 DEF Window
      <4> QED
        BY <2>4, <2>5, <3>1, <3>2, <4>1, <4>2 DEF Released
    <3>3. CASE n # 0
      <4>1. f.outgoingArrays # <<>> /\ 1 \in 1..n
        BY <3>1, <3>3
      <4>2. f.outgoingArrays[1].index = f.lastArrayId - n + 1
        BY <2>4, <4>1 DEF Window
      <4>3. d.lastSentArrayId = f.lastArrayId - n
        BY <2>5, <3>1, <4>1, <4>2
      <4> QED
        BY <2>4, <4>3 DEF Released
    <3> QED
      BY <3>2, <3>3
  <2>7. d \in ChannelRecord
    <3>1. f.outgoingArrays # <<>> => f.outgoingArrays[1].index - 1 \in Int
      BY <2>5, <2>6
    <3> QED
      BY <2>4, <3>1 DEF InstallBackChannel, ChannelRecord, Timers
  <2>8. SetBackChannel(c, b) = Flush(d)
    BY <1>2, <2>5 DEF SetBackChannel, o, f
  <2> HIDE DEF d
  <2>9. Window(d)
    <3>1. Len(f.outgoingArrays) \in Nat /\ f.lastArrayId \in Nat
      BY <2>4 DEF ChannelRecord
    <3> QED
      BY <2>4, <2>5, <2>6, <3>1 DEF Window, Released
  <2>10. \A x \in BackChannels : d.bcs[x].dataChan = c.bcs[x].dataChan
    BY <2>1, <2>3, <2>5 DEF SameData
  <2>11. ASSUME NEW x \in BackChannels, NEW n \in Nat, x # b, Delivers(c, x, n)
         PROVE  Delivers(d, x, n)
    BY <2>5, <2>10, <2>11, DeliversFrame
  <2>12. Delivers(d, b, Released(c))
    BY <1>0, <2>6, <2>10 DEF Delivers
  <2>13. /\ \A x \in BackChannels, n \in Nat :
              Delivers(d, x, n) => Delivers(Flush(d), x, n)
         /\ Flush(d).lastArrayId = d.lastArrayId
         /\ Flush(d).outgoingArrays = d.outgoingArrays
    BY <2>4, <2>5, <2>7, <2>9, FlushDelivers
  <2>14. Released(Flush(d)) = Released(c)
    BY <2>4, <2>5, <2>13 DEF Released
  <2> QED
    BY <2>1, <2>3, <2>5, <2>8, <2>11, <2>12, <2>13, <2>14
<1> QED
  BY <1>1, <1>2

-----------------------------------------------------------------------------
(***************************************************************************)
(* The invariant.                                                          *)
(***************************************************************************)

\* Where the request stands whose response the client reads: it acknowledges
\* all that the client has received, and when its back channel is set the
\* stream goes on from there.
LinkContinues ==
  link # None =>
    /\ req[link].phase = "get" => req[link].aid = Len(received)
    /\ req[link].phase \in {"post", "set"} => Released(ch) = Len(received)
    /\ req[link].phase = "wait" => Delivers(ch, link, Len(received))

StreamPart ==
  /\ Released(ch) \in 0..Len(received)
  /\ ReceivedInOrder
  /\ \A b \in BackChannels : req[b].phase = "get" => req[b].aid <= Len(received)
  /\ LinkContinues

StreamInv == FlowInv /\ StreamPart

\* What a step of the channel keeps, and what it is for the stream.
StreamOK == StreamPart' /\ [Stream!Next]_(Stream!vars)

\* What the proofs of the steps use of the invariant.
LEMMA StreamFacts ==
  ASSUME StreamInv
  PROVE  /\ ch \in ChannelRecord
         /\ Window(ch)
         /\ received \in Seq(Nat)
         /\ Len(received) \in Nat
         /\ req \in [BackChannels -> Requests]
         /\ link \in BackChannels \union {None}
         /\ Released(ch) \in Nat
         /\ Released(ch) <= Len(received)
         /\ ch.lock = "free" => Sound(ch)
<1>1. Inv /\ Released(ch) \in 0..Len(received)
  BY DEF StreamInv, StreamPart, FlowInv
<1>2. /\ received \in Seq(Nat)
      /\ req \in [BackChannels -> Requests]
      /\ link \in BackChannels \union {None}
      /\ Guarded(ch, app)
  BY <1>1 DEF Inv, EnvironmentOK
<1>3. Len(received) \in Nat
  BY <1>2
<1>4. Released(ch) \in Nat /\ Released(ch) <= Len(received)
  BY <1>1, <1>3
<1> QED
  BY <1>2, <1>3, <1>4, FreeSound DEF Guarded, Consistent

\* A new channel has nothing to send, and waits for its first back channel.
LEMMA InitStream == Init => StreamInv /\ Stream!Init
<1> SUFFICES ASSUME Init
             PROVE  StreamInv /\ Stream!Init
  OBVIOUS
<1>1. /\ received = <<>>
      /\ ch.lastArrayId = 0
      /\ ch.outgoingArrays = <<>>
      /\ Released(ch) = 0
  BY DEF Init, NewChannel, Released
<1>2. \A b \in BackChannels : req[b].phase \in {"unused", "post"}
  BY DEF Init, InitRequest, NoRequest
<1>3. link \in BackChannels \union {None}
  BY DEF Init, InitRequest
<1>4. LinkContinues
  BY <1>1, <1>2, <1>3 DEF LinkContinues
<1>5. ReceivedInOrder
  BY <1>1 DEF ReceivedInOrder
<1>6. StreamPart
  BY <1>1, <1>2, <1>4, <1>5 DEF StreamPart
<1>7. Stream!Init
  BY <1>1 DEF Stream!Init
<1> QED
  BY <1>6, <1>7, InitFlow DEF StreamInv

-----------------------------------------------------------------------------
(***************************************************************************)
(* The steps of the stream.                                                *)
(***************************************************************************)

\* outgoingArrays is what the stream keeps: the arrays after the last one
\* released.
LEMMA KeptArrays ==
  ASSUME NEW c \in ChannelRecord, Window(c)
  PROVE  [i \in 1..Len(c.outgoingArrays) |-> c.outgoingArrays[i].index]
           = [i \in 1..(c.lastArrayId - Released(c)) |-> Released(c) + i]
<1>1. /\ c.lastArrayId \in Nat
      /\ Len(c.outgoingArrays) \in Nat
      /\ \A i \in 1..Len(c.outgoingArrays) :
           c.outgoingArrays[i].index = Released(c) + i
  BY DEF ChannelRecord, Window, Released
<1>2. c.lastArrayId - Released(c) = Len(c.outgoingArrays)
  BY <1>1 DEF Released
<1> QED
  BY <1>1, <1>2

\* An array is queued, or nothing happens to the stream.
LEMMA QueueIsStreamStep ==
  ASSUME StreamInv, ch' \in ChannelRecord, Window(ch'), received' = received,
         ch'.lastArrayId \in {ch.lastArrayId, ch.lastArrayId + 1},
         Released(ch') = Released(ch)
  PROVE  [Stream!Next]_(Stream!vars)
<1> DEFINE kept == [i \in 1..Len(ch.outgoingArrays) |-> ch.outgoingArrays[i].index]
           n == ch.lastArrayId - Released(ch)
           a == Released(ch)
<1>1. /\ kept = [i \in 1..n |-> a + i]
      /\ kept' = [i \in 1..(ch'.lastArrayId - a) |-> a + i]
  BY StreamFacts, KeptArrays
<1>2. n \in Nat /\ ch.lastArrayId \in Nat /\ a \in Nat
  <2>1. n = Len(ch.outgoingArrays) /\ ch.lastArrayId \in Nat
    BY StreamFacts DEF Released, ChannelRecord
  <2> QED
    BY <2>1, StreamFacts DEF ChannelRecord
<1>3. CASE ch'.lastArrayId = ch.lastArrayId
  BY <1>1, <1>3 DEF Stream!vars
<1>4. CASE ch'.lastArrayId = ch.lastArrayId + 1
  <2>1. ch'.lastArrayId - a = n + 1 /\ ch.lastArrayId + 1 = a + (n + 1)
    BY <1>2, <1>4
  <2> HIDE DEF n, a
  <2>2. [i \in 1..(n + 1) |-> a + i] = Append([i \in 1..n |-> a + i], a + (n + 1))
    BY <1>2
  <2>3. kept' = Append(kept, ch.lastArrayId + 1)
    BY <1>1, <2>1, <2>2
  <2> QED
    BY <1>4, <2>3 DEF Stream!Next, Stream!QueueArray
<1> QED
  BY <1>3, <1>4

\* Arrays that were received are released, or none are.
LEMMA ReleaseIsStreamStep ==
  ASSUME StreamInv, ch' \in ChannelRecord, Window(ch'), received' = received,
         ch'.lastArrayId = ch.lastArrayId,
         Released(ch) <= Released(ch'), Released(ch') <= Len(received)
  PROVE  [Stream!Next]_(Stream!vars)
<1> DEFINE kept == [i \in 1..Len(ch.outgoingArrays) |-> ch.outgoingArrays[i].index]
           l == Len(ch.outgoingArrays)
           a == Released(ch)
           n == Released(ch') - a
<1>1. /\ l \in Nat /\ a \in Nat /\ ch.lastArrayId = a + l
      /\ Released(ch') \in Int /\ Released(ch') <= ch.lastArrayId
  <2>1. /\ Len(ch.outgoingArrays) \in Nat /\ ch.lastArrayId \in Nat
        /\ Len(ch'.outgoingArrays) \in Nat /\ ch'.lastArrayId \in Nat
    BY StreamFacts DEF ChannelRecord
  <2> QED
    BY <2>1, StreamFacts DEF Released
<1>2. /\ kept = [i \in 1..l |-> a + i]
      /\ kept' = [i \in 1..(ch'.lastArrayId - Released(ch')) |-> Released(ch') + i]
  <2>1. /\ kept = [i \in 1..(ch.lastArrayId - a) |-> a + i]
        /\ kept' = [i \in 1..(ch'.lastArrayId - Released(ch')) |-> Released(ch') + i]
    BY StreamFacts, KeptArrays
  <2>2. ch.lastArrayId - a = l
    BY <1>1
  <2> HIDE DEF kept, l, a
  <2> QED
    BY <2>1, <2>2
<1>3. n \in 0..l /\ Released(ch') = a + n /\ ch'.lastArrayId - Released(ch') = l - n
  BY <1>1
<1> HIDE DEF l, a, n
<1>4. kept' = [i \in 1..(l - n) |-> (a + n) + i]
  BY <1>2, <1>3
<1>5. CASE n = 0
  <2>1. kept' = kept
    BY <1>1, <1>2, <1>3, <1>4, <1>5
  <2> QED
    BY <2>1 DEF Stream!vars
<1>6. CASE n # 0
  <2>1. n \in 1..l
    BY <1>1, <1>3, <1>6
  <2>2. kept' = SubSeq(kept, n + 1, l)
    <3>1. SubSeq([i \in 1..l |-> a + i], n + 1, l) = [i \in 1..(l - n) |-> (a + n) + i]
      BY <1>1, <2>1
    <3> QED
      BY <1>2, <1>4, <3>1
  <2>3. Len(kept) = l /\ kept[n] = a + n
    <3>1. kept = [i \in 1..l |-> a + i]
      BY <1>2
    <3> HIDE DEF kept
    <3> QED
      BY <1>1, <2>1, <3>1
  <2> HIDE DEF kept
  <2>4. n \in 1..Len(kept) /\ kept[n] <= Len(received)
        /\ kept' = SubSeq(kept, n + 1, Len(kept))
    BY <1>3, <2>1, <2>2, <2>3
  <2>5. Stream!ReleaseArrays
    BY <2>4 DEF Stream!ReleaseArrays, kept
  <2> QED
    BY <2>5 DEF Stream!Next
<1> QED
  BY <1>5, <1>6

-----------------------------------------------------------------------------
(***************************************************************************)
(* The steps of the channel.                                               *)
(***************************************************************************)

\* A step that queues at most one array, takes nothing out of the data channels
\* of the requests in wait, and lets requests only end or a POST go on.
LEMMA ServerStream ==
  ASSUME StreamInv, ch' \in ChannelRecord, Window(ch'), received' = received,
         link' \in {link, None},
         \A b \in BackChannels :
           \/ req'[b] = req[b]
           \/ req'[b].phase = "unused"
           \/ req[b].phase = "post" /\ req'[b].phase = "set",
         ch'.lastArrayId \in {ch.lastArrayId, ch.lastArrayId + 1},
         Released(ch') = Released(ch),
         \A b \in BackChannels, n \in Nat :
           req[b].phase = "wait" /\ req'[b].phase = "wait" /\ Delivers(ch, b, n)
             => Delivers(ch', b, n)
  PROVE  StreamOK
<1>1. [Stream!Next]_(Stream!vars)
  BY QueueIsStreamStep
<1>2. /\ Released(ch') \in 0..Len(received')
      /\ ReceivedInOrder'
      /\ \A b \in BackChannels :
           req'[b].phase = "get" => req'[b].aid <= Len(received')
  BY DEF StreamInv, StreamPart, ReceivedInOrder
<1>3. LinkContinues'
  <2> SUFFICES ASSUME link' # None
               PROVE  /\ req'[link].phase = "get" => req'[link].aid = Len(received)
                      /\ req'[link].phase \in {"post", "set"} =>
                           Released(ch') = Len(received)
                      /\ req'[link].phase = "wait" =>
                           Delivers(ch', link, Len(received))
    BY DEF LinkContinues
  <2>1. link # None /\ link \in BackChannels /\ Len(received) \in Nat
    BY StreamFacts
  <2>2. /\ req[link].phase = "get" => req[link].aid = Len(received)
        /\ req[link].phase \in {"post", "set"} => Released(ch) = Len(received)
        /\ req[link].phase = "wait" => Delivers(ch, link, Len(received))
    BY <2>1 DEF StreamInv, StreamPart, LinkContinues
  <2> QED
    BY <2>1, <2>2
<1> QED
  BY <1>1, <1>2, <1>3 DEF StreamOK, StreamPart

\* A step that does not touch the channel.
LEMMA OutsideStream ==
  ASSUME StreamInv, ch' = ch, received' = received, link' \in {link, None},
         \A b \in BackChannels :
           \/ req'[b] = req[b]
           \/ req'[b].phase = "unused"
           \/ req[b].phase = "post" /\ req'[b].phase = "set"
  PROVE  StreamOK
BY ServerStream, StreamFacts

\* A step that touches neither the arrays nor the back channels.
LEMMA FrameStream ==
  ASSUME StreamInv, Inv', received' = received, link' = link, req' = req,
         ch'.bcs = ch.bcs, ch'.backChannel = ch.backChannel,
         ch'.outgoingArrays = ch.outgoingArrays,
         ch'.lastArrayId = ch.lastArrayId,
         ch'.lastSentArrayId = ch.lastSentArrayId
  PROVE  StreamOK
<1>1. ch' \in ChannelRecord /\ Window(ch')
  BY DEF Inv, Guarded, Consistent
<1>2. Released(ch') = Released(ch)
  BY DEF Released
<1>3. \A b, n : Delivers(ch, b, n) => Delivers(ch', b, n)
  BY DEF Delivers
<1> QED
  BY <1>1, <1>2, <1>3, ServerStream

\* A GET acknowledges what the client has received.
LEMMA OpenBackChannelStream ==
  ASSUME StreamInv, NEW b \in BackChannels, NEW chunked \in BOOLEAN,
         OpenBackChannel(b, chunked)
  PROVE  StreamOK
<1>1. /\ ch' = ch
      /\ received' = received
      /\ received # <<>>
      /\ link' = b
      /\ req' = [req EXCEPT ![b] = [phase |-> "get", aid |-> LastArrayId,
                                    chunked |-> chunked]]
  BY DEF OpenBackChannel
<1>2. LastArrayId = Len(received) /\ Len(received) \in Nat
  <2>1. received \in Seq(Nat)
    BY StreamFacts
  <2>2. Len(received) \in 1..Len(received)
    BY <1>1, <2>1
  <2> QED
    BY <1>1, <2>2 DEF LastArrayId, StreamInv, StreamPart, ReceivedInOrder
<1>3. /\ req'[b].phase = "get"
      /\ req'[b].aid = Len(received)
      /\ \A x \in BackChannels : x # b => req'[x] = req[x]
  BY <1>1, <1>2, StreamFacts
<1>4. StreamPart'
  BY <1>1, <1>2, <1>3
     DEF StreamInv, StreamPart, ReceivedInOrder, LinkContinues, Released
<1>5. UNCHANGED Stream!vars
  BY <1>1 DEF Stream!vars
<1> QED
  BY <1>4, <1>5 DEF StreamOK

\* The client, the handlers that end before wait, and whoever has not taken the
\* lock.
LEMMA BesideStream ==
  ASSUME StreamInv,
         \/ \E b \in BackChannels : ReadState(b) \/ UnknownSid(b)
         \/ LoseLink \/ Leave \/ FindTerminated \/ RemoveClosedSession
         \/ HeartbeatTick \/ HeartbeatStops \/ AppReadsMap \/ AppReturns
         \/ AppCallsSendArray \/ AppCallsClose
  PROVE  StreamOK
<1>1. ASSUME NEW b \in BackChannels, ReadState(b) \/ UnknownSid(b)
      PROVE  StreamOK
  <2>1. /\ ch' = ch
        /\ received' = received
        /\ link' \in {link, None}
    BY <1>1 DEF ReadState, UnknownSid, clientVars
  <2>2. \/ req' = [req EXCEPT ![b] = NoRequest]
        \/ req[b].phase = "post" /\ req' = [req EXCEPT ![b].phase = "set"]
    BY <1>1 DEF ReadState, UnknownSid
  <2>3. \A x \in BackChannels :
          \/ req'[x] = req[x]
          \/ req'[x].phase = "unused"
          \/ req[x].phase = "post" /\ req'[x].phase = "set"
    BY <2>2, StreamFacts DEF NoRequest, Requests
  <2> QED
    BY <2>1, <2>3, OutsideStream
<1>2. CASE \/ LoseLink \/ Leave \/ FindTerminated \/ RemoveClosedSession
           \/ HeartbeatTick \/ HeartbeatStops \/ AppReadsMap \/ AppReturns
           \/ AppCallsSendArray \/ AppCallsClose
  <2>1. /\ UNCHANGED <<ch, req, received>>
        /\ link' \in {link, None}
    BY <1>2 DEF LoseLink, Leave, FindTerminated, RemoveClosedSession,
                HeartbeatTick, HeartbeatStops, AppReadsMap, AppReturns,
                AppCallsSendArray, AppCallsClose, clientVars
  <2> QED
    BY <2>1, OutsideStream
<1> QED
  BY <1>1, <1>2

\* An acknowledgment releases arrays the client has; the GET the client reads
\* acknowledges all of them, and the others come too late to change that.
LEMMA AcknowledgmentStream ==
  ASSUME StreamInv, NEW aid \in Nat, aid <= Len(received),
         aid <= ch.lastSentArrayId, LockFree,
         ch' = AcknowledgeArrays(ch, aid), UNCHANGED clientVars, Inv',
         \A b \in BackChannels :
           \/ req'[b] = req[b]
           \/ req[b].phase = "get" /\ req[b].aid = aid /\ req'[b].phase = "set"
  PROVE  StreamOK
<1>1. /\ Released(ch') = IF Released(ch) < aid THEN aid ELSE Released(ch)
      /\ ch'.bcs = ch.bcs
      /\ ch'.backChannel = ch.backChannel
      /\ ch'.lastArrayId = ch.lastArrayId
      /\ ch'.lastSentArrayId = ch.lastSentArrayId
  BY StreamFacts, AcknowledgeReleases DEF LockFree
<1>2. received' = received /\ link' = link
  BY DEF clientVars
<1>3. /\ Released(ch') \in 0..Len(received)
      /\ Released(ch) <= Released(ch')
      /\ aid = Len(received) \/ Released(ch) = Len(received)
           => Released(ch') = Len(received)
  BY <1>1, StreamFacts
<1>4. [Stream!Next]_(Stream!vars)
  <2>1. ch' \in ChannelRecord /\ Window(ch')
    BY DEF Inv, Guarded, Consistent
  <2> QED
    BY <1>1, <1>2, <1>3, <2>1, StreamFacts, ReleaseIsStreamStep
<1>5. \A b \in BackChannels : req'[b].phase = "get" => req'[b].aid <= Len(received)
  BY DEF StreamInv, StreamPart
<1>6. LinkContinues'
  <2> SUFFICES ASSUME link # None
               PROVE  /\ req'[link].phase = "get" => req'[link].aid = Len(received)
                      /\ req'[link].phase \in {"post", "set"} =>
                           Released(ch') = Len(received)
                      /\ req'[link].phase = "wait" =>
                           Delivers(ch', link, Len(received))
    BY <1>2 DEF LinkContinues
  <2>1. /\ link \in BackChannels
        /\ req[link].phase = "get" => req[link].aid = Len(received)
        /\ req[link].phase \in {"post", "set"} => Released(ch) = Len(received)
        /\ req[link].phase = "wait" => Delivers(ch, link, Len(received))
    BY StreamFacts DEF StreamInv, StreamPart, LinkContinues
  <2>2. CASE req'[link] = req[link]
    <3>1. Delivers(ch, link, Len(received)) => Delivers(ch', link, Len(received))
      BY <1>1 DEF Delivers
    <3> QED
      BY <1>3, <2>1, <2>2, <3>1
  <2>3. CASE req[link].phase = "get" /\ req[link].aid = aid /\ req'[link].phase = "set"
    BY <1>3, <2>1, <2>3
  <2> QED
    BY <2>1, <2>2, <2>3
<1> QED
  BY <1>2, <1>3, <1>4, <1>5, <1>6 DEF StreamInv, StreamPart, StreamOK, ReceivedInOrder

\* Both handlers that acknowledge.
LEMMA AcknowledgeCallsStream ==
  ASSUME StreamInv, Inv',
         \/ \E b \in BackChannels : AcknowledgeGet(b)
         \/ \E i \in 1..Len(received) : AcknowledgePost(received[i])
  PROVE  StreamOK
<1>1. ASSUME NEW b \in BackChannels, AcknowledgeGet(b)
      PROVE  StreamOK
  <2>1. /\ req[b].phase = "get"
        /\ req' = [req EXCEPT ![b].phase = "set", ![b].aid = 0]
        /\ ch' = AcknowledgeArrays(ch, req[b].aid)
        /\ LockFree
        /\ UNCHANGED clientVars
    BY <1>1 DEF AcknowledgeGet
  <2>2. /\ req[b].aid \in Nat
        /\ req[b].aid <= Len(received)
        /\ req[b].aid <= ch.lastSentArrayId
    BY <2>1, StreamFacts
       DEF StreamInv, StreamPart, FlowInv, Inv, KnowsOnlySent, Requests
  <2>3. req'[b].phase = "set" /\ \A x \in BackChannels : x # b => req'[x] = req[x]
    BY <2>1, StreamFacts DEF Requests
  <2> QED
    BY <2>1, <2>2, <2>3, AcknowledgmentStream
<1>2. ASSUME NEW i \in 1..Len(received), AcknowledgePost(received[i])
      PROVE  StreamOK
  <2>1. /\ ch' = AcknowledgeArrays(ch, received[i])
        /\ req' = req
        /\ LockFree
        /\ UNCHANGED clientVars
    BY <1>2 DEF AcknowledgePost
  <2>2. /\ received[i] = i
        /\ received[i] <= ch.lastSentArrayId
    BY DEF StreamInv, StreamPart, ReceivedInOrder, FlowInv, Inv, KnowsOnlySent
  <2>3. received[i] \in Nat /\ received[i] <= Len(received)
    BY <2>2, StreamFacts
  <2> QED
    BY <2>1, <2>2, <2>3, AcknowledgmentStream
<1> QED
  BY <1>1, <1>2

\* The new back channel of the request the client reads starts where the client
\* stands.
LEMMA SetBackChannelStream ==
  ASSUME StreamInv, Inv', Unmarshalable = {},
         NEW b \in BackChannels, SetBackChannelCall(b)
  PROVE  StreamOK
<1> DEFINE c == [ch EXCEPT !.bcs[b] = NewBackChannel(req[b].chunked)]
<1>1. /\ ch' = SetBackChannel(c, b)
      /\ req' = [req EXCEPT ![b] = [NoRequest EXCEPT !.phase = "wait"]]
      /\ req[b].phase = "set"
      /\ ch.lock = "free"
      /\ received' = received /\ link' = link
  BY DEF SetBackChannelCall, LockFree, clientVars
<1>2. /\ Sound(c) /\ c.lock = "free"
      /\ c.bcs[b].dataChan = <<>>
  <2>1. req[b].chunked \in BOOLEAN
    BY StreamFacts DEF Requests
  <2> QED
    BY <1>1, <2>1, StreamFacts, FreshConsistent DEF Sound
<1>3. /\ c.bcs = [ch.bcs EXCEPT ![b] = NewBackChannel(req[b].chunked)]
      /\ c.backChannel = ch.backChannel
      /\ c.lastArrayId = ch.lastArrayId
      /\ c.lastSentArrayId = ch.lastSentArrayId
      /\ c.outgoingArrays = ch.outgoingArrays
  BY StreamFacts DEF ChannelRecord
<1>4. ch.backChannel # b
  BY <1>1 DEF StreamInv, FlowInv, Flow, Waiting, Waiters
<1> HIDE DEF c
<1>5. Released(c) = Released(ch)
  BY <1>3 DEF Released
<1>6. \A x \in BackChannels : x # b => c.bcs[x] = ch.bcs[x]
  BY <1>3, StreamFacts DEF ChannelRecord
<1>7. /\ \A x \in BackChannels, n \in Nat :
           x # b /\ Delivers(c, x, n) => Delivers(ch', x, n)
      /\ Delivers(ch', b, Released(ch))
      /\ ch'.lastArrayId \in {ch.lastArrayId, ch.lastArrayId + 1}
      /\ Released(ch') = Released(ch)
  BY <1>1, <1>2, <1>3, <1>4, <1>5, StreamFacts, SetBackChannelDelivers
<1>8. \A x \in BackChannels, n \in Nat :
        x # b /\ Delivers(ch, x, n) => Delivers(ch', x, n)
  BY <1>3, <1>6, <1>7 DEF Delivers
<1>9. /\ req'[b].phase = "wait"
      /\ \A x \in BackChannels : x # b => req'[x] = req[x]
  BY <1>1, StreamFacts DEF NoRequest
<1>10. [Stream!Next]_(Stream!vars)
  <2>1. ch' \in ChannelRecord /\ Window(ch')
    BY DEF Inv, Guarded, Consistent
  <2> QED
    BY <1>1, <1>7, <2>1, QueueIsStreamStep
<1>11. \A x \in BackChannels : req'[x].phase = "get" => req'[x].aid <= Len(received)
  BY <1>9 DEF StreamInv, StreamPart
<1>12. LinkContinues'
  <2> SUFFICES ASSUME link # None
               PROVE  /\ req'[link].phase = "get" => req'[link].aid = Len(received)
                      /\ req'[link].phase \in {"post", "set"} =>
                           Released(ch') = Len(received)
                      /\ req'[link].phase = "wait" =>
                           Delivers(ch', link, Len(received))
    BY <1>1 DEF LinkContinues
  <2>1. /\ link \in BackChannels /\ Len(received) \in Nat
        /\ req[link].phase = "get" => req[link].aid = Len(received)
        /\ req[link].phase \in {"post", "set"} => Released(ch) = Len(received)
        /\ req[link].phase = "wait" => Delivers(ch, link, Len(received))
    BY StreamFacts DEF StreamInv, StreamPart, LinkContinues
  <2>2. CASE link = b
    BY <1>1, <1>7, <1>9, <2>1, <2>2
  <2>3. CASE link # b
    BY <1>7, <1>8, <1>9, <2>1, <2>3
  <2> QED
    BY <2>2, <2>3
<1> QED
  BY <1>1, <1>7, <1>10, <1>11, <1>12
     DEF StreamInv, StreamPart, StreamOK, ReceivedInOrder

\* The client gets the chunk that is due; a response that it does not read any
\* more does not matter.
LEMMA WaitWritesStream ==
  ASSUME StreamInv, NEW b \in BackChannels, WaitWrites(b)
  PROVE  StreamOK
<1> DEFINE q == ch.bcs[b].dataChan
           chunk == NextChunk(ch.bcs[b])
           ids == [i \in 1..Len(chunk) |-> chunk[i].index]
<1>1. /\ req' = req
      /\ req[b].phase = "wait"
      /\ HasData(ch.bcs[b])
      /\ ch' = [ch EXCEPT !.bcs[b] = TakeChunk(@)]
  BY DEF WaitWrites
<1>2. /\ ch'.bcs = [ch.bcs EXCEPT ![b] = TakeChunk(@)]
      /\ ch'.backChannel = ch.backChannel
      /\ ch'.lastArrayId = ch.lastArrayId
      /\ ch'.lastSentArrayId = ch.lastSentArrayId
      /\ ch'.outgoingArrays = ch.outgoingArrays
  BY <1>1, StreamFacts DEF ChannelRecord
<1>3. /\ ch'.bcs[b].dataChan = Tail(q)
      /\ \A x \in BackChannels : x # b => ch'.bcs[x] = ch.bcs[x]
      /\ q \in Seq(Seq(OutgoingArray))
      /\ q # <<>>
      /\ chunk = Head(q)
  BY <1>1, <1>2, StreamFacts
     DEF TakeChunk, HasData, NextChunk, ChannelRecord, BackChannelRecord
<1>4. /\ chunk \in Seq(OutgoingArray)
      /\ \A i \in 1..Len(chunk) : chunk[i].index <= ch.lastSentArrayId
      /\ Consistent(ch')
  BY <1>1, TakeChunkConsistent DEF StreamInv, FlowInv, Inv, Guarded
<1>5. Released(ch') = Released(ch)
  BY <1>2 DEF Released
<1>6. CASE link # b
  <2>1. UNCHANGED clientVars
    BY <1>6 DEF WaitWrites
  <2>2. received' = received /\ link' = link
    BY <2>1 DEF clientVars
  <2>3. [Stream!Next]_(Stream!vars)
    BY <1>2, <1>4, <1>5, <2>2, QueueIsStreamStep DEF Consistent
  <2>4. LinkContinues'
    <3>1. \A x \in BackChannels, n \in Nat :
            x # b /\ Delivers(ch, x, n) => Delivers(ch', x, n)
      BY <1>2, <1>3, DeliversFrame
    <3>2. link # None => link \in BackChannels /\ Len(received) \in Nat
      BY StreamFacts
    <3> HIDE DEF q, chunk
    <3> QED
      BY <1>1, <1>5, <1>6, <2>2, <3>1, <3>2 DEF StreamInv, StreamPart, LinkContinues
  <2> QED
    BY <1>1, <1>5, <2>2, <2>3, <2>4
       DEF StreamInv, StreamPart, StreamOK, ReceivedInOrder
<1>7. CASE link = b
  <2> DEFINE r == Len(received)
             n == Len(chunk)
  <2>1. /\ received' = received \o ids
        /\ link' \in {link, None}
    BY <1>7 DEF WaitWrites
  <2>2. r \in Nat /\ n \in Nat /\ received \in Seq(Nat)
    BY <1>4, StreamFacts
  <2>3. Delivers(ch, b, r)
    BY <1>1, <1>7, NoneAssumption DEF StreamInv, StreamPart, LinkContinues
  <2> HIDE DEF q, chunk
  <2>4. PICK m \in Nat : /\ Carries(q, r, m)
                         /\ ch.backChannel = b => m = ch.lastSentArrayId
    BY <2>3 DEF Delivers, q
  <2>5. /\ Carries(Tail(q), r + n, m)
        /\ \A i \in 1..n : chunk[i].index = r + i
    BY <1>3, <2>2, <2>4, CarriesTail
  <2>6. Delivers(ch', b, r + n)
    BY <1>2, <1>3, <2>4, <2>5 DEF Delivers
  <2>7. ids = [i \in 1..n |-> r + i]
    BY <2>5
  <2> HIDE DEF ids
  <2>8. received' = received \o [i \in 1..n |-> r + i]
    BY <2>1, <2>7
  <2> HIDE DEF r, n
  <2>9. /\ Len(received') = r + n
        /\ \A i \in 1..(r + n) :
             received'[i] = IF i <= r THEN received[i] ELSE i
    <3> DEFINE s == [i \in 1..n |-> r + i]
    <3>1. s \in Seq(Nat) /\ Len(s) = n /\ \A i \in 1..n : s[i] = r + i
      BY <2>2
    <3> HIDE DEF s
    <3>2. Len(received) = r
      BY DEF r
    <3>3. received' = received \o s
      BY <2>8 DEF s
    <3> QED
      BY <2>2, <3>1, <3>2, <3>3
  <2>10. ReceivedInOrder'
    <3>1. \A i \in 1..r : received[i] = i
      BY DEF StreamInv, StreamPart, ReceivedInOrder, r
    <3> QED
      BY <2>2, <2>9, <3>1 DEF ReceivedInOrder
  <2>11. [Stream!Next]_(Stream!vars)
    <3>1. UNCHANGED <<ch.lastArrayId, ch.outgoingArrays>>
      BY <1>2
    <3>2. CASE n = 0
      <4>1. received' = received
        BY <2>2, <2>8, <3>2
      <4> QED
        BY <3>1, <4>1 DEF Stream!vars
    <3>3. CASE n # 0
      <4>1. n \in 1..n /\ chunk[n].index = r + n
        BY <2>2, <2>5, <3>3
      <4>2. r + n <= ch.lastSentArrayId
        BY <1>4, <4>1 DEF n
      <4>3. /\ ch.lastSentArrayId <= ch.lastArrayId
            /\ ch.lastArrayId \in Nat /\ ch.lastSentArrayId \in Int
        BY StreamFacts DEF Window, ChannelRecord
      <4>4. n \in 1..(ch.lastArrayId - r)
        BY <2>2, <3>3, <4>2, <4>3
      <4>5. Stream!ReceiveArrays
        BY <2>8, <3>1, <4>4 DEF Stream!ReceiveArrays, r
      <4> QED
        BY <4>5 DEF Stream!Next
    <3> QED
      BY <3>2, <3>3
  <2>12. LinkContinues'
    BY <1>1, <1>7, <2>1, <2>6, <2>9, NoneAssumption DEF LinkContinues
  <2>13. /\ Released(ch') \in 0..Len(received')
         /\ \A x \in BackChannels :
              req'[x].phase = "get" => req'[x].aid <= Len(received')
    <3>1. Released(ch) \in Nat /\ Released(ch) <= r
      BY StreamFacts DEF r
    <3>2. \A x \in BackChannels : req[x].phase = "get" => req[x].aid <= r
      BY DEF StreamInv, StreamPart, r
    <3>3. \A x \in BackChannels : req[x].aid \in Nat
      BY StreamFacts DEF Requests
    <3> QED
      BY <1>1, <1>5, <2>2, <2>9, <3>1, <3>2, <3>3
  <2> QED
    BY <2>10, <2>11, <2>12, <2>13 DEF StreamPart, StreamOK
<1> QED
  BY <1>6, <1>7

\* A response that ends is not read any more.
LEMMA WaitReturnsStream ==
  ASSUME StreamInv, Inv', NEW b \in BackChannels, WaitReturns(b)
  PROVE  StreamOK
<1>1. /\ ch' = [ch EXCEPT !.bcs[b] = NewBackChannel(FALSE)]
      /\ req' = [req EXCEPT ![b] = NoRequest]
      /\ received' = received
      /\ link' \in {link, None}
  BY DEF WaitReturns
<1>2. /\ ch'.bcs = [ch.bcs EXCEPT ![b] = NewBackChannel(FALSE)]
      /\ ch'.backChannel = ch.backChannel
      /\ ch'.lastArrayId = ch.lastArrayId
      /\ ch'.lastSentArrayId = ch.lastSentArrayId
      /\ ch'.outgoingArrays = ch.outgoingArrays
  BY <1>1, StreamFacts DEF ChannelRecord
<1>3. \A x \in BackChannels : x # b => ch'.bcs[x] = ch.bcs[x]
  BY <1>2, StreamFacts DEF ChannelRecord
<1>4. /\ req'[b].phase = "unused"
      /\ \A x \in BackChannels : x # b => req'[x] = req[x]
  BY <1>1, StreamFacts DEF NoRequest
<1>5. Released(ch') = Released(ch)
  BY <1>2 DEF Released
<1>6. \A x \in BackChannels, n \in Nat :
        x # b /\ Delivers(ch, x, n) => Delivers(ch', x, n)
  BY <1>2, <1>3, DeliversFrame
<1>7. ch' \in ChannelRecord /\ Window(ch')
  BY DEF Inv, Guarded, Consistent
<1> QED
  BY <1>1, <1>2, <1>4, <1>5, <1>6, <1>7, ServerStream

\* The maps, the timers that expire, and the rest of terminateInternal.
LEMMA LockStream ==
  ASSUME StreamInv, Inv',
         \/ \E offset \in 0..(MaxMaps - 1) :
              \E n \in 1..(MaxMaps - offset) : ReceiveMaps(offset, n)
         \/ DequeueMap \/ ChannelTimeoutFires \/ ExpirationFires
         \/ StopHeartbeat \/ SendToGc
  PROVE  StreamOK
<1>1. received' = received /\ link' = link /\ req' = req
  BY DEF ReceiveMaps, DequeueMap, ChannelTimeoutFires, ExpirationFires,
         StopHeartbeat, SendToGc, clientVars
<1>2. /\ ch'.bcs = ch.bcs
      /\ ch'.backChannel = ch.backChannel
      /\ ch'.outgoingArrays = ch.outgoingArrays
      /\ ch'.lastArrayId = ch.lastArrayId
      /\ ch'.lastSentArrayId = ch.lastSentArrayId
  <2>1. CASE SendToGc
    <3> DEFINE free == [ch EXCEPT !.lock = "free"]
    <3>1. /\ free \in ChannelRecord
          /\ free.bcs = ch.bcs
          /\ free.backChannel = ch.backChannel
          /\ free.outgoingArrays = ch.outgoingArrays
          /\ free.lastArrayId = ch.lastArrayId
          /\ free.lastSentArrayId = ch.lastSentArrayId
      BY StreamFacts DEF ChannelRecord, Locks
    <3>2. ch' = CloseMapChan(free) \/ ch' = free
      BY <2>1 DEF SendToGc
    <3> HIDE DEF free
    <3> QED
      BY <3>1, <3>2 DEF CloseMapChan, ChannelRecord
  <2>2. CASE \/ \E offset \in 0..(MaxMaps - 1) :
                  \E n \in 1..(MaxMaps - offset) : ReceiveMaps(offset, n)
             \/ DequeueMap \/ ChannelTimeoutFires \/ ExpirationFires
             \/ StopHeartbeat
    BY <2>2, StreamFacts
       DEF ReceiveMaps, DequeueMap, ChannelTimeoutFires, ExpirationFires,
           StopHeartbeat, ChannelRecord
  <2> QED
    BY <2>1, <2>2
<1> QED
  BY <1>1, <1>2, FrameStream

\* The calls of the timers, of the heartbeat, of the application and of a
\* TERMINATE.
LEMMA CallsStream ==
  ASSUME StreamInv, Inv', Unmarshalable = {},
         \/ Terminate \/ ChannelTimeoutRuns \/ ExpirationRuns \/ HeartbeatSends
         \/ AppCloses
         \/ \E e \in Payloads : AppSendsArray(e)
  PROVE  StreamOK
<1>1. /\ received' = received /\ link' = link /\ req' = req
      /\ ch.lock = "free"
  BY DEF Terminate, ChannelTimeoutRuns, ExpirationRuns, HeartbeatSends, AppCloses,
         AppSendsArray, LockFree, clientVars
<1>2. /\ ch \in ChannelRecord
      /\ Window(ch)
      /\ ch.state \in {"init", "ready"} => ~ch.mapChanClosed
  BY <1>1, StreamFacts DEF Sound, MapChanMatches
<1> DEFINE Continues(d) ==
             /\ \A b \in BackChannels, n \in Nat :
                  Delivers(ch, b, n) => Delivers(d, b, n)
             /\ d.lastArrayId \in {ch.lastArrayId, ch.lastArrayId + 1}
             /\ Released(d) = Released(ch)
<1> SUFFICES Continues(ch')
  <2>1. ch' \in ChannelRecord /\ Window(ch')
    BY DEF Inv, Guarded, Consistent
  <2> QED
    BY <1>1, <2>1, ServerStream
<1>3. CASE Terminate \/ ChannelTimeoutRuns
  <2>1. ch' = TerminateInternal(ch)
    BY <1>3 DEF Terminate, ChannelTimeoutRuns
  <2>2. ch'.lastArrayId = ch.lastArrayId /\ ch'.outgoingArrays = ch.outgoingArrays
    BY <1>1, <1>2, <2>1, TerminateInternalProperties
  <2> QED
    BY <1>1, <1>2, <2>1, <2>2, TerminateDelivers DEF Released
<1>4. CASE ExpirationRuns
  <2>1. ch' = ClearBackChannel(ch, FALSE)
    BY <1>4 DEF ExpirationRuns
  <2>2. ch'.lastArrayId = ch.lastArrayId /\ ch'.outgoingArrays = ch.outgoingArrays
    BY <1>2, <2>1, ClearBackChannelFrame
  <2> QED
    BY <1>2, <2>1, <2>2, ClearDelivers DEF Released
<1>5. CASE HeartbeatSends \/ \E e \in Payloads : AppSendsArray(e)
  <2>1. PICK x \in Elements : ch' = SendArray(ch, x)
    BY <1>5 DEF HeartbeatSends, AppSendsArray, Elements
  <2>2. CASE ch.state = "ready"
    <3>1. ch' = Flush(QueueArray(ch, x))
      BY <2>1, <2>2 DEF SendArray
    <3> QED
      BY <1>1, <1>2, <3>1, QueueFlushDelivers
  <2>3. CASE ch.state # "ready"
    BY <2>1, <2>3 DEF SendArray
  <2> QED
    BY <2>2, <2>3
<1>6. CASE AppCloses
  <2> DEFINE w == [ch EXCEPT !.state = "writeClosed"]
             c == Flush(QueueArray(w, "stop"))
  <2>1. /\ w \in ChannelRecord
        /\ w.lock = "free"
        /\ w.state = "writeClosed"
        /\ w.bcs = ch.bcs
        /\ w.backChannel = ch.backChannel
        /\ w.outgoingArrays = ch.outgoingArrays
        /\ w.lastArrayId = ch.lastArrayId
        /\ w.lastSentArrayId = ch.lastSentArrayId
    BY <1>1, <1>2 DEF ChannelRecord, States
  <2>2. c = CloseAndFlush(ch)
    BY DEF CloseAndFlush
  <2> HIDE DEF w
  <2>3. Window(w) /\ Released(w) = Released(ch)
    BY <1>2, <2>1 DEF Window, Released
  <2>4. \A b \in BackChannels, n \in Nat : Delivers(ch, b, n) => Delivers(w, b, n)
    BY <2>1, DeliversFrame
  <2>5. /\ \A b \in BackChannels, n \in Nat : Delivers(w, b, n) => Delivers(c, b, n)
        /\ c.lastArrayId = w.lastArrayId + 1
        /\ Released(c) = Released(w)
    <3>1. "stop" \in Elements
      BY DEF Elements
    <3> QED
      BY <2>1, <2>3, <3>1, QueueFlushDelivers
  <2>6. Continues(c)
    BY <2>1, <2>3, <2>4, <2>5
  <2>7. c \in ChannelRecord
    BY <1>1, <2>2, StreamFacts, CloseAndFlushProperties DEF Consistent
  <2>8. ch' = c \/ ch' = CloseMapChan(c)
    BY <1>6, <2>2 DEF AppCloses
  <2> HIDE DEF c
  <2>9. /\ ch'.bcs = c.bcs
        /\ ch'.backChannel = c.backChannel
        /\ ch'.outgoingArrays = c.outgoingArrays
        /\ ch'.lastArrayId = c.lastArrayId
        /\ ch'.lastSentArrayId = c.lastSentArrayId
    BY <2>7, <2>8 DEF CloseMapChan, ChannelRecord
  <2>10. \A b, n : Delivers(c, b, n) => Delivers(ch', b, n)
    BY <2>9 DEF Delivers
  <2>11. Released(ch') = Released(c)
    BY <2>9 DEF Released
  <2> QED
    BY <2>6, <2>9, <2>10, <2>11
<1> QED
  BY <1>3, <1>4, <1>5, <1>6

\* Every step keeps the invariant, and is a step of the stream or none.
LEMMA StreamStep ==
  ASSUME Unmarshalable = {}, StreamInv, [Next]_vars
  PROVE  StreamInv' /\ [Stream!Next]_(Stream!vars)
<1>0. FlowInv' /\ Inv'
  BY FlowStep DEF StreamInv, FlowInv
<1> SUFFICES StreamOK
  BY <1>0 DEF StreamInv, StreamOK
<1>1. ASSUME NEW b \in BackChannels, NEW chunked \in BOOLEAN,
             OpenBackChannel(b, chunked)
      PROVE  StreamOK
  BY <1>1, OpenBackChannelStream
<1>2. ASSUME NEW b \in BackChannels, ReadState(b) \/ UnknownSid(b)
      PROVE  StreamOK
  BY <1>2, BesideStream
<1>3. ASSUME NEW b \in BackChannels, AcknowledgeGet(b)
      PROVE  StreamOK
  BY <1>0, <1>3, AcknowledgeCallsStream
<1>4. ASSUME NEW i \in 1..Len(received), AcknowledgePost(received[i])
      PROVE  StreamOK
  BY <1>0, <1>4, AcknowledgeCallsStream
<1>5. ASSUME NEW b \in BackChannels, SetBackChannelCall(b)
      PROVE  StreamOK
  BY <1>0, <1>5, SetBackChannelStream
<1>6. ASSUME NEW b \in BackChannels, WaitWrites(b)
      PROVE  StreamOK
  BY <1>6, WaitWritesStream
<1>7. ASSUME NEW b \in BackChannels, WaitReturns(b)
      PROVE  StreamOK
  BY <1>0, <1>7, WaitReturnsStream
<1>8. CASE \/ LoseLink \/ Leave \/ FindTerminated \/ RemoveClosedSession
           \/ HeartbeatTick \/ HeartbeatStops \/ AppReadsMap \/ AppReturns
           \/ AppCallsSendArray \/ AppCallsClose
  BY <1>8, BesideStream
<1>9. ASSUME NEW offset \in 0..(MaxMaps - 1), NEW n \in 1..(MaxMaps - offset),
             ReceiveMaps(offset, n)
      PROVE  StreamOK
  BY <1>0, <1>9, LockStream
<1>10. CASE DequeueMap \/ ChannelTimeoutFires \/ ExpirationFires
            \/ StopHeartbeat \/ SendToGc
  BY <1>0, <1>10, LockStream
<1>11. CASE Terminate \/ ChannelTimeoutRuns \/ ExpirationRuns \/ HeartbeatSends
            \/ AppCloses
  BY <1>0, <1>11, CallsStream
<1>12. ASSUME NEW e \in Payloads, AppSendsArray(e)
       PROVE  StreamOK
  BY <1>0, <1>12, CallsStream
<1>13. CASE UNCHANGED vars
  <2>1. UNCHANGED <<ch, received, link, req>>
    BY <1>13 DEF vars, clientVars
  <2> QED
    BY <2>1, OutsideStream
<1> QED
  BY <1>1, <1>2, <1>3, <1>4, <1>5, <1>6, <1>7, <1>8, <1>9, <1>10, <1>11, <1>12,
     <1>13 DEF Next

-----------------------------------------------------------------------------
(***************************************************************************)
(* The theorems.                                                           *)
(***************************************************************************)

\* The invariant holds in every reachable state.
THEOREM StreamInvariance ==
  ASSUME Unmarshalable = {}
  PROVE  Spec => []StreamInv
<1>1. Init => StreamInv
  BY InitStream
<1>2. StreamInv /\ [Next]_vars => StreamInv'
  BY StreamStep
<1> QED
  BY <1>1, <1>2, PTL DEF Spec

\* The client gets the arrays 1, 2, 3, ... without gap or repetition, whatever
\* responses are lost, replaced, expired or full, and whichever late requests
\* acknowledge.
THEOREM ArraysAreReceivedInOrder ==
  ASSUME Unmarshalable = {}
  PROVE  Spec => []ReceivedInOrder
<1>1. StreamInv => ReceivedInOrder
  BY DEF StreamInv, StreamPart
<1> QED
  BY <1>1, StreamInvariance, PTL

\* The channel implements the stream of arrays: in particular the server forgets
\* an array only after the client has it.
THEOREM ArrayStreamIsImplemented ==
  ASSUME Unmarshalable = {}
  PROVE  Spec => ImplementsArrayStream
<1>1. Init => Stream!Init
  BY InitStream
<1>2. StreamInv /\ [Next]_vars => [Stream!Next]_(Stream!vars)
  BY StreamStep
<1> QED
  BY <1>1, <1>2, StreamInvariance, PTL DEF Spec, ImplementsArrayStream, Stream!Spec
=============================================================================
