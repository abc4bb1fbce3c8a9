--------------------------- MODULE ChannelMethods ---------------------------
(***************************************************************************)
(* The methods of Channel (channel.go) as functions on the record of its   *)
(* fields, composed as in the code.  They are what the holder of c.lock    *)
(* does to the channel in one go; a method that blocks on a Go channel     *)
(* while it holds the lock ends with c.lock saying where, and the modules  *)
(* that use it model the rest as a step of its own.                        *)
(***************************************************************************)
EXTENDS BackChannel, FiniteSets

CONSTANTS
  BackChannels,      \* identities of the back channels alive at one time
  None,              \* the nil back channel
  Payloads,          \* the arrays the application sends
  Unmarshalable,     \* those of them that json.Marshal rejects
  ArrayLimit         \* outgoing arrays buffered before acks are forced: 100

ASSUME NoneAssumption == None \notin BackChannels
ASSUME PayloadAssumption ==
  /\ Unmarshalable \subseteq Payloads
  /\ Payloads \intersect {"c", "noop", "stop"} = {}
ASSUME ArrayLimitAssumption == ArrayLimit \in Nat

States == {"init", "ready", "writeClosed", "closed"}
Timers == {"nil", "armed", "fired"}
Locks == {"free", "dequeueMaps", "heartbeatStop", "gcChan", "panicked"}

Elements == Payloads \union {"c", "noop", "stop"}
OutgoingArray == [index : Nat, elements : Elements]

ChannelRecord ==
  [state : States,
   backChannel : BackChannels \union {None},
   bcs : [BackChannels -> BackChannelRecord(OutgoingArray)],
   outgoingArrays : Seq(OutgoingArray),
   lastArrayId : Nat,
   lastSentArrayId : Int,
   channelTimeout : Timers,
   backChannelExpiration : Timers,
   mapChanClosed : BOOLEAN,
   lock : Locks]

-----------------------------------------------------------------------------
(***************************************************************************)
(* The methods of Channel, for the holder c of the lock.                   *)
(***************************************************************************)

\* newChannel, then armChannelTimeout in handleBindRequest.
NewChannel ==
  [state |-> "init", backChannel |-> None,
   bcs |-> [b \in BackChannels |-> NewBackChannel(FALSE)],
   outgoingArrays |-> <<>>, lastArrayId |-> 0, lastSentArrayId |-> 0,
   channelTimeout |-> "armed", backChannelExpiration |-> "nil",
   mapChanClosed |-> FALSE, lock |-> "free"]

\* flush ignores the error of json.Marshal, which then returns no data.
Marshal(arrays) ==
  IF \E i \in 1..Len(arrays) : arrays[i].elements \in Unmarshalable
    THEN <<>>
    ELSE arrays

QueueArray(c, e) ==
  [c EXCEPT !.lastArrayId = @ + 1,
            !.outgoingArrays =
              Append(@, [index |-> c.lastArrayId + 1, elements |-> e])]

\* Closing a closed Go channel panics.
CloseMapChan(c) ==
  IF c.mapChanClosed
    THEN [c EXCEPT !.lock = "panicked"]
    ELSE [c EXCEPT !.mapChanClosed = TRUE]

\* Mutant: the channel timeout is not armed.
ClearWithoutTimeout(c, permanent) ==
  IF c.backChannel = None
    THEN c
    ELSE [c EXCEPT !.bcs[c.backChannel] = Discard(@),
                   !.backChannel = None,
                   !.backChannelExpiration = "nil"]

\* clearBackChannel.  The Stop of a nil backChannelExpiration would panic; that
\* is left out, since a back channel that is set always has one (Timed).
ClearBackChannel(c, permanent) ==
  IF c.backChannel = None
    THEN c
    ELSE [c EXCEPT !.bcs[c.backChannel] = Discard(@),
                   !.backChannel = None,
                   !.backChannelExpiration = "nil",
                   !.channelTimeout = IF permanent THEN @ ELSE "armed"]

\* Mutant: a channel nobody opened keeps its mapChan.
TerminateOpened(c) ==
  LET d == IF c.state = "ready" THEN CloseMapChan(c) ELSE c
  IN  [ClearBackChannel(d, TRUE) EXCEPT !.lock = "heartbeatStop"]

\* terminateInternal up to the send on heartbeatStop.
TerminateInternal(c) ==
  LET d == IF c.state \in {"init", "ready"} THEN CloseMapChan(c) ELSE c
  IN  IF d.lock = "panicked"
        THEN d
        ELSE [ClearBackChannel(d, TRUE) EXCEPT !.lock = "heartbeatStop"]

\* outgoingArrays[next:]
Unsent(c) ==
  LET next == Len(c.outgoingArrays) - (c.lastArrayId - c.lastSentArrayId)
  IN  SubSeq(c.outgoingArrays, next + 1, Len(c.outgoingArrays))

\* The call of send in flush, and lastSentArrayId when it returns no error.
SendUnsent(c) ==
  LET b == c.backChannel
  IN  [c EXCEPT !.bcs[b] = Send(@, Marshal(Unsent(c))),
                !.lastSentArrayId =
                  IF CanSend(c.bcs[b]) THEN c.lastArrayId ELSE @]

\* Mutant: acknowledgments are never forced.
AfterSendUnlimited(c, sent) ==
  IF sent /\ c.state = "writeClosed"
    THEN TerminateInternal(c)
    ELSE IF IsReusable(c.bcs[c.backChannel]) THEN c ELSE ClearBackChannel(c, FALSE)

\* Mutant: flush does not look whether Close waits for 'stop' to be sent.
AfterSendAnyState(c, sent) ==
  IF \/ ~IsReusable(c.bcs[c.backChannel])
     \/ Len(c.outgoingArrays) > ArrayLimit
    THEN ClearBackChannel(c, FALSE)
    ELSE c

\* What flush does once it has called send.
AfterSend(c, sent) ==
  IF sent /\ c.state = "writeClosed"
    THEN TerminateInternal(c)
    ELSE IF \/ ~IsReusable(c.bcs[c.backChannel])
            \/ Len(c.outgoingArrays) > ArrayLimit
      THEN ClearBackChannel(c, FALSE)
      ELSE c

Flush(c) ==
  IF c.backChannel = None \/ c.lastArrayId = c.lastSentArrayId
    THEN c
    ELSE AfterSend(SendUnsent(c), CanSend(c.bcs[c.backChannel]))

\* SendArray returns ErrClosed unless the channel is ready.
SendArray(c, e) ==
  IF c.state = "ready" THEN Flush(QueueArray(c, e)) ELSE c

\* Close up to the close of mapChan.
CloseAndFlush(c) == Flush(QueueArray([c EXCEPT !.state = "writeClosed"], "stop"))

\* Mutant: the array after the acknowledged ones is released too.
AcknowledgedAndNext(c, aid) ==
  LET out == c.outgoingArrays
  IN  Cardinality({i \in 1..Len(out) : \A j \in 1..i : out[j].index <= aid + 1})

\* How many leading arrays have an index of at most aid: these are released.
Acknowledged(c, aid) ==
  LET out == c.outgoingArrays
  IN  Cardinality({i \in 1..Len(out) : \A j \in 1..i : out[j].index <= aid})

AcknowledgeArrays(c, aid) ==
  [c EXCEPT !.outgoingArrays = SubSeq(@, Acknowledged(c, aid) + 1, Len(@))]

\* The first back channel opens the channel: 'c' is queued for the client.
OpenChannel(c) ==
  IF c.state = "init"
    THEN [QueueArray(c, "c") EXCEPT !.state = "ready"]
    ELSE c

\* Mutant: what the old back channel was given counts as received.
InstallWithoutReset(c, b) ==
  [c EXCEPT !.backChannel = b, !.channelTimeout = "nil",
            !.backChannelExpiration = "armed"]

\* Stop of a nil timer panics.
InstallBackChannel(c, b) ==
  IF c.channelTimeout = "nil"
    THEN [c EXCEPT !.lock = "panicked"]
    ELSE [c EXCEPT !.backChannel = b,
                   !.channelTimeout = "nil",
                   !.backChannelExpiration = "armed",
                   !.lastSentArrayId =
                     IF c.outgoingArrays # <<>>
                       THEN c.outgoingArrays[1].index - 1
                       ELSE @]

\* Mutants: what is unacknowledged waits for the next array; a late request
\* of a closed session is left waiting; it gets a back channel.
SetWithoutFlush(c, b) ==
  IF c.state = "closed"
    THEN [c EXCEPT !.bcs[b] = Discard(@)]
    ELSE InstallBackChannel(ClearBackChannel(OpenChannel(c), FALSE), b)

SetWithoutDiscard(c, b) ==
  IF c.state = "closed"
    THEN c
    ELSE Flush(InstallBackChannel(ClearBackChannel(OpenChannel(c), FALSE), b))

SetInAnyState(c, b) ==
  LET d == InstallBackChannel(ClearBackChannel(OpenChannel(c), FALSE), b)
  IN  IF d.lock = "panicked" THEN d ELSE Flush(d)

SetBackChannel(c, b) ==
  IF c.state = "closed"
    THEN [c EXCEPT !.bcs[b] = Discard(@)]
    ELSE LET d == InstallBackChannel(ClearBackChannel(OpenChannel(c), FALSE), b)
         IN  IF d.lock = "panicked" THEN d ELSE Flush(d)

-----------------------------------------------------------------------------
(***************************************************************************)
(* What the holder of the lock finds, and has to leave behind.             *)
(***************************************************************************)

\* Until it is closed, either a back channel is set and its expiration runs,
\* or none is and the channel timeout runs.
Timed(c) ==
  c.state # "closed" =>
    IF c.backChannel = None
      THEN c.channelTimeout # "nil" /\ c.backChannelExpiration = "nil"
      ELSE c.channelTimeout = "nil" /\ c.backChannelExpiration # "nil"

\* mapChan is closed exactly when the channel is.
MapChanMatches(c) == c.mapChanClosed <=> c.state \in {"writeClosed", "closed"}

\* outgoingArrays holds consecutive ids up to lastArrayId, the unsent ones
\* among them.
Window(c) ==
  LET out == c.outgoingArrays
  IN  /\ \A i \in 1..Len(out) : out[i].index = c.lastArrayId - Len(out) + i
      /\ c.lastSentArrayId <= c.lastArrayId
      /\ c.lastArrayId - Len(out) <= c.lastSentArrayId

\* What the session is to others, the terminateInternal that is under way
\* included (see Session).
Status(c, registered) ==
  IF c.lock = "panicked" THEN "crashed"
  ELSE IF ~registered THEN "unknown"
  ELSE IF c.lock \in {"heartbeatStop", "gcChan"} THEN "closed"
  ELSE c.state
=============================================================================
