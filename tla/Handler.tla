------------------------------ MODULE Handler ------------------------------
(***************************************************************************)
(* The HTTP handler (handler.go): several sessions at once, the session    *)
(* map, the collector of closed sessions that all of them share, and the   *)
(* bind requests of every kind, the malformed ones and those for sessions  *)
(* that are gone included.  A request is a goroutine; its phase says where *)
(* it is between two acquisitions of a lock.                               *)
(*                                                                         *)
(* Of a session only the parts matter here that decide whether it ends:    *)
(* its channel with the timers and its heartbeat goroutine.  The only      *)
(* array is 'c', and the application does no more than to read Maps.       *)
(* Channel models one session in full.                                     *)
(***************************************************************************)
EXTENDS ChannelMethods

CONSTANTS
  GcChanCapacity,    \* capacity of gcChan: 10
  \* Bounds of the model.
  MaxSessions,       \* sessions created
  MaxRequests        \* bind requests that arrive

ASSUME HandlerAssumption ==
  /\ GcChanCapacity \in Nat \ {0}
  /\ MaxSessions \in Nat
  /\ MaxRequests \in Nat

VARIABLES
  sessions,   \* the sessions created so far; the session id is the position
  channels,   \* the session map: the ids in it
  gcChan,     \* the ids buffered in gcChan
  req,        \* the bind requests; BackChannels are their identities
  arrived     \* number of requests that have arrived

vars == <<sessions, channels, gcChan, req, arrived>>

\* nullSessionId, of a request without SID.
NullSid == 0

Kinds == {"post", "get", "terminate", "malformed"}
Phases ==
  {"idle", "lookup", "acknowledge", "receiveMaps", "dequeueMaps", "readState",
   "getState", "setBackChannel", "wait", "terminate", "inTerminate"}
Requests == [phase : Phases, kind : Kinds, sid : Nat]
NoRequest == [phase |-> "idle", kind |-> "post", sid |-> NullSid]

Sessions ==
  [ch : ChannelRecord, heartbeat : {"none", "select", "exited"},
   heartbeatStop : 0..1, timeoutRuns : 0..1, expirationRuns : 0..1,
   known : BOOLEAN]

\* The session the handler creates.  known: the client has received 'c' with the session id.
NewSession ==
  [ch |-> NewChannel, heartbeat |-> "none", heartbeatStop |-> 0,
   timeoutRuns |-> 0, expirationRuns |-> 0, known |-> FALSE]

TypeOK ==
  /\ sessions \in Seq(Sessions)
  /\ channels \subseteq DOMAIN sessions
  /\ gcChan \in Seq(DOMAIN sessions)
  /\ Len(gcChan) <= GcChanCapacity
  /\ req \in [BackChannels -> Requests]
  /\ arrived \in Nat

Init ==
  /\ sessions = <<>>
  /\ channels = {}
  /\ gcChan = <<>>
  /\ req = [r \in BackChannels |-> NoRequest]
  /\ arrived = 0

-----------------------------------------------------------------------------
(***************************************************************************)
(* A bind request.  A request without SID creates a session whatever else  *)
(* is wrong with it.                                                       *)
(***************************************************************************)
Creating == {r \in BackChannels : req[r].phase = "lookup" /\ req[r].sid = NullSid}

\* The identities are interchangeable: a request takes any that is not in use.
Arrive ==
  /\ arrived < MaxRequests
  /\ \E r \in BackChannels : req[r].phase = "idle"
  /\ arrived' = arrived + 1
  /\ \E kind \in Kinds, sid \in {NullSid} \union DOMAIN sessions :
       /\ IF sid = NullSid
            THEN Len(sessions) + Cardinality(Creating) < MaxSessions
            ELSE sessions[sid].known
       /\ req' = [req EXCEPT ![CHOOSE r \in BackChannels : req[r].phase = "idle"] =
                    [phase |-> "lookup", kind |-> kind, sid |-> sid]]
  /\ UNCHANGED <<sessions, channels, gcChan>>

\* The switch on the method, and parseIncomingMaps: what the handler calls
\* next.  Other methods, and maps that do not parse, are answered with 400.
Dispatch(kind) ==
  CASE kind = "post" -> "receiveMaps"
    [] kind = "get" -> "setBackChannel"
    [] kind = "terminate" -> "terminate"
    [] kind = "malformed" -> "idle"

Goto(r, phase) ==
  req' = [req EXCEPT ![r] =
            IF phase = "idle" THEN NoRequest ELSE [@ EXCEPT !.phase = phase]]

\* Mutant: a new session has no timer until its first back channel is gone.
CreateWithoutTimeout(r) ==
  /\ req[r].phase = "lookup"
  /\ req[r].sid = NullSid
  /\ LET sid == Len(sessions) + 1
         phase == Dispatch(req[r].kind)
     IN  /\ sessions' = Append(sessions,
              [NewSession EXCEPT !.ch.channelTimeout =
                 IF phase = "idle" THEN "nil" ELSE "armed"])
         /\ channels' = channels \union {sid}
         /\ req' = [req EXCEPT ![r] = [@ EXCEPT !.phase = phase, !.sid = sid]]
  /\ UNCHANGED <<gcChan, arrived>>

Create(r) ==
  /\ req[r].phase = "lookup"
  /\ req[r].sid = NullSid
  /\ LET sid == Len(sessions) + 1
         phase == Dispatch(req[r].kind)
     IN  /\ sessions' = Append(sessions, NewSession)
         /\ channels' = channels \union {sid}
         /\ req' = [req EXCEPT ![r] =
                      IF phase = "idle"
                        THEN NoRequest
                        ELSE [@ EXCEPT !.phase = phase, !.sid = sid]]
  /\ UNCHANGED <<gcChan, arrived>>

\* A session that is not in the map: 'Unknown SID'.  A terminate request of
\* the client carries no AID.
Lookup(r) ==
  /\ req[r].phase = "lookup"
  /\ req[r].sid # NullSid
  /\ Goto(r, IF req[r].sid \notin channels THEN "idle"
             ELSE IF req[r].kind = "terminate" THEN "terminate"
             ELSE "acknowledge")
  /\ UNCHANGED <<sessions, channels, gcChan, arrived>>

\* What follows is a step of the request r for its session.
At(r, phase) == req[r].phase = phase
Locking(r, phase) == At(r, phase) /\ sessions[req[r].sid].ch.lock = "free"
SetChannel(s, c) == sessions' = [sessions EXCEPT ![s].ch = c]
Channel(r) == sessions[req[r].sid].ch

Acknowledge(r) ==
  /\ Locking(r, "acknowledge")
  /\ SetChannel(req[r].sid, AcknowledgeArrays(Channel(r), 1))
  /\ Goto(r, Dispatch(req[r].kind))
  /\ UNCHANGED <<channels, gcChan, arrived>>

\* receiveMaps: there are none, or they are dropped, or queued and given to
\* mapChan as far as it has room; the capacity of the queue is exceeded (500);
\* or dequeueMaps blocks on mapChan.
ReceiveMaps(r) ==
  /\ Locking(r, "receiveMaps")
  /\ \/ /\ Goto(r, "readState")
        /\ UNCHANGED sessions
     \/ /\ Channel(r).state = "ready"
        /\ Goto(r, "idle")
        /\ UNCHANGED sessions
     \/ /\ Channel(r).state = "ready"
        /\ Goto(r, "dequeueMaps")
        /\ SetChannel(req[r].sid, [Channel(r) EXCEPT !.lock = "dequeueMaps"])
  /\ UNCHANGED <<channels, gcChan, arrived>>

\* The application takes a map, and dequeueMaps goes on to its end.
DequeueMaps(r) ==
  /\ At(r, "dequeueMaps")
  /\ SetChannel(req[r].sid, [Channel(r) EXCEPT !.lock = "free"])
  /\ Goto(r, "readState")
  /\ UNCHANGED <<channels, gcChan, arrived>>

\* channel.state is read without the lock.
ReadState(r) ==
  /\ At(r, "readState")
  /\ Goto(r, IF Channel(r).state = "init" THEN "setBackChannel" ELSE "getState")
  /\ UNCHANGED <<sessions, channels, gcChan, arrived>>

GetState(r) ==
  /\ Locking(r, "getState")
  /\ Goto(r, "idle")
  /\ UNCHANGED <<sessions, channels, gcChan, arrived>>

\* newBackChannel and setBackChannel; only a GET may be chunked.
SetBackChannelCall(r) ==
  /\ Locking(r, "setBackChannel")
  /\ LET s == req[r].sid
         bc == NewBackChannel(req[r].kind = "get")
     IN  sessions' = [sessions EXCEPT
           ![s].ch = SetBackChannel([@ EXCEPT !.bcs[r] = bc], r),
           ![s].heartbeat = IF Channel(r).state = "init" THEN "select" ELSE @]
  /\ Goto(r, "wait")
  /\ UNCHANGED <<channels, gcChan, arrived>>

\* wait writes 'c' to the response.
WaitWrites(r) ==
  /\ At(r, "wait")
  /\ HasData(Channel(r).bcs[r])
  /\ sessions' = [sessions EXCEPT ![req[r].sid].ch.bcs[r] = TakeChunk(@),
                                  ![req[r].sid].known = TRUE]
  /\ UNCHANGED <<channels, gcChan, req, arrived>>

WaitReturns(r) ==
  /\ At(r, "wait")
  /\ WaitIsOver(Channel(r).bcs[r])
  /\ SetChannel(req[r].sid, [Channel(r) EXCEPT !.bcs[r] = NewBackChannel(FALSE)])
  /\ Goto(r, "idle")
  /\ UNCHANGED <<channels, gcChan, arrived>>

Terminate(r) ==
  /\ Locking(r, "terminate")
  /\ SetChannel(req[r].sid, TerminateInternal(Channel(r)))
  /\ Goto(r, "inTerminate")
  /\ UNCHANGED <<channels, gcChan, arrived>>

-----------------------------------------------------------------------------
(***************************************************************************)
(* The rest of a session, and the collector.                               *)
(***************************************************************************)
Free(s) == sessions[s].ch.lock = "free"

\* The timers expire; their functions wait for the lock.
TimerFires(s) ==
  /\ \/ /\ sessions[s].ch.channelTimeout = "armed"
        /\ sessions[s].timeoutRuns = 0
        /\ sessions' = [sessions EXCEPT ![s].ch.channelTimeout = "fired",
                                        ![s].timeoutRuns = 1]
     \/ /\ sessions[s].ch.backChannelExpiration = "armed"
        /\ sessions[s].expirationRuns = 0
        /\ sessions' = [sessions EXCEPT ![s].ch.backChannelExpiration = "fired",
                                        ![s].expirationRuns = 1]
  /\ UNCHANGED <<channels, gcChan, req, arrived>>

ChannelTimeoutRuns(s) ==
  /\ Free(s)
  /\ sessions[s].timeoutRuns = 1
  /\ sessions' = [sessions EXCEPT ![s].ch = TerminateInternal(@),
                                  ![s].timeoutRuns = 0]
  /\ UNCHANGED <<channels, gcChan, req, arrived>>

ExpirationRuns(s) ==
  /\ Free(s)
  /\ sessions[s].expirationRuns = 1
  /\ sessions' = [sessions EXCEPT ![s].ch = ClearBackChannel(@, FALSE),
                                  ![s].expirationRuns = 0]
  /\ UNCHANGED <<channels, gcChan, req, arrived>>

\* Mutant: the session goes to the collector before it is closed.
StopHeartbeatLate(s) ==
  /\ sessions[s].ch.lock = "heartbeatStop"
  /\ Len(gcChan) < GcChanCapacity
  /\ gcChan' = Append(gcChan, s)
  /\ sessions' = [sessions EXCEPT ![s].ch.lock = "gcChan"]
  /\ UNCHANGED <<channels, req, arrived>>

StopHeartbeat(s) ==
  /\ sessions[s].ch.lock = "heartbeatStop"
  /\ sessions[s].heartbeatStop = 0
  /\ sessions' = [sessions EXCEPT ![s].heartbeatStop = 1,
                                  ![s].ch.state = "closed",
                                  ![s].ch.lock = "gcChan"]
  /\ UNCHANGED <<channels, gcChan, req, arrived>>

HeartbeatStops(s) ==
  /\ sessions[s].heartbeat = "select"
  /\ sessions[s].heartbeatStop = 1
  /\ sessions' = [sessions EXCEPT ![s].heartbeat = "exited",
                                  ![s].heartbeatStop = 0]
  /\ UNCHANGED <<channels, gcChan, req, arrived>>

\* Mutant: the send on gcChan does not wait for room.
SendToGcAnyway(s) ==
  /\ sessions[s].ch.lock = "gcChan"
  /\ gcChan' = Append(gcChan, s)
  /\ SetChannel(s, [sessions[s].ch EXCEPT !.lock = "free"])
  /\ req' = [r \in BackChannels |->
               IF req[r].phase = "inTerminate" /\ req[r].sid = s
                 THEN NoRequest ELSE req[r]]
  /\ UNCHANGED <<channels, arrived>>

\* Whoever was in terminate returns.
SendToGc(s) ==
  /\ sessions[s].ch.lock = "gcChan"
  /\ Len(gcChan) < GcChanCapacity
  /\ gcChan' = Append(gcChan, s)
  /\ SetChannel(s, [sessions[s].ch EXCEPT !.lock = "free"])
  /\ req' = [r \in BackChannels |->
               IF req[r].phase = "inTerminate" /\ req[r].sid = s
                 THEN NoRequest ELSE req[r]]
  /\ UNCHANGED <<channels, arrived>>

\* Mutant: the collector takes the lock of the channel it removes.
RemoveUnlockedSession ==
  /\ gcChan # <<>>
  /\ Free(Head(gcChan))
  /\ channels' = channels \ {Head(gcChan)}
  /\ gcChan' = Tail(gcChan)
  /\ UNCHANGED <<sessions, req, arrived>>

\* removeClosedSession.  A session may be in gcChan twice.
RemoveClosedSession ==
  /\ gcChan # <<>>
  /\ channels' = channels \ {Head(gcChan)}
  /\ gcChan' = Tail(gcChan)
  /\ UNCHANGED <<sessions, req, arrived>>

-----------------------------------------------------------------------------
RequestStep(r) ==
  \/ Create(r)
  \/ Lookup(r)
  \/ Acknowledge(r)
  \/ ReceiveMaps(r)
  \/ DequeueMaps(r)
  \/ ReadState(r)
  \/ GetState(r)
  \/ SetBackChannelCall(r)
  \/ WaitWrites(r)
  \/ WaitReturns(r)
  \/ Terminate(r)

SessionStep(s) ==
  \/ TimerFires(s)
  \/ ChannelTimeoutRuns(s)
  \/ ExpirationRuns(s)
  \/ StopHeartbeat(s)
  \/ HeartbeatStops(s)
  \/ SendToGc(s)

Next ==
  \/ Arrive
  \/ \E r \in BackChannels : RequestStep(r)
  \/ \E s \in DOMAIN sessions : SessionStep(s)
  \/ RemoveClosedSession

Spec == Init /\ [][Next]_vars

(***************************************************************************)
(* Fairness: a goroutine that can run does, timers expire, the application *)
(* reads Maps.  Requests need not come.                                    *)
(*                                                                         *)
(* RequestFairness is WF_vars(RequestStep(r)) with ENABLED spelled out,    *)
(* which TLC evaluates too slowly for setBackChannel: every step of a      *)
(* request changes its phase or its data channel.                          *)
(***************************************************************************)
CanStep(r) ==
  \/ req[r].phase \in {"lookup", "readState", "dequeueMaps"}
  \/ /\ req[r].phase \in {"acknowledge", "receiveMaps", "getState",
                          "setBackChannel", "terminate"}
     /\ Channel(r).lock = "free"
  \/ At(r, "wait") /\ (HasData(Channel(r).bcs[r]) \/ WaitIsOver(Channel(r).bcs[r]))

RequestFairness(r) == []<>~CanStep(r) \/ []<><<RequestStep(r)>>_vars

FairSpec ==
  /\ Spec
  /\ \A r \in BackChannels : RequestFairness(r)
  /\ \A s \in 1..MaxSessions :
       WF_vars(s \in DOMAIN sessions /\ SessionStep(s))
  /\ WF_vars(RemoveClosedSession)

-----------------------------------------------------------------------------
(***************************************************************************)
(* Properties.                                                             *)
(***************************************************************************)

\* 'Unknown SID' tells the client that its session is over: a session that is
\* not in the map, or is on its way out of it, is closed.
UnknownIsClosed ==
  \A s \in DOMAIN sessions :
    s \notin channels \/ (\E i \in DOMAIN gcChan : gcChan[i] = s)
      => sessions[s].ch.state = "closed"

\* No session is forgotten: until it is closed the timer that will end it, or
\* its back channel, runs, or has expired and its function waits for the lock.
NoSessionForgotten ==
  \A s \in DOMAIN sessions :
    Free(s) /\ sessions[s].ch.state # "closed" =>
      IF sessions[s].ch.backChannel = None
        THEN sessions[s].ch.channelTimeout = "armed" \/ sessions[s].timeoutRuns = 1
        ELSE \/ sessions[s].ch.backChannelExpiration = "armed"
             \/ sessions[s].expirationRuns = 1

\* No request is forgotten: one in wait on an open data channel is the back
\* channel of its session, to be discarded when that is replaced, expires or
\* goes down with the session.
NoRequestForgotten ==
  \A r \in BackChannels :
    At(r, "wait") /\ Channel(r).bcs[r].open => Channel(r).backChannel = r

\* No id is forgotten: a closed session that is still in the map, and whose
\* lock is free, is in gcChan for the collector to remove.
NoIdForgotten ==
  \A s \in channels :
    Free(s) /\ sessions[s].ch.state = "closed" =>
      \E i \in DOMAIN gcChan : gcChan[i] = s

\* What has to happen has somebody who will do it.
NobodyForgotten == NoSessionForgotten /\ NoRequestForgotten /\ NoIdForgotten

\* Each session of the handler is a session by itself, whatever the others
\* do; the id of one that is created is not known before.
SessionLife(s) == INSTANCE Session WITH
  status <- IF s \in DOMAIN sessions
              THEN Status(sessions[s].ch, s \in channels) ELSE "init",
  streaming <- s \in DOMAIN sessions /\ sessions[s].ch.backChannel # None,
  sent <- IF s \in DOMAIN sessions THEN sessions[s].ch.lastArrayId ELSE 0

ImplementsSessions ==
  /\ \A s \in 1..MaxSessions : SessionLife(s)!Init
  /\ [][\A s \in 1..MaxSessions :
         [SessionLife(s)!Next]_(SessionLife(s)!vars)]_vars

\* A second terminate has filled heartbeatStop again and holds the lock of its
\* channel for ever (see the finding of run stuck_stop).
Stuck(s) ==
  /\ sessions[s].ch.lock = "heartbeatStop"
  /\ sessions[s].heartbeatStop = 1
  /\ sessions[s].heartbeat # "select"

\* Every session that is created ends and leaves the map, whatever request
\* created it and whatever follows: once no more requests come, the map is
\* empty.
SessionsEnd == <>[](channels = {})

\* Every request is answered, unless its own session is stuck: a session that
\* is stuck does not stop the requests of the others.
RequestsAnswered ==
  <>[](\A r \in BackChannels :
         At(r, "idle") \/ (req[r].sid # NullSid /\ Stuck(req[r].sid)))
=============================================================================
