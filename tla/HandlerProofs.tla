--------------------------- MODULE HandlerProofs ---------------------------
(***************************************************************************)
(* Proofs about Handler, for any number of sessions and requests: types;   *)
(* a session leaves the session map only when it is closed; no session, no *)
(* request and no id is forgotten; and each session implements Session.    *)
(* SessionOK is what holds of one session by where the holder of its lock  *)
(* is, and Alive what others rely on; one lemma per action for each.       *)
(***************************************************************************)
EXTENDS Handler, ChannelMethodsProofs

\* 'c' was sent to whoever has got it, or still may.
SentFirst(S) ==
  \/ S.known
  \/ S.ch.state \in {"ready", "writeClosed"}
  \/ \E b \in BackChannels : S.ch.bcs[b].dataChan # <<>>
  => 1 <= S.ch.lastSentArrayId

ChannelOK(c) ==
  /\ Consistent(c)
  /\ c.lock # "panicked"
  /\ c.lock \in {"free", "dequeueMaps"} => Timed(c) /\ MapChanMatches(c)
  /\ c.lock \in {"heartbeatStop", "gcChan"} => c.mapChanClosed
  /\ c.lock = "gcChan" => c.state = "closed"

SessionOK(S) == S \in Sessions /\ ChannelOK(S.ch) /\ SentFirst(S)

\* The session of a request exists; a request that acknowledges has got 'c';
\* one request alone is in dequeueMaps of a session.
RequestOK(r) ==
  /\ req[r].phase \notin {"idle", "lookup"} \/ req[r].sid # NullSid
       => req[r].sid \in DOMAIN sessions
  /\ req[r].phase \in {"lookup", "acknowledge"} /\ req[r].sid # NullSid
       => sessions[req[r].sid].known
  /\ req[r].phase = "dequeueMaps"
       => /\ Channel(r).lock = "dequeueMaps"
          /\ \A q \in BackChannels :
               req[q].phase = "dequeueMaps" /\ req[q].sid = req[r].sid => q = r

Inv ==
  /\ TypeOK
  /\ \A s \in DOMAIN sessions : SessionOK(sessions[s])
  /\ \A r \in BackChannels : RequestOK(r)
  /\ UnknownIsClosed

-----------------------------------------------------------------------------
(***************************************************************************)
(* The parts of the invariant.                                             *)
(***************************************************************************)

\* Sessions stay, and stay in order; what the client knows and what is closed
\* stays so.
Kept ==
  /\ sessions' \in Seq(Sessions)
  /\ DOMAIN sessions' = DOMAIN sessions
  /\ \A t \in DOMAIN sessions :
       /\ SessionOK(sessions'[t])
       /\ sessions[t].known => sessions'[t].known
       /\ sessions[t].ch.state = "closed" => sessions'[t].ch.state = "closed"

\* Whoever is in dequeueMaps keeps the lock.
LocksKept ==
  \A t \in DOMAIN sessions :
    sessions[t].ch.lock = "dequeueMaps" => sessions'[t].ch.lock = "dequeueMaps"

\* A request rests, is over, or is at a point where it has nothing to rely on
\* but its session.
Moves(q) ==
  \/ req'[q] \in {req[q], NoRequest}
  \/ /\ req'[q] \in Requests
     /\ req'[q].sid = req[q].sid
     /\ req[q].sid \in DOMAIN sessions
     /\ req'[q].phase \notin {"idle", "lookup", "acknowledge", "dequeueMaps"}

LEMMA NothingKept == ASSUME Inv, UNCHANGED sessions PROVE Kept /\ LocksKept
BY DEF Inv, TypeOK, Kept, LocksKept

\* One session changes.
LEMMA Updated ==
  ASSUME Inv, NEW s \in DOMAIN sessions, NEW T, SessionOK(T),
         sessions' = [sessions EXCEPT ![s] = T],
         sessions[s].known => T.known,
         sessions[s].ch.state = "closed" => T.ch.state = "closed"
  PROVE  Kept
<1>1. T \in Sessions
  BY DEF SessionOK
<1>2. sessions \in Seq(Sessions)
  BY DEF Inv, TypeOK
<1>3. sessions' \in Seq(Sessions) /\ DOMAIN sessions' = DOMAIN sessions
  BY <1>1, <1>2
<1>4. \A t \in DOMAIN sessions : sessions'[t] = IF t = s THEN T ELSE sessions[t]
  BY <1>2
<1> QED
  BY <1>3, <1>4 DEF Kept, Inv

\* The session map and gcChan, as long as nobody touches them.
LEMMA MapKept ==
  ASSUME Inv, Kept, UNCHANGED <<channels, gcChan>>
  PROVE  /\ channels' \subseteq DOMAIN sessions'
         /\ gcChan' \in Seq(DOMAIN sessions') /\ Len(gcChan') <= GcChanCapacity
         /\ UnknownIsClosed'
BY DEF Inv, TypeOK, Kept, UnknownIsClosed

LEMMA RequestsKept ==
  ASSUME Inv, Kept, LocksKept, req' \in [BackChannels -> Requests],
         \A q \in BackChannels : Moves(q)
  PROVE  \A r \in BackChannels : RequestOK(r)'
<1> SUFFICES ASSUME NEW r \in BackChannels PROVE RequestOK(r)'
  OBVIOUS
<1>1. NoRequest.phase = "idle" /\ NoRequest.sid = NullSid
  BY DEF NoRequest
<1>2. RequestOK(r) /\ Moves(r)
  BY DEF Inv
<1>3. ASSUME req'[r].phase \notin {"idle", "lookup"} \/ req'[r].sid # NullSid
      PROVE  req'[r].sid \in DOMAIN sessions'
  BY <1>1, <1>2, <1>3 DEF RequestOK, Moves, Kept
<1>4. ASSUME req'[r].phase \in {"lookup", "acknowledge"}, req'[r].sid # NullSid
      PROVE  sessions'[req'[r].sid].known
  <2>1. req'[r] = req[r]
    BY <1>1, <1>2, <1>4 DEF Moves
  <2> QED
    BY <1>2, <1>4, <2>1 DEF RequestOK, Kept
<1>5. ASSUME req'[r].phase = "dequeueMaps"
      PROVE  /\ sessions'[req'[r].sid].ch.lock = "dequeueMaps"
             /\ \A q \in BackChannels :
                  req'[q].phase = "dequeueMaps" /\ req'[q].sid = req'[r].sid => q = r
  <2>1. \A q \in BackChannels : req'[q].phase = "dequeueMaps" => req'[q] = req[q]
    BY <1>1 DEF Moves
  <2>2. req'[r] = req[r]
    BY <1>5, <2>1
  <2>3. req[r].sid \in DOMAIN sessions
    BY <1>2, <1>5, <2>2 DEF RequestOK
  <2> QED
    BY <1>2, <1>5, <2>1, <2>2, <2>3 DEF RequestOK, LocksKept, Channel
<1> QED
  BY <1>3, <1>4, <1>5 DEF RequestOK, Channel

LEMMA InvFromParts ==
  ASSUME Inv, Kept, UNCHANGED <<channels, gcChan>>, arrived' \in Nat,
         req' \in [BackChannels -> Requests],
         \A r \in BackChannels : RequestOK(r)'
  PROVE  Inv'
BY MapKept DEF Inv, TypeOK, Kept

\* The request that Goto moves; the others stay.
LEMMA GotoMoves ==
  ASSUME Inv, NEW r \in BackChannels, req[r].sid \in DOMAIN sessions,
         NEW p \in Phases \ {"lookup", "acknowledge", "dequeueMaps"}, Goto(r, p)
  PROVE  req' \in [BackChannels -> Requests] /\ \A q \in BackChannels : Moves(q)
<1>1. NoRequest \in Requests
  BY DEF NoRequest, Requests, Phases, Kinds, NullSid
<1>2. req \in [BackChannels -> Requests] /\ req[r] \in Requests
  BY DEF Inv, TypeOK
<1>3. [req[r] EXCEPT !.phase = p] \in Requests
  BY <1>2 DEF Requests
<1>4. /\ [req[r] EXCEPT !.phase = p].sid = req[r].sid
      /\ [req[r] EXCEPT !.phase = p].phase = p
  BY <1>2 DEF Requests
<1>5. \A q \in BackChannels :
        req'[q] = IF q = r THEN IF p = "idle" THEN NoRequest
                                             ELSE [req[r] EXCEPT !.phase = p]
                           ELSE req[q]
  BY <1>2 DEF Goto
<1>6. req' \in [BackChannels -> Requests]
  BY <1>1, <1>2, <1>3 DEF Goto
<1> QED
  BY <1>3, <1>4, <1>5, <1>6 DEF Moves

\* A session whose channel goes from one state to the next.
LEMMA SessionFromChannel ==
  ASSUME NEW S, SessionOK(S), NEW c, ChannelOK(c), SameData(S.ch, c),
         S.ch.lastSentArrayId <= c.lastSentArrayId,
         c.state = S.ch.state
  PROVE  /\ SessionOK([S EXCEPT !.ch = c])
         /\ [S EXCEPT !.ch = c].known = S.known
         /\ [S EXCEPT !.ch = c].ch = c
<1> DEFINE T == [S EXCEPT !.ch = c]
<1>1. S \in Sessions /\ S.ch \in ChannelRecord /\ c \in ChannelRecord
  BY DEF SessionOK, Sessions, ChannelOK, Consistent
<1>2. T \in Sessions /\ T.ch = c /\ T.known = S.known
  BY <1>1 DEF Sessions
<1> HIDE DEF T
<1>3. S.ch.lastSentArrayId \in Int /\ c.lastSentArrayId \in Int
  BY <1>1 DEF ChannelRecord
<1>4. SentFirst(T)
  BY <1>2, <1>3 DEF SentFirst, SessionOK, SameData
<1> QED
  BY <1>2, <1>4 DEF SessionOK, T

\* terminateInternal, whoever calls it.
LEMMA TerminateSession ==
  ASSUME NEW S, SessionOK(S), S.ch.lock = "free"
  PROVE  LET T == [S EXCEPT !.ch = TerminateInternal(@)]
         IN  /\ SessionOK(T)
             /\ T.known = S.known
             /\ T.ch.state = S.ch.state
             /\ T = [S EXCEPT !.ch = TerminateInternal(S.ch)]
<1> DEFINE c == TerminateInternal(S.ch)
<1>1. Sound(S.ch) /\ S.ch \in ChannelRecord /\ S.ch.lastSentArrayId \in Int
  BY DEF SessionOK, ChannelOK, Sound, Consistent, ChannelRecord
<1>2. S.ch.state \in {"init", "ready"} => ~S.ch.mapChanClosed
  BY <1>1 DEF Sound, MapChanMatches
<1>3. c.state = S.ch.state /\ SameData(S.ch, c)
  BY <1>1, <1>2, TerminateInternalProperties
<1>4. ChannelOK(c) /\ S.ch.lastSentArrayId <= c.lastSentArrayId
  BY <1>1, TerminateInternalConsistent DEF ChannelOK
<1> HIDE DEF c
<1>5. /\ SessionOK([S EXCEPT !.ch = c])
      /\ [S EXCEPT !.ch = c].known = S.known
      /\ [S EXCEPT !.ch = c].ch = c
  BY <1>3, <1>4, SessionFromChannel
<1> QED
  BY <1>3, <1>5 DEF c

\* The session of a request that has passed the lookup.
LEMMA SessionOfRequest ==
  ASSUME Inv, NEW r \in BackChannels, req[r].phase \notin {"idle", "lookup"}
  PROVE  /\ req[r].sid \in DOMAIN sessions
         /\ SessionOK(sessions[req[r].sid])
         /\ Channel(r) = sessions[req[r].sid].ch
         /\ Channel(r) \in ChannelRecord
         /\ Channel(r).lock = "free" => Sound(Channel(r))
BY DEF Inv, RequestOK, Channel, SessionOK, ChannelOK, Consistent, Sound

\* A request whose step is to move on.
LEMMA OnlyGoto ==
  ASSUME Inv, NEW r \in BackChannels, req[r].sid \in DOMAIN sessions,
         NEW p \in Phases \ {"lookup", "acknowledge", "dequeueMaps"}, Goto(r, p),
         UNCHANGED <<sessions, channels, gcChan, arrived>>
  PROVE  Inv'
<1>1. Kept /\ LocksKept
  BY NothingKept
<1>2. req' \in [BackChannels -> Requests] /\ \A q \in BackChannels : Moves(q)
  BY GotoMoves
<1>3. arrived' \in Nat
  BY DEF Inv, TypeOK
<1> QED
  BY <1>1, <1>2, <1>3, RequestsKept, InvFromParts

\* A request whose step changes its session, and moves on.
LEMMA SessionAndGoto ==
  ASSUME Inv, NEW r \in BackChannels, req[r].sid \in DOMAIN sessions,
         NEW p \in Phases \ {"lookup", "acknowledge", "dequeueMaps"}, Goto(r, p),
         UNCHANGED <<channels, gcChan, arrived>>,
         NEW T, SessionOK(T), sessions' = [sessions EXCEPT ![req[r].sid] = T],
         sessions[req[r].sid].known => T.known,
         sessions[req[r].sid].ch.state = "closed" => T.ch.state = "closed",
         sessions[req[r].sid].ch.lock # "dequeueMaps"
  PROVE  Inv'
<1>1. Kept
  BY Updated
<1>2. LocksKept
  BY DEF LocksKept, Inv, TypeOK
<1>3. req' \in [BackChannels -> Requests] /\ \A q \in BackChannels : Moves(q)
  BY GotoMoves
<1>4. arrived' \in Nat
  BY DEF Inv, TypeOK
<1> QED
  BY <1>1, <1>2, <1>3, <1>4, RequestsKept, InvFromParts

\* A session changes by itself.
LEMMA SessionAlone ==
  ASSUME Inv, NEW s \in DOMAIN sessions, UNCHANGED <<channels, gcChan, req, arrived>>,
         NEW T, SessionOK(T), sessions' = [sessions EXCEPT ![s] = T],
         sessions[s].known => T.known,
         sessions[s].ch.state = "closed" => T.ch.state = "closed",
         sessions[s].ch.lock = "dequeueMaps" => T.ch.lock = "dequeueMaps"
  PROVE  Inv'
<1>1. Kept
  BY Updated
<1>2. LocksKept
  BY DEF LocksKept, Inv, TypeOK
<1>3. req' \in [BackChannels -> Requests] /\ \A q \in BackChannels : Moves(q)
  BY DEF Inv, TypeOK, Moves
<1>4. arrived' \in Nat
  BY DEF Inv, TypeOK
<1> QED
  BY <1>1, <1>2, <1>3, <1>4, RequestsKept, InvFromParts

-----------------------------------------------------------------------------
(***************************************************************************)
(* The requests.                                                           *)
(***************************************************************************)
LEMMA DispatchPhase ==
  ASSUME NEW k \in Kinds
  PROVE  Dispatch(k) \in Phases \ {"lookup", "acknowledge", "dequeueMaps"}
BY DEF Dispatch, Kinds, Phases

\* A request for a session the client knows, or for a new one.
LEMMA ArriveKeepsInv == ASSUME Inv, Arrive PROVE Inv'
<1> DEFINE r == CHOOSE r \in BackChannels : req[r].phase = "idle"
<1>1. r \in BackChannels
  BY DEF Arrive
<1>2. PICK kind \in Kinds, sid \in {NullSid} \union DOMAIN sessions :
        /\ sid # NullSid => sessions[sid].known
        /\ req' = [req EXCEPT ![r] = [phase |-> "lookup", kind |-> kind, sid |-> sid]]
  BY DEF Arrive
<1> HIDE DEF r
<1>3. UNCHANGED <<sessions, channels, gcChan>> /\ arrived' \in Nat
  BY DEF Arrive, Inv, TypeOK
<1>4. sid \in Nat
  BY DEF Inv, TypeOK, NullSid
<1>5. [phase |-> "lookup", kind |-> kind, sid |-> sid] \in Requests
  BY <1>4 DEF Requests, Phases
<1>6. req' \in [BackChannels -> Requests]
  BY <1>1, <1>2, <1>5 DEF Inv, TypeOK
<1>7. ASSUME NEW q \in BackChannels PROVE RequestOK(q)'
  <2>1. CASE q = r
    BY <1>1, <1>2, <1>3, <2>1 DEF Inv, TypeOK, RequestOK
  <2>2. CASE q # r
    <3>1. req'[q] = req[q] /\ \A x \in BackChannels :
             req'[x].phase = "dequeueMaps" => req'[x] = req[x]
      BY <1>1, <1>2, <2>2 DEF Inv, TypeOK
    <3> QED
      BY <1>3, <3>1 DEF Inv, RequestOK, Channel
  <2> QED
    BY <2>1, <2>2
<1> QED
  BY <1>3, <1>6, <1>7, NothingKept, InvFromParts

\* A new session, with the timer that will end it.
LEMMA CreateKeepsInv == ASSUME Inv, NEW r \in BackChannels, Create(r) PROVE Inv'
<1> DEFINE sid == Len(sessions) + 1
           phase == Dispatch(req[r].kind)
<1>1. /\ sessions \in Seq(Sessions) /\ DOMAIN sessions = 1..Len(sessions)
      /\ Len(sessions) \in Nat /\ req[r] \in Requests
  BY DEF Inv, TypeOK
<1>2. phase \in Phases \ {"lookup", "acknowledge", "dequeueMaps"}
  BY <1>1, DispatchPhase DEF Requests
<1>3. SessionOK(NewSession)
  <2>1. NewSession \in Sessions
    BY NewChannelSound DEF NewSession, Sessions, Sound, Consistent
  <2>2. ChannelOK(NewSession.ch) /\ NewSession.ch = NewChannel /\ ~NewSession.known
    BY NewChannelSound DEF NewSession, ChannelOK, Sound
  <2>3. \A b \in BackChannels : NewChannel.bcs[b].dataChan = <<>>
    BY DEF NewChannel, NewBackChannel
  <2> QED
    BY <2>1, <2>2, <2>3, NewChannelSound DEF SessionOK, SentFirst
<1>4. /\ sessions' = Append(sessions, NewSession)
      /\ sessions' \in Seq(Sessions)
      /\ DOMAIN sessions' = DOMAIN sessions \union {sid}
      /\ sessions'[sid] = NewSession
      /\ \A t \in DOMAIN sessions : sessions'[t] = sessions[t]
  <2>1. NewSession \in Sessions
    BY <1>3 DEF SessionOK
  <2> HIDE DEF sid
  <2> QED
    BY <1>1, <2>1 DEF Create, sid
<1>5. channels' = channels \union {sid} /\ gcChan' = gcChan /\ arrived' = arrived
  BY DEF Create
<1>6. sid \notin DOMAIN sessions /\ sid \in Nat /\ sid # NullSid
  BY <1>1 DEF NullSid
<1>7. \A q \in BackChannels :
        req'[q] = IF q # r THEN req[q]
                  ELSE IF phase = "idle" THEN NoRequest
                  ELSE [req[r] EXCEPT !.phase = phase, !.sid = sid]
  BY DEF Create, Inv, TypeOK
<1> HIDE DEF sid, phase
<1>8. req' \in [BackChannels -> Requests]
  <2>1. [req[r] EXCEPT !.phase = phase, !.sid = sid] \in Requests
    BY <1>1, <1>2, <1>6 DEF Requests
  <2>2. NoRequest \in Requests
    BY DEF NoRequest, Requests, Phases, Kinds, NullSid
  <2> QED
    BY <2>1, <2>2 DEF Create, Inv, TypeOK, sid, phase
<1>9. TypeOK' /\ \A s \in DOMAIN sessions' : SessionOK(sessions'[s])
  BY <1>3, <1>4, <1>5, <1>8 DEF Inv, TypeOK
<1>10. UnknownIsClosed'
  BY <1>4, <1>5, <1>6 DEF Inv, TypeOK, UnknownIsClosed
<1>11. ASSUME NEW q \in BackChannels PROVE RequestOK(q)'
  <2>1. CASE q = r
    <3>1. \/ req'[q] = NoRequest
          \/ /\ req'[q].sid = sid
             /\ req'[q].phase \notin {"lookup", "acknowledge", "dequeueMaps"}
      BY <1>1, <1>2, <1>7, <2>1 DEF Requests
    <3> QED
      BY <1>4, <3>1 DEF RequestOK, NoRequest
  <2>2. CASE q # r
    <3>1. req'[q] = req[q]
      BY <1>7, <2>2
    <3>2. req'[r].phase # "dequeueMaps"
      <4>1. NoRequest.phase # "dequeueMaps"
        BY DEF NoRequest
      <4>2. [req[r] EXCEPT !.phase = phase, !.sid = sid].phase = phase
        BY <1>1 DEF Requests
      <4> QED
        BY <1>2, <1>7, <4>1, <4>2
    <3>3. \A x \in BackChannels : req'[x].phase = "dequeueMaps" => req'[x] = req[x]
      BY <1>7, <3>2
    <3> QED
      BY <1>4, <3>1, <3>3 DEF Inv, RequestOK, Channel
  <2> QED
    BY <2>1, <2>2
<1> QED
  BY <1>9, <1>10, <1>11 DEF Inv

\* The session is known, the one of a request with SID.
LEMMA LookupKeepsInv == ASSUME Inv, NEW r \in BackChannels, Lookup(r) PROVE Inv'
<1>1. /\ req[r].phase = "lookup" /\ req[r].sid # NullSid
      /\ UNCHANGED <<sessions, channels, gcChan, arrived>>
  BY DEF Lookup
<1>2. req[r].sid \in DOMAIN sessions /\ sessions[req[r].sid].known
  BY <1>1 DEF Inv, RequestOK
<1>3. CASE Goto(r, "idle") \/ Goto(r, "terminate")
  BY <1>1, <1>2, <1>3, OnlyGoto DEF Phases
<1>4. CASE Goto(r, "acknowledge")
  <2>1. req \in [BackChannels -> Requests] /\ req[r] \in Requests
    BY DEF Inv, TypeOK
  <2> DEFINE q == [req[r] EXCEPT !.phase = "acknowledge"]
  <2>2. q \in Requests /\ q.sid = req[r].sid /\ q.phase = "acknowledge"
    BY <2>1 DEF Requests, Phases
  <2>3. req' = [req EXCEPT ![r] = q]
    BY <1>4, <2>1 DEF Goto
  <2> HIDE DEF q
  <2>4. req' \in [BackChannels -> Requests]
    BY <2>1, <2>2, <2>3
  <2>5. /\ req'[r] = q
        /\ \A x \in BackChannels \ {r} : req'[x] = req[x]
        /\ \A x \in BackChannels : req'[x].phase = "dequeueMaps" => req'[x] = req[x]
    BY <2>1, <2>2, <2>3
  <2>6. \A x \in BackChannels : RequestOK(x)'
    <3> SUFFICES ASSUME NEW x \in BackChannels PROVE RequestOK(x)'
      OBVIOUS
    <3>1. CASE x = r
      BY <1>1, <1>2, <2>2, <2>5, <3>1 DEF RequestOK
    <3>2. CASE x # r
      BY <1>1, <2>5, <3>2 DEF Inv, RequestOK, Channel
    <3> QED
      BY <3>1, <3>2
  <2>7. arrived' \in Nat
    BY <1>1 DEF Inv, TypeOK
  <2> QED
    BY <1>1, <2>4, <2>6, <2>7, NothingKept, InvFromParts
<1> QED
  BY <1>3, <1>4 DEF Lookup

\* The client acknowledges 'c', which it has got.
LEMMA AcknowledgeKeepsInv ==
  ASSUME Inv, NEW r \in BackChannels, Acknowledge(r)
  PROVE  Inv'
<1> DEFINE s == req[r].sid
           S == sessions[s]
           c == AcknowledgeArrays(S.ch, 1)
<1>1. /\ req[r].phase = "acknowledge" /\ S.ch.lock = "free"
      /\ Goto(r, Dispatch(req[r].kind))
      /\ sessions' = [sessions EXCEPT ![s].ch = c]
      /\ UNCHANGED <<channels, gcChan, arrived>>
  BY DEF Acknowledge, Locking, At, SetChannel, Channel
<1>2. /\ s \in DOMAIN sessions /\ SessionOK(S)
      /\ S.ch \in ChannelRecord /\ Sound(S.ch)
  BY <1>1, SessionOfRequest
<1>3. S.ch.lastSentArrayId \in Int /\ 1 <= S.ch.lastSentArrayId
  <2>1. s # NullSid
    BY <1>2 DEF Inv, TypeOK, NullSid
  <2>2. S.known
    BY <1>1, <2>1 DEF Inv, RequestOK
  <2> QED
    BY <1>2, <2>2 DEF SessionOK, SentFirst, ChannelRecord
<1>4. /\ Sound(c) /\ c.lock = "free"
      /\ c.lastSentArrayId = S.ch.lastSentArrayId
  BY <1>1, <1>2, <1>3, AcknowledgeSound
<1>5. c.state = S.ch.state /\ c.bcs = S.ch.bcs
  BY <1>2 DEF AcknowledgeArrays, ChannelRecord
<1> HIDE DEF c
<1>6. ChannelOK(c) /\ SameData(S.ch, c)
  BY <1>4, <1>5 DEF ChannelOK, Sound, SameData
<1> DEFINE T == [S EXCEPT !.ch = c]
<1>7. SessionOK(T) /\ T.known = S.known /\ T.ch = c
  BY <1>2, <1>3, <1>4, <1>5, <1>6, SessionFromChannel
<1>8. sessions' = [sessions EXCEPT ![s] = T]
  BY <1>1
<1>9. Dispatch(req[r].kind) \in Phases \ {"lookup", "acknowledge", "dequeueMaps"}
  BY DispatchPhase DEF Inv, TypeOK, Requests
<1> HIDE DEF T, S, s
<1> QED
  BY <1>1, <1>2, <1>5, <1>7, <1>8, <1>9, SessionAndGoto DEF S, s

\* dequeueMaps is entered with the lock, which nobody had.
LEMMA ReceiveMapsKeepsInv ==
  ASSUME Inv, NEW r \in BackChannels, ReceiveMaps(r)
  PROVE  Inv'
<1> DEFINE s == req[r].sid
           S == sessions[s]
<1>1. /\ req[r].phase = "receiveMaps" /\ S.ch.lock = "free"
      /\ UNCHANGED <<channels, gcChan, arrived>>
  BY DEF ReceiveMaps, Locking, At
<1>2. /\ s \in DOMAIN sessions /\ SessionOK(S)
      /\ S.ch \in ChannelRecord /\ Sound(S.ch)
  BY <1>1, SessionOfRequest
<1>3. CASE (Goto(r, "readState") \/ Goto(r, "idle")) /\ UNCHANGED sessions
  BY <1>1, <1>2, <1>3, OnlyGoto DEF Phases
<1>4. CASE /\ Goto(r, "dequeueMaps")
           /\ SetChannel(s, [S.ch EXCEPT !.lock = "dequeueMaps"])
  <2> DEFINE c == [S.ch EXCEPT !.lock = "dequeueMaps"]
             T == [S EXCEPT !.ch = c]
             q == [req[r] EXCEPT !.phase = "dequeueMaps"]
  <2>1. /\ c \in ChannelRecord /\ c.lock = "dequeueMaps" /\ c.state = S.ch.state
        /\ c.bcs = S.ch.bcs /\ c.outgoingArrays = S.ch.outgoingArrays
        /\ c.lastArrayId = S.ch.lastArrayId
        /\ c.lastSentArrayId = S.ch.lastSentArrayId
        /\ Timed(c) /\ MapChanMatches(c)
    BY <1>2 DEF ChannelRecord, Locks, Sound, Timed, MapChanMatches
  <2> HIDE DEF c
  <2>2. SameData(S.ch, c)
    BY <2>1 DEF SameData
  <2>3. ChannelOK(c)
    BY <1>2, <2>1, <2>2, ConsistentFrame DEF ChannelOK, Sound
  <2>4. S.ch.lastSentArrayId <= c.lastSentArrayId
    BY <1>2, <2>1 DEF ChannelRecord
  <2>5. SessionOK(T) /\ T.known = S.known /\ T.ch = c
    BY <1>2, <2>1, <2>2, <2>3, <2>4, SessionFromChannel
  <2>6. sessions' = [sessions EXCEPT ![s] = T]
    BY <1>4 DEF SetChannel, c
  <2> HIDE DEF T, S, s
  <2>7. Kept
    BY <1>2, <2>1, <2>5, <2>6, Updated DEF S
  <2>8. sessions'[s] = T /\ \A t \in DOMAIN sessions \ {s} : sessions'[t] = sessions[t]
    BY <1>2, <2>6 DEF Inv, TypeOK
  <2>9. req \in [BackChannels -> Requests] /\ req[r] \in Requests
    BY DEF Inv, TypeOK
  <2>10. q \in Requests /\ q.sid = s /\ q.phase = "dequeueMaps"
    BY <2>9 DEF Requests, Phases, s
  <2>11. req' = [req EXCEPT ![r] = q]
    BY <1>4, <2>9 DEF Goto
  <2> HIDE DEF q
  <2>12. req' \in [BackChannels -> Requests]
    BY <2>9, <2>10, <2>11
  <2>13. req'[r] = q /\ \A x \in BackChannels \ {r} : req'[x] = req[x]
    BY <2>9, <2>11
  <2>14. \A x \in BackChannels : req[x].phase = "dequeueMaps" => req[x].sid # s
    BY <1>1 DEF Inv, RequestOK, Channel, S
  <2>15. ASSUME NEW x \in BackChannels PROVE RequestOK(x)'
    <3>1. CASE x = r
      BY <1>2, <2>1, <2>5, <2>8, <2>10, <2>13, <2>14, <2>7, <3>1
      DEF RequestOK, Channel, Kept
    <3>2. CASE x # r
      <4>1. req'[x] = req[x] /\ RequestOK(x)
        BY <2>13, <3>2 DEF Inv
      <4>2. ASSUME req[x].phase = "dequeueMaps"
            PROVE  /\ sessions'[req[x].sid] = sessions[req[x].sid]
                   /\ req'[r].sid # req[x].sid
        BY <2>8, <2>10, <2>13, <2>14, <4>1, <4>2 DEF RequestOK
      <4>3. ASSUME req[x].phase = "dequeueMaps",
                   NEW y \in BackChannels, req'[y].phase = "dequeueMaps",
                   req'[y].sid = req[x].sid
            PROVE  y = x
        BY <2>13, <4>1, <4>2, <4>3 DEF RequestOK
      <4> QED
        BY <2>7, <4>1, <4>2, <4>3 DEF RequestOK, Kept, Channel
    <3> QED
      BY <3>1, <3>2
  <2>16. arrived' \in Nat
    BY <1>1 DEF Inv, TypeOK
  <2> QED
    BY <1>1, <2>7, <2>12, <2>15, <2>16, InvFromParts
<1> QED
  BY <1>3, <1>4 DEF ReceiveMaps, Channel

\* dequeueMaps returns, and receiveMaps releases the lock; no other request is
\* in dequeueMaps of the session.
LEMMA DequeueMapsKeepsInv ==
  ASSUME Inv, NEW r \in BackChannels, DequeueMaps(r)
  PROVE  Inv'
<1> DEFINE s == req[r].sid
           S == sessions[s]
           c == [S.ch EXCEPT !.lock = "free"]
           T == [S EXCEPT !.ch = c]
<1>1. /\ req[r].phase = "dequeueMaps"
      /\ sessions' = [sessions EXCEPT ![s].ch = c]
      /\ Goto(r, "readState")
      /\ UNCHANGED <<channels, gcChan, arrived>>
  BY DEF DequeueMaps, At, SetChannel, Channel
<1>2. /\ s \in DOMAIN sessions /\ SessionOK(S) /\ S.ch \in ChannelRecord
      /\ S.ch.lock = "dequeueMaps"
      /\ \A x \in BackChannels :
           req[x].phase = "dequeueMaps" /\ req[x].sid = s => x = r
  BY <1>1, SessionOfRequest DEF Inv, RequestOK, Channel
<1>3. /\ c \in ChannelRecord /\ c.lock = "free" /\ c.state = S.ch.state
      /\ c.bcs = S.ch.bcs /\ c.outgoingArrays = S.ch.outgoingArrays
      /\ c.lastArrayId = S.ch.lastArrayId
      /\ c.lastSentArrayId = S.ch.lastSentArrayId
      /\ Timed(c) /\ MapChanMatches(c)
  BY <1>2 DEF ChannelRecord, Locks, SessionOK, ChannelOK, Timed, MapChanMatches
<1> HIDE DEF c
<1>4. SameData(S.ch, c)
  BY <1>3 DEF SameData
<1>5. ChannelOK(c)
  BY <1>2, <1>3, <1>4, ConsistentFrame DEF ChannelOK, SessionOK
<1>6. S.ch.lastSentArrayId <= c.lastSentArrayId
  BY <1>2, <1>3 DEF ChannelRecord
<1>7. SessionOK(T) /\ T.known = S.known /\ T.ch = c
  BY <1>2, <1>3, <1>4, <1>5, <1>6, SessionFromChannel
<1>8. sessions' = [sessions EXCEPT ![s] = T]
  BY <1>1
<1> HIDE DEF T, S, s
<1>9. Kept
  BY <1>2, <1>3, <1>7, <1>8, Updated DEF S
<1>10. \A t \in DOMAIN sessions \ {s} : sessions'[t] = sessions[t]
  BY <1>2, <1>8 DEF Inv, TypeOK
<1>11. /\ req' \in [BackChannels -> Requests]
       /\ \A x \in BackChannels : Moves(x)
  BY <1>1, <1>2, GotoMoves DEF Phases, s
<1>12. req'[r].phase # "dequeueMaps"
  <2>1. req \in [BackChannels -> Requests] /\ req[r] \in Requests
    BY DEF Inv, TypeOK
  <2>2. [req[r] EXCEPT !.phase = "readState"].phase = "readState"
    BY <2>1 DEF Requests
  <2> QED
    BY <1>1, <2>1, <2>2 DEF Goto
<1>13. ASSUME NEW x \in BackChannels PROVE RequestOK(x)'
  <2>1. RequestOK(x) /\ Moves(x) /\ NoRequest.phase = "idle" /\ NoRequest.sid = NullSid
    BY <1>11 DEF Inv, NoRequest
  <2>2. ASSUME req'[x].phase \notin {"idle", "lookup"} \/ req'[x].sid # NullSid
        PROVE  req'[x].sid \in DOMAIN sessions'
    BY <1>9, <2>1, <2>2 DEF RequestOK, Moves, Kept
  <2>3. ASSUME req'[x].phase \in {"lookup", "acknowledge"}, req'[x].sid # NullSid
        PROVE  sessions'[req'[x].sid].known
    <3>1. req'[x] = req[x]
      BY <2>1, <2>3 DEF Moves
    <3> QED
      BY <1>9, <2>1, <2>3, <3>1 DEF RequestOK, Kept
  <2>4. ASSUME req'[x].phase = "dequeueMaps"
        PROVE  /\ sessions'[req'[x].sid].ch.lock = "dequeueMaps"
               /\ \A y \in BackChannels :
                    req'[y].phase = "dequeueMaps" /\ req'[y].sid = req'[x].sid => y = x
    <3>1. \A y \in BackChannels :
            req'[y].phase = "dequeueMaps" => req'[y] = req[y] /\ req[y].sid # s
      BY <1>2, <1>11, <1>12, <2>1 DEF Moves
    <3> QED
      BY <1>10, <2>1, <2>4, <3>1 DEF RequestOK, Channel
  <2> QED
    BY <2>2, <2>3, <2>4 DEF RequestOK, Channel
<1>14. arrived' \in Nat
  BY <1>1 DEF Inv, TypeOK
<1> QED
  BY <1>1, <1>9, <1>11, <1>13, <1>14, InvFromParts

\* The reads of the state of the channel.
LEMMA ReadStateKeepsInv ==
  ASSUME Inv, NEW r \in BackChannels, ReadState(r) \/ GetState(r)
  PROVE  Inv'
<1>1. /\ req[r].phase \in {"readState", "getState"}
      /\ UNCHANGED <<sessions, channels, gcChan, arrived>>
      /\ Goto(r, "setBackChannel") \/ Goto(r, "getState") \/ Goto(r, "idle")
  BY DEF ReadState, GetState, Locking, At
<1>2. req[r].sid \in DOMAIN sessions
  BY <1>1, SessionOfRequest
<1> QED
  BY <1>1, <1>2, OnlyGoto DEF Phases

\* A request that holds a lock gives it to the heartbeat goroutine and waits.
LEMMA TerminateKeepsInv ==
  ASSUME Inv, NEW r \in BackChannels, Terminate(r)
  PROVE  Inv'
<1> DEFINE s == req[r].sid
           S == sessions[s]
           c == TerminateInternal(S.ch)
           T == [S EXCEPT !.ch = c]
<1>1. /\ req[r].phase = "terminate" /\ S.ch.lock = "free"
      /\ sessions' = [sessions EXCEPT ![s].ch = c]
      /\ Goto(r, "inTerminate")
      /\ UNCHANGED <<channels, gcChan, arrived>>
  BY DEF Terminate, Locking, At, SetChannel, Channel
<1>2. /\ s \in DOMAIN sessions /\ SessionOK(S)
      /\ S.ch \in ChannelRecord /\ Sound(S.ch)
  BY <1>1, SessionOfRequest
<1>3. SessionOK(T) /\ T.known = S.known /\ T.ch.state = S.ch.state
  BY <1>1, <1>2, TerminateSession
<1>4. sessions' = [sessions EXCEPT ![s] = T]
  BY <1>1
<1> HIDE DEF T, S, s
<1> QED
  BY <1>1, <1>2, <1>3, <1>4, SessionAndGoto DEF S, s, Phases

\* Whoever has a back channel set gets 'c', or has got it.
LEMMA SetBackChannelKeepsInv ==
  ASSUME Inv, NEW r \in BackChannels, SetBackChannelCall(r)
  PROVE  Inv'
<1> DEFINE s == req[r].sid
           S == sessions[s]
           chunked == req[r].kind = "get"
           e == [S.ch EXCEPT !.bcs[r] = NewBackChannel(chunked)]
           c == SetBackChannel(e, r)
           h == IF S.ch.state = "init" THEN "select" ELSE S.heartbeat
           T == [S EXCEPT !.ch = c, !.heartbeat = h]
<1>1. /\ req[r].phase = "setBackChannel" /\ S.ch.lock = "free"
      /\ Goto(r, "wait")
      /\ UNCHANGED <<channels, gcChan, arrived>>
  BY DEF SetBackChannelCall, Locking, At
<1>2. /\ s \in DOMAIN sessions /\ SessionOK(S)
      /\ S.ch \in ChannelRecord /\ Sound(S.ch)
  BY <1>1, SessionOfRequest
<1>3. sessions' = [sessions EXCEPT ![s] = T]
  <2>1. sessions' = [sessions EXCEPT ![s].ch = c, ![s].heartbeat = h]
    BY DEF SetBackChannelCall, Channel
  <2> HIDE DEF c, h
  <2>2. s \in DOMAIN sessions /\ sessions \in Seq(Sessions)
    BY <1>2 DEF Inv, TypeOK
  <2> QED
    BY <2>1, <2>2
<1>4. /\ Sound(e) /\ e.lock = "free" /\ e.state = S.ch.state
      /\ e.bcs[r].dataChan = <<>>
      /\ e.lastSentArrayId = S.ch.lastSentArrayId
  <2>1. chunked \in BOOLEAN
    OBVIOUS
  <2> HIDE DEF chunked, S, s
  <2> QED
    BY <1>1, <1>2, <2>1, FreshConsistent DEF Sound
<1>5. \A b \in BackChannels : b # r => e.bcs[b] = S.ch.bcs[b]
  BY <1>2 DEF ChannelRecord
<1> HIDE DEF e
<1>6. /\ Consistent(c)
      /\ c.state = IF S.ch.state = "init" THEN "ready" ELSE S.ch.state
      /\ S.ch.lastSentArrayId <= c.lastSentArrayId
      /\ S.ch.state = "init" => 1 <= c.lastSentArrayId
      /\ \/ c.lock = "free" /\ Timed(c) /\ MapChanMatches(c)
         \/ c.lock = "heartbeatStop" /\ c.mapChanClosed
  BY <1>4, SetBackChannelProperties
<1>7. S.ch.state = "closed" => \A b \in BackChannels : c.bcs[b].dataChan = e.bcs[b].dataChan
  BY <1>4 DEF SetBackChannel, Discard, Sound, Consistent, ChannelRecord,
              BackChannelRecord
<1> HIDE DEF c
<1>8. ChannelOK(c) /\ c \in ChannelRecord
  BY <1>6 DEF ChannelOK, Consistent
<1>9. h \in {"none", "select", "exited"} /\ S \in Sessions
  BY <1>2 DEF SessionOK, Sessions
<1> HIDE DEF h
<1>10. T \in Sessions /\ T.ch = c /\ T.known = S.known
  BY <1>8, <1>9 DEF Sessions
<1> HIDE DEF T
<1>11. S.ch.lastSentArrayId \in Int /\ c.lastSentArrayId \in Int
  BY <1>2, <1>8 DEF ChannelRecord
<1>12. SentFirst(T)
  <2>1. CASE S.ch.state = "closed"
    <3>1. \A b \in BackChannels :
            c.bcs[b].dataChan # <<>> => S.ch.bcs[b].dataChan # <<>>
      BY <1>4, <1>5, <1>7, <2>1
    <3> QED
      BY <1>2, <1>6, <1>10, <1>11, <2>1, <3>1 DEF SentFirst, SessionOK
  <2>2. CASE S.ch.state \in {"ready", "writeClosed"}
    BY <1>2, <1>6, <1>10, <1>11, <2>2 DEF SentFirst, SessionOK
  <2>3. CASE S.ch.state = "init"
    BY <1>6, <1>10, <2>3 DEF SentFirst
  <2> QED
    BY <1>2, <2>1, <2>2, <2>3 DEF ChannelRecord, States
<1>13. SessionOK(T) /\ (S.ch.state = "closed" => T.ch.state = "closed")
  BY <1>6, <1>8, <1>10, <1>12 DEF SessionOK
<1> HIDE DEF S, s
<1> QED
  BY <1>1, <1>2, <1>3, <1>10, <1>13, SessionAndGoto DEF S, s, Phases

\* The client gets 'c', which was sent.
LEMMA WaitWritesKeepsInv ==
  ASSUME Inv, NEW r \in BackChannels, WaitWrites(r)
  PROVE  Inv'
<1> DEFINE s == req[r].sid
           S == sessions[s]
           c == [S.ch EXCEPT !.bcs[r] = TakeChunk(@)]
           T == [S EXCEPT !.ch = c, !.known = TRUE]
<1>1. /\ req[r].phase = "wait" /\ HasData(S.ch.bcs[r])
      /\ UNCHANGED <<channels, gcChan, req, arrived>>
  BY DEF WaitWrites, At, Channel
<1>2. /\ s \in DOMAIN sessions /\ SessionOK(S) /\ S.ch \in ChannelRecord
      /\ ChannelOK(S.ch) /\ Consistent(S.ch)
  BY <1>1, SessionOfRequest DEF SessionOK, ChannelOK
<1>3. sessions' = [sessions EXCEPT ![s] = T]
  <2>1. sessions' = [sessions EXCEPT ![s].ch.bcs[r] = TakeChunk(@), ![s].known = TRUE]
    BY DEF WaitWrites
  <2>2. s \in DOMAIN sessions /\ sessions \in Seq(Sessions) /\ S \in Sessions
    BY <1>2 DEF Inv, TypeOK, SessionOK
  <2> QED
    BY <2>1, <2>2
<1>4. /\ Consistent(c) /\ c.lock = S.ch.lock /\ c.state = S.ch.state
      /\ c.lastSentArrayId = S.ch.lastSentArrayId
      /\ c.mapChanClosed = S.ch.mapChanClosed
      /\ Timed(S.ch) => Timed(c)
      /\ MapChanMatches(S.ch) => MapChanMatches(c)
  BY <1>1, <1>2, TakeChunkConsistent
<1> HIDE DEF c
<1>5. ChannelOK(c) /\ c \in ChannelRecord
  BY <1>2, <1>4 DEF ChannelOK, Consistent
<1>6. 1 <= S.ch.lastSentArrayId
  BY <1>1, <1>2 DEF SessionOK, SentFirst, HasData
<1>7. T \in Sessions /\ T.ch = c /\ T.known
  BY <1>2, <1>5 DEF SessionOK, Sessions
<1> HIDE DEF T
<1>8. SessionOK(T)
  BY <1>4, <1>5, <1>6, <1>7 DEF SessionOK, SentFirst
<1> HIDE DEF S, s
<1> QED
  BY <1>1, <1>2, <1>3, <1>4, <1>7, <1>8, SessionAlone DEF S, s

\* The back channel of a request that returns is gone.
LEMMA WaitReturnsKeepsInv ==
  ASSUME Inv, NEW r \in BackChannels, WaitReturns(r)
  PROVE  Inv'
<1> DEFINE s == req[r].sid
           S == sessions[s]
           c == [S.ch EXCEPT !.bcs[r] = NewBackChannel(FALSE)]
           T == [S EXCEPT !.ch = c]
<1>1. /\ req[r].phase = "wait"
      /\ sessions' = [sessions EXCEPT ![s].ch = c]
      /\ Goto(r, "idle") /\ S.ch.bcs[r].dataChan = <<>>
      /\ UNCHANGED <<channels, gcChan, arrived>>
  BY DEF WaitReturns, At, SetChannel, Channel, WaitIsOver
<1>2. /\ s \in DOMAIN sessions /\ SessionOK(S) /\ S.ch \in ChannelRecord
      /\ ChannelOK(S.ch) /\ Consistent(S.ch)
  BY <1>1, SessionOfRequest DEF SessionOK, ChannelOK
<1>3. /\ Consistent(c) /\ c.lock = S.ch.lock /\ c.state = S.ch.state
      /\ c.lastSentArrayId = S.ch.lastSentArrayId
      /\ c.mapChanClosed = S.ch.mapChanClosed
      /\ c.bcs[r].dataChan = <<>>
      /\ Timed(S.ch) => Timed(c)
      /\ MapChanMatches(S.ch) => MapChanMatches(c)
  BY <1>2, FreshConsistent
<1>4. \A b \in BackChannels : b # r => c.bcs[b] = S.ch.bcs[b]
  BY <1>2 DEF ChannelRecord
<1> HIDE DEF c
<1>5. ChannelOK(c) /\ SameData(S.ch, c)
  BY <1>1, <1>2, <1>3, <1>4 DEF ChannelOK, SameData
<1>6. S.ch.lastSentArrayId <= c.lastSentArrayId
  BY <1>2, <1>3 DEF ChannelRecord
<1>7. SessionOK(T) /\ T.known = S.known /\ T.ch = c
  BY <1>2, <1>3, <1>5, <1>6, SessionFromChannel
<1>8. sessions' = [sessions EXCEPT ![s] = T]
  BY <1>1
<1>9. Kept
  BY <1>2, <1>3, <1>7, <1>8, Updated
<1>10. LocksKept
  BY <1>2, <1>3, <1>7, <1>8 DEF LocksKept, Inv, TypeOK
<1>11. req' \in [BackChannels -> Requests] /\ \A q \in BackChannels : Moves(q)
  BY <1>1, <1>2, GotoMoves DEF Phases
<1>12. arrived' \in Nat
  BY <1>1 DEF Inv, TypeOK
<1> QED
  BY <1>1, <1>9, <1>10, <1>11, <1>12, RequestsKept, InvFromParts

-----------------------------------------------------------------------------
(***************************************************************************)
(* The rest of a session, and the collector.                               *)
(***************************************************************************)

\* A timer that fires is still set.
LEMMA TimerFiresKeepsInv ==
  ASSUME Inv, NEW s \in DOMAIN sessions, TimerFires(s)
  PROVE  Inv'
<1> DEFINE S == sessions[s]
           c == [S.ch EXCEPT !.channelTimeout = "fired"]
           d == [S.ch EXCEPT !.backChannelExpiration = "fired"]
<1>1. SessionOK(S) /\ S \in Sessions /\ S.ch \in ChannelRecord /\ ChannelOK(S.ch)
  BY DEF Inv, SessionOK, ChannelOK, Consistent
<1>2. UNCHANGED <<channels, gcChan, req, arrived>>
  BY DEF TimerFires
<1>3. ASSUME NEW x \in ChannelRecord, x = c \/ x = d,
             S.ch.channelTimeout # "nil" \/ x # c,
             S.ch.backChannelExpiration # "nil" \/ x # d
      PROVE  /\ ChannelOK(x) /\ SameData(S.ch, x) /\ x.state = S.ch.state
             /\ x.lock = S.ch.lock
             /\ S.ch.lastSentArrayId <= x.lastSentArrayId
  <2>1. /\ x.state = S.ch.state /\ x.lock = S.ch.lock /\ x.bcs = S.ch.bcs
        /\ x.mapChanClosed = S.ch.mapChanClosed
        /\ x.outgoingArrays = S.ch.outgoingArrays
        /\ x.lastArrayId = S.ch.lastArrayId
        /\ x.lastSentArrayId = S.ch.lastSentArrayId
        /\ Timed(S.ch) => Timed(x)
        /\ MapChanMatches(S.ch) => MapChanMatches(x)
    BY <1>1, <1>3 DEF ChannelRecord, Timed, MapChanMatches
  <2>2. SameData(S.ch, x)
    BY <2>1 DEF SameData
  <2>3. Consistent(x)
    BY <1>1, <2>1, <2>2, ConsistentFrame DEF ChannelOK
  <2> QED
    BY <1>1, <2>1, <2>2, <2>3 DEF ChannelOK, ChannelRecord
<1>4. c \in ChannelRecord /\ d \in ChannelRecord
  BY <1>1 DEF ChannelRecord, Timers
<1>5. CASE /\ S.ch.channelTimeout = "armed"
           /\ sessions' = [sessions EXCEPT ![s].ch.channelTimeout = "fired",
                                           ![s].timeoutRuns = 1]
  <2>1. /\ ChannelOK(c) /\ SameData(S.ch, c) /\ c.state = S.ch.state
        /\ c.lock = S.ch.lock /\ S.ch.lastSentArrayId <= c.lastSentArrayId
    <3>1. c.channelTimeout # d.channelTimeout
      BY <1>1, <1>5 DEF ChannelRecord
    <3> QED
      BY <1>3, <1>4, <1>5, <3>1
  <2> DEFINE U == [S EXCEPT !.ch = c]
             T == [U EXCEPT !.timeoutRuns = 1]
  <2> HIDE DEF c
  <2>2. SessionOK(U) /\ U.known = S.known /\ U.ch = c
    BY <1>1, <2>1, SessionFromChannel
  <2> HIDE DEF U
  <2>3. T \in Sessions /\ T.ch = U.ch /\ T.known = U.known
    BY <2>2 DEF SessionOK, Sessions
  <2>4. sessions' = [sessions EXCEPT ![s] = T]
    BY <1>5 DEF U, c
  <2> HIDE DEF T
  <2>5. SessionOK(T)
    BY <2>2, <2>3 DEF SessionOK, SentFirst
  <2> HIDE DEF S
  <2> QED
    BY <1>2, <2>1, <2>2, <2>3, <2>4, <2>5, SessionAlone DEF S
<1>6. CASE /\ S.ch.backChannelExpiration = "armed"
           /\ sessions' = [sessions EXCEPT ![s].ch.backChannelExpiration = "fired",
                                           ![s].expirationRuns = 1]
  <2>1. /\ ChannelOK(d) /\ SameData(S.ch, d) /\ d.state = S.ch.state
        /\ d.lock = S.ch.lock /\ S.ch.lastSentArrayId <= d.lastSentArrayId
    <3>1. c.backChannelExpiration # d.backChannelExpiration
      BY <1>1, <1>6 DEF ChannelRecord
    <3> QED
      BY <1>3, <1>4, <1>6, <3>1
  <2> DEFINE U == [S EXCEPT !.ch = d]
             T == [U EXCEPT !.expirationRuns = 1]
  <2> HIDE DEF d
  <2>2. SessionOK(U) /\ U.known = S.known /\ U.ch = d
    BY <1>1, <2>1, SessionFromChannel
  <2> HIDE DEF U
  <2>3. T \in Sessions /\ T.ch = U.ch /\ T.known = U.known
    BY <2>2 DEF SessionOK, Sessions
  <2>4. sessions' = [sessions EXCEPT ![s] = T]
    BY <1>6 DEF U, d
  <2> HIDE DEF T
  <2>5. SessionOK(T)
    BY <2>2, <2>3 DEF SessionOK, SentFirst
  <2> HIDE DEF S
  <2> QED
    BY <1>2, <2>1, <2>2, <2>3, <2>4, <2>5, SessionAlone DEF S
<1> QED
  BY <1>5, <1>6 DEF TimerFires

\* The timeout of the channel terminates it.
LEMMA ChannelTimeoutKeepsInv ==
  ASSUME Inv, NEW s \in DOMAIN sessions, ChannelTimeoutRuns(s)
  PROVE  Inv'
<1> DEFINE S == sessions[s]
           U == [S EXCEPT !.ch = TerminateInternal(S.ch)]
           T == [U EXCEPT !.timeoutRuns = 0]
<1>1. SessionOK(S) /\ S.ch.lock = "free"
  BY DEF Inv, ChannelTimeoutRuns, Free
<1>2. SessionOK(U) /\ U.known = S.known /\ U.ch.state = S.ch.state
  BY <1>1, TerminateSession
<1> HIDE DEF U
<1>3. T \in Sessions /\ T.ch = U.ch /\ T.known = U.known
  BY <1>2 DEF SessionOK, Sessions
<1>4. sessions' = [sessions EXCEPT ![s] = T]
  BY DEF ChannelTimeoutRuns, U
<1> HIDE DEF T
<1>5. SessionOK(T)
  BY <1>2, <1>3 DEF SessionOK, SentFirst
<1>6. UNCHANGED <<channels, gcChan, req, arrived>>
  BY DEF ChannelTimeoutRuns
<1> HIDE DEF S
<1> QED
  BY <1>1, <1>2, <1>3, <1>4, <1>5, <1>6, SessionAlone DEF S

\* The expiration of a back channel arms the timeout of the channel.
LEMMA ExpirationKeepsInv ==
  ASSUME Inv, NEW s \in DOMAIN sessions, ExpirationRuns(s)
  PROVE  Inv'
<1> DEFINE S == sessions[s]
           c == ClearBackChannel(S.ch, FALSE)
           U == [S EXCEPT !.ch = c]
           T == [U EXCEPT !.expirationRuns = 0]
<1>1. /\ SessionOK(S) /\ S.ch.lock = "free" /\ Sound(S.ch)
      /\ S.ch.lastSentArrayId \in Int
  BY DEF Inv, ExpirationRuns, Free, SessionOK, ChannelOK, Sound, Consistent,
         ChannelRecord
<1>2. /\ Sound(c) /\ c.lock = "free" /\ c.state = S.ch.state
      /\ S.ch.lastSentArrayId <= c.lastSentArrayId
      /\ SameData(S.ch, c)
  <2> HIDE DEF S
  <2>1. /\ Sound(c) /\ c.lock = "free" /\ c.state = S.ch.state
        /\ c.lastSentArrayId = S.ch.lastSentArrayId
        /\ SameData(S.ch, c)
    BY <1>1, ClearBackChannelSound
  <2> HIDE DEF c
  <2> QED
    BY <1>1, <2>1
<1> HIDE DEF c
<1>3. ChannelOK(c)
  BY <1>2 DEF ChannelOK, Sound
<1>4. SessionOK(U) /\ U.known = S.known /\ U.ch = c
  BY <1>1, <1>2, <1>3, SessionFromChannel
<1> HIDE DEF U
<1>5. T \in Sessions /\ T.ch = U.ch /\ T.known = U.known
  BY <1>4 DEF SessionOK, Sessions
<1>6. sessions' = [sessions EXCEPT ![s] = T]
  BY DEF ExpirationRuns, U, c
<1> HIDE DEF T
<1>7. SessionOK(T)
  BY <1>4, <1>5 DEF SessionOK, SentFirst
<1>8. UNCHANGED <<channels, gcChan, req, arrived>>
  BY DEF ExpirationRuns
<1> HIDE DEF S
<1> QED
  BY <1>1, <1>2, <1>4, <1>5, <1>6, <1>7, <1>8, SessionAlone DEF S

\* terminateInternal closes the channel before it sends its id to the collector.
LEMMA StopHeartbeatKeepsInv ==
  ASSUME Inv, NEW s \in DOMAIN sessions, StopHeartbeat(s)
  PROVE  Inv'
<1> DEFINE S == sessions[s]
           c == [S.ch EXCEPT !.state = "closed", !.lock = "gcChan"]
           T == [S EXCEPT !.ch = c, !.heartbeatStop = 1]
<1>1. /\ SessionOK(S) /\ S \in Sessions /\ S.ch \in ChannelRecord /\ ChannelOK(S.ch)
      /\ S.ch.lock = "heartbeatStop"
  BY DEF Inv, StopHeartbeat, SessionOK, ChannelOK, Consistent
<1>2. /\ c \in ChannelRecord /\ c.state = "closed" /\ c.lock = "gcChan"
      /\ c.bcs = S.ch.bcs /\ c.outgoingArrays = S.ch.outgoingArrays
      /\ c.lastArrayId = S.ch.lastArrayId
      /\ c.lastSentArrayId = S.ch.lastSentArrayId
      /\ c.mapChanClosed
  BY <1>1 DEF ChannelRecord, States, Locks, ChannelOK
<1> HIDE DEF c
<1>3. SameData(S.ch, c)
  BY <1>2 DEF SameData
<1>4. ChannelOK(c)
  BY <1>1, <1>2, <1>3, ConsistentFrame DEF ChannelOK
<1>5. T \in Sessions /\ T.ch = c /\ T.known = S.known
  <2> DEFINE U == [S EXCEPT !.ch = c]
  <2>1. U \in Sessions /\ U.ch = c /\ U.known = S.known
    BY <1>1, <1>2 DEF Sessions
  <2>2. T = [U EXCEPT !.heartbeatStop = 1]
    OBVIOUS
  <2> HIDE DEF U, T
  <2> QED
    BY <2>1, <2>2 DEF Sessions
<1>6. sessions' = [sessions EXCEPT ![s] = T]
  <2>1. sessions' = [sessions EXCEPT ![s].heartbeatStop = 1,
                                     ![s].ch.state = "closed",
                                     ![s].ch.lock = "gcChan"]
    BY DEF StopHeartbeat
  <2>2. sessions \in Seq(Sessions)
    BY DEF Inv, TypeOK
  <2>3. T = [S EXCEPT !.heartbeatStop = 1, !.ch.state = "closed", !.ch.lock = "gcChan"]
    BY <1>1 DEF Sessions, c
  <2> QED
    BY <2>1, <2>2, <2>3
<1> HIDE DEF T
<1>7. SessionOK(T)
  BY <1>1, <1>2, <1>3, <1>4, <1>5 DEF SessionOK, SentFirst, SameData
<1>8. UNCHANGED <<channels, gcChan, req, arrived>>
  BY DEF StopHeartbeat
<1> HIDE DEF S
<1> QED
  BY <1>1, <1>2, <1>5, <1>6, <1>7, <1>8, SessionAlone DEF S

\* The heartbeat goroutine does not touch the channel when it ends.
LEMMA HeartbeatStopsKeepsInv ==
  ASSUME Inv, NEW s \in DOMAIN sessions, HeartbeatStops(s)
  PROVE  Inv'
<1> DEFINE S == sessions[s]
           T == [S EXCEPT !.heartbeat = "exited", !.heartbeatStop = 0]
<1>1. SessionOK(S) /\ S \in Sessions
  BY DEF Inv, SessionOK
<1>2. T \in Sessions /\ T.ch = S.ch /\ T.known = S.known
  <2> DEFINE U == [S EXCEPT !.heartbeat = "exited"]
  <2>1. U \in Sessions /\ U.ch = S.ch /\ U.known = S.known
    BY <1>1 DEF Sessions
  <2>2. T = [U EXCEPT !.heartbeatStop = 0]
    OBVIOUS
  <2> HIDE DEF U, T
  <2> QED
    BY <2>1, <2>2 DEF Sessions
<1>3. sessions' = [sessions EXCEPT ![s] = T]
  <2>1. sessions' = [sessions EXCEPT ![s].heartbeat = "exited", ![s].heartbeatStop = 0]
    BY DEF HeartbeatStops
  <2>2. sessions \in Seq(Sessions)
    BY DEF Inv, TypeOK
  <2> QED
    BY <2>1, <2>2
<1> HIDE DEF T
<1>4. SessionOK(T)
  BY <1>1, <1>2 DEF SessionOK, SentFirst
<1>5. UNCHANGED <<channels, gcChan, req, arrived>>
  BY DEF HeartbeatStops
<1> HIDE DEF S
<1> QED
  BY <1>1, <1>2, <1>3, <1>4, <1>5, SessionAlone DEF S

\* Whoever was in terminate returns; the session it sends to the collector is
\* closed.
LEMMA SendToGcKeepsInv ==
  ASSUME Inv, NEW s \in DOMAIN sessions, SendToGc(s)
  PROVE  Inv'
<1> DEFINE S == sessions[s]
           c == [S.ch EXCEPT !.lock = "free"]
           T == [S EXCEPT !.ch = c]
<1>1. /\ SessionOK(S) /\ S \in Sessions /\ S.ch \in ChannelRecord /\ ChannelOK(S.ch)
      /\ S.ch.lock = "gcChan" /\ S.ch.state = "closed" /\ S.ch.mapChanClosed
  BY DEF Inv, SendToGc, SessionOK, ChannelOK, Consistent
<1>2. /\ c \in ChannelRecord /\ c.state = "closed" /\ c.lock = "free"
      /\ c.bcs = S.ch.bcs /\ c.outgoingArrays = S.ch.outgoingArrays
      /\ c.lastArrayId = S.ch.lastArrayId
      /\ c.lastSentArrayId = S.ch.lastSentArrayId
      /\ c.mapChanClosed
  BY <1>1 DEF ChannelRecord, Locks
<1> HIDE DEF c
<1>3. SameData(S.ch, c)
  BY <1>2 DEF SameData
<1>4. ChannelOK(c) /\ S.ch.lastSentArrayId <= c.lastSentArrayId
  <2>1. Timed(c) /\ MapChanMatches(c)
    BY <1>2 DEF Timed, MapChanMatches
  <2>2. Consistent(c)
    BY <1>1, <1>2, <1>3, ConsistentFrame DEF ChannelOK
  <2>3. S.ch.lastSentArrayId <= c.lastSentArrayId
    BY <1>1, <1>2 DEF ChannelRecord
  <2> QED
    BY <1>2, <2>1, <2>2, <2>3 DEF ChannelOK
<1>5. SessionOK(T) /\ T.known = S.known /\ T.ch = c
  BY <1>1, <1>2, <1>3, <1>4, SessionFromChannel
<1>6. /\ sessions' = [sessions EXCEPT ![s] = T]
      /\ Len(gcChan) < GcChanCapacity /\ gcChan' = Append(gcChan, s)
      /\ channels' = channels /\ arrived' = arrived
      /\ req' = [r \in BackChannels |->
                   IF req[r].phase = "inTerminate" /\ req[r].sid = s
                     THEN NoRequest ELSE req[r]]
  BY DEF SendToGc, SetChannel, c
<1> HIDE DEF T
<1>7. Kept
  BY <1>1, <1>2, <1>5, <1>6, Updated
<1>8. LocksKept
  BY <1>1, <1>6 DEF LocksKept, Inv, TypeOK
<1>9. /\ req' \in [BackChannels -> Requests]
      /\ \A q \in BackChannels : Moves(q)
  <2>1. NoRequest \in Requests /\ req \in [BackChannels -> Requests]
    BY DEF NoRequest, Requests, Phases, Kinds, NullSid, Inv, TypeOK
  <2> QED
    BY <1>6, <2>1 DEF Moves
<1>10. \A q \in BackChannels : RequestOK(q)'
  BY <1>7, <1>8, <1>9, RequestsKept
<1>11. sessions'[s].ch.state = "closed"
  BY <1>1, <1>7 DEF Kept
<1>12. /\ gcChan \in Seq(DOMAIN sessions) /\ Len(gcChan) \in Nat
       /\ DOMAIN gcChan = 1..Len(gcChan)
       /\ DOMAIN sessions' = DOMAIN sessions
  BY <1>7 DEF Inv, TypeOK, Kept
<1> HIDE DEF S
<1>13. /\ gcChan' \in Seq(DOMAIN sessions)
       /\ Len(gcChan') <= GcChanCapacity
       /\ \A i \in DOMAIN gcChan' : gcChan'[i] = s \/ \E j \in DOMAIN gcChan : gcChan[j] = gcChan'[i]
  <2>1. gcChan' \in Seq(DOMAIN sessions) /\ Len(gcChan') = Len(gcChan) + 1
    BY <1>6, <1>12
  <2>2. \A i \in 1..Len(gcChan) : gcChan'[i] = gcChan[i]
    BY <1>6, <1>12
  <2>3. gcChan'[Len(gcChan) + 1] = s
    BY <1>6, <1>12
  <2>4. GcChanCapacity \in Nat
    BY HandlerAssumption
  <2>5. DOMAIN gcChan' = 1..(Len(gcChan) + 1)
    BY <2>1
  <2>6. Len(gcChan') <= GcChanCapacity
    BY <1>6, <1>12, <2>1, <2>4
  <2>7. ASSUME NEW i \in DOMAIN gcChan'
        PROVE  gcChan'[i] = s \/ \E j \in DOMAIN gcChan : gcChan[j] = gcChan'[i]
    <3>1. CASE i = Len(gcChan) + 1
      BY <2>3, <3>1
    <3>2. CASE i # Len(gcChan) + 1
      <4>1. i \in DOMAIN gcChan
        BY <1>12, <2>5, <3>2
      <4> QED
        BY <1>12, <2>2, <4>1
    <3> QED
      BY <3>1, <3>2
  <2> QED
    BY <2>1, <2>6, <2>7
<1>14. UnknownIsClosed'
  <2> SUFFICES ASSUME NEW t \in DOMAIN sessions,
                      t \notin channels \/ \E i \in DOMAIN gcChan' : gcChan'[i] = t
               PROVE  sessions'[t].ch.state = "closed"
    BY <1>6, <1>12 DEF UnknownIsClosed
  <2>1. t = s \/ t \notin channels \/ \E j \in DOMAIN gcChan : gcChan[j] = t
    BY <1>13
  <2>2. CASE t = s
    BY <1>11, <2>2
  <2>3. CASE t \notin channels \/ \E j \in DOMAIN gcChan : gcChan[j] = t
    BY <1>7, <2>3 DEF Inv, UnknownIsClosed, Kept
  <2> QED
    BY <2>1, <2>2, <2>3
<1>15. TypeOK'
  BY <1>6, <1>7, <1>9, <1>12, <1>13 DEF Inv, TypeOK, Kept
<1> QED
  BY <1>7, <1>10, <1>12, <1>14, <1>15 DEF Inv, Kept

\* What the collector takes out of the map is closed, and stays so.
LEMMA RemoveKeepsInv == ASSUME Inv, RemoveClosedSession PROVE Inv'
<1>1. /\ gcChan \in Seq(DOMAIN sessions) /\ gcChan # <<>>
      /\ channels' = channels \ {Head(gcChan)} /\ gcChan' = Tail(gcChan)
      /\ UNCHANGED <<sessions, req, arrived>>
  BY DEF Inv, TypeOK, RemoveClosedSession
<1>2. /\ Len(gcChan) \in Nat \ {0}
      /\ Head(gcChan) = gcChan[1] /\ 1 \in DOMAIN gcChan
      /\ gcChan' \in Seq(DOMAIN sessions)
      /\ Len(gcChan') = Len(gcChan) - 1
  BY <1>1
<1>3. \A i \in DOMAIN gcChan' : i + 1 \in DOMAIN gcChan /\ gcChan'[i] = gcChan[i + 1]
  BY <1>1, <1>2
<1>4. Len(gcChan') <= GcChanCapacity
  BY <1>2, HandlerAssumption DEF Inv, TypeOK
<1>5. TypeOK'
  BY <1>1, <1>2, <1>4 DEF Inv, TypeOK
<1>6. UnknownIsClosed'
  <2> SUFFICES ASSUME NEW t \in DOMAIN sessions,
                      t \notin channels' \/ \E i \in DOMAIN gcChan' : gcChan'[i] = t
               PROVE  sessions[t].ch.state = "closed"
    BY <1>1 DEF UnknownIsClosed
  <2>1. t \notin channels \/ \E j \in DOMAIN gcChan : gcChan[j] = t
    BY <1>1, <1>2, <1>3
  <2> QED
    BY <2>1 DEF Inv, UnknownIsClosed
<1>7. \A r \in BackChannels : RequestOK(r)'
  BY <1>1 DEF Inv, RequestOK, Channel
<1> QED
  BY <1>1, <1>5, <1>6, <1>7 DEF Inv

-----------------------------------------------------------------------------
(***************************************************************************)
(* The theorems.                                                           *)
(***************************************************************************)

\* No session, no request.
LEMMA InitEstablishesInv == Init => Inv
<1> SUFFICES ASSUME Init PROVE Inv
  OBVIOUS
<1>1. NoRequest \in Requests /\ NoRequest.phase = "idle" /\ NoRequest.sid = NullSid
  BY DEF NoRequest, Requests, Phases, Kinds, NullSid
<1>2. sessions = <<>> /\ DOMAIN sessions = {} /\ channels = {} /\ gcChan = <<>>
  BY DEF Init
<1>3. \A r \in BackChannels : req[r] = NoRequest
  BY DEF Init
<1>4. TypeOK
  <2>1. <<>> \in Seq(Sessions) /\ <<>> \in Seq(DOMAIN sessions) /\ Len(<<>>) = 0
    OBVIOUS
  <2>2. 0 <= GcChanCapacity
    BY HandlerAssumption
  <2> QED
    BY <1>1, <1>2, <2>1, <2>2 DEF Init, TypeOK
<1>5. \A r \in BackChannels : RequestOK(r)
  BY <1>1, <1>3 DEF RequestOK
<1> QED
  BY <1>2, <1>4, <1>5 DEF Inv, UnknownIsClosed

\* Every step keeps the invariant.
LEMMA StepKeepsInv == Inv /\ [Next]_vars => Inv'
<1> SUFFICES ASSUME Inv, [Next]_vars PROVE Inv'
  OBVIOUS
<1>1. CASE Arrive
  BY <1>1, ArriveKeepsInv
<1>2. ASSUME NEW r \in BackChannels, RequestStep(r) PROVE Inv'
  <2>1. CASE Create(r)
    BY <2>1, CreateKeepsInv
  <2>2. CASE Lookup(r)
    BY <2>2, LookupKeepsInv
  <2>3. CASE Acknowledge(r)
    BY <2>3, AcknowledgeKeepsInv
  <2>4. CASE ReceiveMaps(r)
    BY <2>4, ReceiveMapsKeepsInv
  <2>5. CASE DequeueMaps(r)
    BY <2>5, DequeueMapsKeepsInv
  <2>6. CASE ReadState(r) \/ GetState(r)
    BY <2>6, ReadStateKeepsInv
  <2>7. CASE SetBackChannelCall(r)
    BY <2>7, SetBackChannelKeepsInv
  <2>8. CASE WaitWrites(r)
    BY <2>8, WaitWritesKeepsInv
  <2>9. CASE WaitReturns(r)
    BY <2>9, WaitReturnsKeepsInv
  <2>10. CASE Terminate(r)
    BY <2>10, TerminateKeepsInv
  <2> QED
    BY <1>2, <2>1, <2>2, <2>3, <2>4, <2>5, <2>6, <2>7, <2>8, <2>9, <2>10
    DEF RequestStep
<1>3. ASSUME NEW s \in DOMAIN sessions, SessionStep(s) PROVE Inv'
  <2>1. CASE TimerFires(s)
    BY <2>1, TimerFiresKeepsInv
  <2>2. CASE ChannelTimeoutRuns(s)
    BY <2>2, ChannelTimeoutKeepsInv
  <2>3. CASE ExpirationRuns(s)
    BY <2>3, ExpirationKeepsInv
  <2>4. CASE StopHeartbeat(s)
    BY <2>4, StopHeartbeatKeepsInv
  <2>5. CASE HeartbeatStops(s)
    BY <2>5, HeartbeatStopsKeepsInv
  <2>6. CASE SendToGc(s)
    BY <2>6, SendToGcKeepsInv
  <2> QED
    BY <1>3, <2>1, <2>2, <2>3, <2>4, <2>5, <2>6 DEF SessionStep
<1>4. CASE RemoveClosedSession
  BY <1>4, RemoveKeepsInv
<1>5. CASE UNCHANGED vars
  BY <1>5 DEF vars, Inv, TypeOK, RequestOK, Channel, UnknownIsClosed
<1> QED
  BY <1>1, <1>2, <1>3, <1>4, <1>5 DEF Next

\* The invariant holds of every run, with any number of sessions and requests:
\* in particular no lock is left to a goroutine that panicked.
THEOREM HandlerInvariance == Spec => []Inv
<1> QED
  BY InitEstablishesInv, StepKeepsInv, PTL DEF Spec

\* The variables of the handler keep their types; gcChan stays within its
\* capacity and holds ids of sessions that exist.
THEOREM HandlerTypeCorrect == Spec => []TypeOK
<1>1. Inv => TypeOK
  BY DEF Inv
<1> QED
  BY <1>1, HandlerInvariance, PTL

\* A request is answered 'Unknown SID' only for a session whose channel is
\* closed (removeClosedSession, handler.go; terminateInternal, channel.go).
THEOREM UnknownSessionsAreClosed == Spec => []UnknownIsClosed
<1>1. Inv => UnknownIsClosed
  BY DEF Inv
<1> QED
  BY <1>1, HandlerInvariance, PTL

-----------------------------------------------------------------------------
(***************************************************************************)
(* A session of the handler is a session (see Session), and neither it nor *)
(* a request in wait is forgotten.  Alive is what that takes of a session  *)
(* S with the requests W in wait: a timer that has fired is one whose      *)
(* function waits for the lock, as long as the session is not terminated.  *)
(***************************************************************************)
Waiters(s) == {r \in BackChannels : req[r].phase = "wait" /\ req[r].sid = s}

Registered(s) == s \in channels

FiredRuns(S) ==
  /\ S.ch.channelTimeout = "fired" => S.timeoutRuns = 1
  /\ S.ch.backChannelExpiration = "fired" => S.expirationRuns = 1

Alive(S, W) ==
  /\ Live(S.ch)
  /\ Flow(S.ch, W)
  /\ S.ch.lock = "dequeueMaps" => S.ch.state = "ready"
  /\ S.ch.lock \in {"free", "dequeueMaps"} /\ S.ch.state # "closed" => FiredRuns(S)

LiveInv == Inv /\ \A s \in DOMAIN sessions : Alive(sessions[s], Waiters(s))

ViewOf(s) ==
  IF s \in DOMAIN sessions
    THEN View(sessions[s].ch, Registered(s))
    ELSE [status |-> "init", streaming |-> FALSE, sent |-> 0]

LiveOK ==
  /\ \A s \in DOMAIN sessions' : Alive(sessions'[s], Waiters(s)')
  /\ \A s : ViewStep(ViewOf(s), ViewOf(s)')

\* A view that does not change.
LEMMA SameView == ASSUME NEW v PROVE ViewStep(v, v)
BY DEF ViewStep

\* No session changes.
LEMMA NoneLives ==
  ASSUME LiveInv, UNCHANGED <<sessions, channels>>,
         \A t \in DOMAIN sessions : Waiters(t)' = Waiters(t)
  PROVE  LiveOK
<1>1. \A s : ViewOf(s)' = ViewOf(s)
  BY DEF ViewOf, Registered
<1>2. \A s : ViewStep(ViewOf(s), ViewOf(s)')
  BY <1>1, SameView
<1> QED
  BY <1>2 DEF LiveInv, LiveOK

\* One session changes.
LEMMA OneLives ==
  ASSUME LiveInv, NEW s \in DOMAIN sessions, NEW T,
         sessions' = [sessions EXCEPT ![s] = T], UNCHANGED channels,
         \A t \in DOMAIN sessions \ {s} : Waiters(t)' = Waiters(t),
         Alive(T, Waiters(s)'),
         ViewStep(View(sessions[s].ch, Registered(s)), View(T.ch, Registered(s)))
  PROVE  LiveOK
<1>1. sessions \in Seq(Sessions)
  BY DEF LiveInv, Inv, TypeOK
<1>2. /\ DOMAIN sessions' = DOMAIN sessions
      /\ \A t \in DOMAIN sessions : sessions'[t] = IF t = s THEN T ELSE sessions[t]
  BY <1>1
<1>3. ASSUME NEW t PROVE ViewStep(ViewOf(t), ViewOf(t)')
  <2>1. CASE t = s
    BY <1>2, <2>1 DEF ViewOf, Registered
  <2>2. CASE t # s
    <3>1. ViewOf(t)' = ViewOf(t)
      BY <1>2, <2>2 DEF ViewOf, Registered
    <3> QED
      BY <3>1, SameView
  <2> QED
    BY <2>1, <2>2
<1>4. ASSUME NEW t \in DOMAIN sessions' PROVE Alive(sessions'[t], Waiters(t)')
  BY <1>2 DEF LiveInv
<1> QED
  BY <1>3, <1>4 DEF LiveOK

\* Who waits after Goto.
LEMMA GotoWaiters ==
  ASSUME Inv, NEW r \in BackChannels, NEW p \in Phases, Goto(r, p),
         NEW s, s = req[r].sid
  PROVE  /\ \A t : t # s => Waiters(t)' = Waiters(t)
         /\ Waiters(s)' = IF p = "wait" THEN Waiters(s) \union {r}
                                       ELSE Waiters(s) \ {r}
<1>1. req \in [BackChannels -> Requests] /\ req[r] \in Requests
  BY DEF Inv, TypeOK
<1> DEFINE q == [req[r] EXCEPT !.phase = p]
<1>2. q.phase = p /\ q.sid = s
  BY <1>1 DEF Requests
<1>3. NoRequest.phase = "idle"
  BY DEF NoRequest
<1>4. /\ req'[r] = IF p = "idle" THEN NoRequest ELSE q
      /\ \A x \in BackChannels \ {r} : req'[x] = req[x]
  BY <1>1 DEF Goto
<1> HIDE DEF q
<1>5. req'[r].phase = p /\ (p # "idle" => req'[r].sid = s)
  BY <1>2, <1>3, <1>4
<1>6. \A t : t # s => Waiters(t)' = Waiters(t)
  BY <1>4, <1>5 DEF Waiters
<1>7. Waiters(s)' = IF p = "wait" THEN Waiters(s) \union {r} ELSE Waiters(s) \ {r}
  BY <1>4, <1>5 DEF Waiters
<1> QED
  BY <1>6, <1>7
\* A request whose step is to move on.
LEMMA GotoLives ==
  ASSUME LiveInv, NEW r \in BackChannels, req[r].phase # "wait",
         NEW p \in Phases \ {"wait"}, Goto(r, p), UNCHANGED <<sessions, channels>>
  PROVE  LiveOK
<1>0. PICK s : s = req[r].sid
  OBVIOUS
<1>1. /\ \A t : t # s => Waiters(t)' = Waiters(t)
      /\ Waiters(s)' = Waiters(s) \ {r}
  BY <1>0, GotoWaiters DEF LiveInv
<1>2. r \notin Waiters(s)
  BY DEF Waiters
<1>3. \A t : Waiters(t)' = Waiters(t)
  BY <1>1, <1>2
<1> QED
  BY <1>3, NoneLives

\* A request whose step changes its session, and moves on.
LEMMA SessionAndGotoLives ==
  ASSUME LiveInv, NEW r \in BackChannels, req[r].phase # "wait",
         NEW p \in Phases, Goto(r, p), UNCHANGED channels,
         NEW s \in DOMAIN sessions, s = req[r].sid,
         NEW T, sessions' = [sessions EXCEPT ![s] = T],
         NEW W, W = IF p = "wait" THEN Waiters(s) \union {r} ELSE Waiters(s),
         Alive(T, W),
         ViewStep(View(sessions[s].ch, Registered(s)), View(T.ch, Registered(s)))
  PROVE  LiveOK
<1>1. /\ \A t : t # s => Waiters(t)' = Waiters(t)
      /\ Waiters(s)' = IF p = "wait" THEN Waiters(s) \union {r}
                                    ELSE Waiters(s) \ {r}
  BY GotoWaiters DEF LiveInv
<1>2. r \notin Waiters(s)
  BY DEF Waiters
<1>3. Waiters(s)' = W
  BY <1>1, <1>2
<1> QED
  BY <1>1, <1>3, OneLives

\* What a session offers to a step that takes the lock of its channel.
LEMMA FreeSession ==
  ASSUME LiveInv, NEW s \in DOMAIN sessions, sessions[s].ch.lock = "free"
  PROVE  /\ sessions[s].ch \in ChannelRecord
         /\ Sound(sessions[s].ch)
         /\ Live(sessions[s].ch)
         /\ Flow(sessions[s].ch, Waiters(s))
         /\ sessions[s].ch.state \in {"init", "ready"} => ~sessions[s].ch.mapChanClosed
         /\ Registered(s) \in BOOLEAN
         /\ ~Registered(s) => sessions[s].ch.state = "closed"
         /\ sessions[s].ch.state # "closed" => FiredRuns(sessions[s])
<1>1. SessionOK(sessions[s]) /\ Alive(sessions[s], Waiters(s))
  BY DEF LiveInv, Inv
<1>2. Sound(sessions[s].ch)
  BY <1>1 DEF SessionOK, ChannelOK, Sound
<1>3. /\ Registered(s) \in BOOLEAN
      /\ ~Registered(s) => sessions[s].ch.state = "closed"
  BY DEF LiveInv, Inv, UnknownIsClosed, Registered
<1> QED
  BY <1>1, <1>2, <1>3 DEF Alive, Sound, Consistent, MapChanMatches

\* The session map is looked up, and the state read.
LEMMA RequestLives ==
  ASSUME LiveInv, NEW r \in BackChannels, Lookup(r) \/ ReadState(r) \/ GetState(r)
  PROVE  LiveOK
<1>1. /\ req[r].phase # "wait" /\ UNCHANGED <<sessions, channels>>
      /\ \E p \in Phases \ {"wait"} : Goto(r, p)
  BY DEF Lookup, ReadState, GetState, Locking, At, Phases
<1> QED
  BY <1>1, GotoLives

\* A request that arrives does not wait yet.
LEMMA ArriveLives == ASSUME LiveInv, Arrive PROVE LiveOK
<1> DEFINE r == CHOOSE r \in BackChannels : req[r].phase = "idle"
<1>1. r \in BackChannels /\ req[r].phase = "idle"
  BY DEF Arrive
<1>2. PICK kind \in Kinds, sid \in {NullSid} \union DOMAIN sessions :
        req' = [req EXCEPT ![r] = [phase |-> "lookup", kind |-> kind, sid |-> sid]]
  BY DEF Arrive
<1> HIDE DEF r
<1>3. \A t : Waiters(t)' = Waiters(t)
  BY <1>1, <1>2 DEF LiveInv, Inv, TypeOK, Waiters
<1>4. UNCHANGED <<sessions, channels>>
  BY DEF Arrive
<1> QED
  BY <1>3, <1>4, NoneLives

\* An acknowledgement is not noticed outside.
LEMMA AcknowledgeLives ==
  ASSUME LiveInv, NEW r \in BackChannels, Acknowledge(r)
  PROVE  LiveOK
<1>0. PICK s : s = req[r].sid
  OBVIOUS
<1> DEFINE S == sessions[s]
           c == AcknowledgeArrays(S.ch, 1)
           T == [S EXCEPT !.ch = c]
<1>1. /\ req[r].phase = "acknowledge" /\ S.ch.lock = "free"
      /\ Goto(r, Dispatch(req[r].kind))
      /\ sessions' = [sessions EXCEPT ![s].ch = c]
      /\ UNCHANGED channels
  BY <1>0 DEF Acknowledge, Locking, At, SetChannel, Channel
<1>2. s \in DOMAIN sessions /\ S \in Sessions
  BY <1>0, <1>1, SessionOfRequest DEF LiveInv, SessionOK
<1>3. /\ S.ch \in ChannelRecord /\ Live(S.ch) /\ Flow(S.ch, Waiters(s))
      /\ S.ch.state # "closed" => FiredRuns(S)
      /\ Registered(s) \in BOOLEAN
  BY <1>1, <1>2, FreeSession
<1>4. /\ c.state = S.ch.state /\ c.backChannel = S.ch.backChannel
      /\ c.lock = S.ch.lock /\ c.lastArrayId = S.ch.lastArrayId
      /\ c.lastSentArrayId = S.ch.lastSentArrayId
      /\ c.channelTimeout = S.ch.channelTimeout
      /\ c.backChannelExpiration = S.ch.backChannelExpiration
      /\ c \in ChannelRecord
  <2>1. Sound(c)
    <3>1. Sound(S.ch) /\ 1 <= S.ch.lastSentArrayId
      <4>1. s # NullSid
        BY <1>2 DEF LiveInv, Inv, TypeOK, NullSid
      <4> QED
        BY <1>0, <1>1, <1>2, <4>1, FreeSession DEF LiveInv, Inv, RequestOK, SessionOK, SentFirst
    <3> QED
      BY <1>1, <3>1, AcknowledgeSound
  <2> QED
    BY <1>3, <2>1 DEF AcknowledgeArrays, ChannelRecord, Sound, Consistent
<1>5. Flow(c, Waiters(s))
  BY <1>3, AcknowledgeFlow
<1>6. sessions' = [sessions EXCEPT ![s] = T]
  BY <1>1
<1> HIDE DEF c
<1>7. T.ch = c /\ T.timeoutRuns = S.timeoutRuns /\ T.expirationRuns = S.expirationRuns
  BY <1>2 DEF Sessions
<1>8. Lives(S.ch, c, Registered(s))
  BY <1>3, <1>4, LifeFrame
<1> HIDE DEF T
<1>9. Alive(T, Waiters(s))
  BY <1>1, <1>3, <1>4, <1>5, <1>7, <1>8 DEF Alive, Lives, FiredRuns
<1>10. ViewStep(View(S.ch, Registered(s)), View(T.ch, Registered(s)))
  BY <1>7, <1>8 DEF Lives
<1>11. Dispatch(req[r].kind) \in Phases \ {"wait"}
  BY DEF Dispatch, Phases, LiveInv, Inv, TypeOK, Requests, Kinds
<1> HIDE DEF S
<1> QED
  BY <1>0, <1>1, <1>2, <1>6, <1>9, <1>10, <1>11, SessionAndGotoLives DEF S
\* A session that changes without being noticed outside.
LEMMA AliveFrame ==
  ASSUME NEW S, NEW T, NEW W, NEW V, Alive(S, W),
         T.ch.state = S.ch.state, T.ch.backChannel = S.ch.backChannel,
         T.ch.lock = S.ch.lock, T.ch.lastArrayId = S.ch.lastArrayId,
         T.ch.lastSentArrayId = S.ch.lastSentArrayId,
         Flow(T.ch, V), FiredRuns(S) => FiredRuns(T),
         NEW registered \in BOOLEAN
  PROVE  /\ Alive(T, V)
         /\ ViewStep(View(S.ch, registered), View(T.ch, registered))
<1>1. Lives(S.ch, T.ch, registered)
  BY LifeFrame DEF Alive
<1> QED
  BY <1>1 DEF Alive, Lives

\* dequeueMaps is entered with the maps of a ready session.
LEMMA ReceiveMapsLives ==
  ASSUME LiveInv, NEW r \in BackChannels, ReceiveMaps(r)
  PROVE  LiveOK
<1>0. PICK s : s = req[r].sid
  OBVIOUS
<1> DEFINE S == sessions[s]
<1>1. /\ req[r].phase = "receiveMaps" /\ S.ch.lock = "free" /\ UNCHANGED channels
  BY <1>0 DEF ReceiveMaps, Locking, At
<1>2. s \in DOMAIN sessions /\ S \in Sessions
  BY <1>0, <1>1, SessionOfRequest DEF LiveInv, SessionOK
<1>3. CASE (Goto(r, "readState") \/ Goto(r, "idle")) /\ UNCHANGED sessions
  BY <1>1, <1>3, GotoLives DEF Phases
<1>4. CASE /\ S.ch.state = "ready"
           /\ Goto(r, "dequeueMaps")
           /\ SetChannel(s, [S.ch EXCEPT !.lock = "dequeueMaps"])
  <2> DEFINE c == [S.ch EXCEPT !.lock = "dequeueMaps"]
             T == [S EXCEPT !.ch = c]
  <2>1. /\ S.ch \in ChannelRecord /\ Live(S.ch) /\ Flow(S.ch, Waiters(s))
        /\ FiredRuns(S)
    BY <1>1, <1>2, <1>4, FreeSession
  <2>2. /\ c.state = "ready" /\ c.backChannel = S.ch.backChannel
        /\ c.lock = "dequeueMaps" /\ c.bcs = S.ch.bcs
        /\ c.lastArrayId = S.ch.lastArrayId
        /\ c.lastSentArrayId = S.ch.lastSentArrayId
        /\ c.outgoingArrays = S.ch.outgoingArrays
        /\ c.channelTimeout = S.ch.channelTimeout
        /\ c.backChannelExpiration = S.ch.backChannelExpiration
    BY <1>4, <2>1 DEF ChannelRecord
  <2>3. sessions' = [sessions EXCEPT ![s] = T]
    BY <1>4 DEF SetChannel
  <2> HIDE DEF c
  <2>4. T.ch = c /\ T.timeoutRuns = S.timeoutRuns /\ T.expirationRuns = S.expirationRuns
    BY <1>2 DEF Sessions
  <2>5. Flow(c, Waiters(s))
    BY <2>1, <2>2, FlowFrame
  <2> HIDE DEF T
  <2>6. Alive(T, Waiters(s))
    BY <2>1, <2>2, <2>4, <2>5 DEF Alive, Live, FiredRuns
  <2>7. Status(S.ch, Registered(s)) = Status(T.ch, Registered(s))
    BY <1>1, <1>4, <2>2, <2>4 DEF Status
  <2>8. ViewStep(View(S.ch, Registered(s)), View(T.ch, Registered(s)))
    BY <2>2, <2>4, <2>7, ViewFields DEF ViewStep
  <2>9. "dequeueMaps" \in Phases
    BY DEF Phases
  <2> HIDE DEF S
  <2> QED
    BY <1>0, <1>1, <1>2, <1>4, <2>3, <2>6, <2>8, <2>9, SessionAndGotoLives DEF S
<1> QED
  BY <1>0, <1>3, <1>4 DEF ReceiveMaps, Channel

\* dequeueMaps gives the lock of a ready session back.
LEMMA DequeueMapsLives ==
  ASSUME LiveInv, NEW r \in BackChannels, DequeueMaps(r)
  PROVE  LiveOK
<1>0. PICK s : s = req[r].sid
  OBVIOUS
<1> DEFINE S == sessions[s]
           c == [S.ch EXCEPT !.lock = "free"]
           T == [S EXCEPT !.ch = c]
<1>1. /\ req[r].phase = "dequeueMaps"
      /\ sessions' = [sessions EXCEPT ![s].ch = c]
      /\ Goto(r, "readState")
      /\ UNCHANGED channels
  BY <1>0 DEF DequeueMaps, At, SetChannel, Channel
<1>2. /\ s \in DOMAIN sessions /\ S \in Sessions /\ S.ch \in ChannelRecord
      /\ S.ch.lock = "dequeueMaps"
  BY <1>0, <1>1, SessionOfRequest DEF LiveInv, Inv, RequestOK, Channel, SessionOK
<1>3. Alive(S, Waiters(s)) /\ S.ch.state = "ready" /\ FiredRuns(S)
  BY <1>2 DEF LiveInv, Alive
<1>4. /\ c.state = "ready" /\ c.backChannel = S.ch.backChannel
      /\ c.lock = "free" /\ c.bcs = S.ch.bcs
      /\ c.lastArrayId = S.ch.lastArrayId
      /\ c.lastSentArrayId = S.ch.lastSentArrayId
      /\ c.outgoingArrays = S.ch.outgoingArrays
      /\ c.channelTimeout = S.ch.channelTimeout
      /\ c.backChannelExpiration = S.ch.backChannelExpiration
  BY <1>2, <1>3 DEF ChannelRecord
<1>5. sessions' = [sessions EXCEPT ![s] = T]
  BY <1>1
<1> HIDE DEF c
<1>6. T.ch = c /\ T.timeoutRuns = S.timeoutRuns /\ T.expirationRuns = S.expirationRuns
  BY <1>2 DEF Sessions
<1>7. Flow(c, Waiters(s))
  BY <1>3, <1>4, FlowFrame DEF Alive
<1> HIDE DEF T
<1>8. Alive(T, Waiters(s))
  BY <1>3, <1>4, <1>6, <1>7 DEF Alive, Live, FiredRuns
<1>9. Status(S.ch, Registered(s)) = Status(T.ch, Registered(s))
  BY <1>2, <1>3, <1>4, <1>6 DEF Status
<1>10. ViewStep(View(S.ch, Registered(s)), View(T.ch, Registered(s)))
  BY <1>4, <1>6, <1>9, ViewFields DEF ViewStep
<1>11. "readState" \in Phases
  BY DEF Phases
<1> HIDE DEF S
<1> QED
  BY <1>0, <1>1, <1>2, <1>5, <1>8, <1>10, <1>11, SessionAndGotoLives DEF S

\* The new request waits; the one it replaces, if any, is let go.
LEMMA SetBackChannelLives ==
  ASSUME LiveInv, NEW r \in BackChannels, SetBackChannelCall(r)
  PROVE  LiveOK
<1>0. PICK s : s = req[r].sid
  OBVIOUS
<1> DEFINE S == sessions[s]
           W == Waiters(s)
           chunked == req[r].kind = "get"
           e == [S.ch EXCEPT !.bcs[r] = NewBackChannel(chunked)]
           c == SetBackChannel(e, r)
           h == IF S.ch.state = "init" THEN "select" ELSE S.heartbeat
           T == [S EXCEPT !.ch = c, !.heartbeat = h]
<1>1. /\ req[r].phase = "setBackChannel" /\ S.ch.lock = "free"
      /\ Goto(r, "wait")
      /\ UNCHANGED channels
  BY <1>0 DEF SetBackChannelCall, Locking, At
<1>2. s \in DOMAIN sessions /\ S \in Sessions
  BY <1>0, <1>1, SessionOfRequest DEF LiveInv, SessionOK
<1>3. sessions' = [sessions EXCEPT ![s] = T]
  <2>1. sessions' = [sessions EXCEPT ![s].ch = c, ![s].heartbeat = h]
    BY <1>0 DEF SetBackChannelCall, Channel
  <2> HIDE DEF c, h
  <2>2. s \in DOMAIN sessions /\ sessions \in Seq(Sessions)
    BY <1>2 DEF LiveInv, Inv, TypeOK
  <2> QED
    BY <2>1, <2>2
<1>4. /\ S.ch \in ChannelRecord /\ Sound(S.ch) /\ Live(S.ch) /\ Flow(S.ch, W)
      /\ S.ch.state # "closed" => FiredRuns(S)
      /\ Registered(s) \in BOOLEAN
      /\ ~Registered(s) => S.ch.state = "closed"
  BY <1>1, <1>2, FreeSession
<1>5. r \notin W
  BY <1>1 DEF Waiters
<1>6. chunked \in BOOLEAN
  OBVIOUS
<1>7. /\ Sound(e) /\ e.lock = "free" /\ e.state = S.ch.state
  <2> HIDE DEF chunked, S
  <2> QED
    BY <1>1, <1>4, <1>6, FreshConsistent DEF Sound
<1>8. /\ e.bcs = [S.ch.bcs EXCEPT ![r] = NewBackChannel(chunked)]
      /\ e.bcs[r] = NewBackChannel(chunked)
      /\ e.backChannel = S.ch.backChannel
      /\ e.lastArrayId = S.ch.lastArrayId
      /\ e.lastSentArrayId = S.ch.lastSentArrayId
      /\ e.outgoingArrays = S.ch.outgoingArrays
      /\ e.channelTimeout = S.ch.channelTimeout
      /\ e.backChannelExpiration = S.ch.backChannelExpiration
  BY <1>4 DEF ChannelRecord
<1>9. e.bcs[r].open /\ e.bcs[r].dataChan = <<>>
  BY <1>8 DEF NewBackChannel
<1>10. e.backChannel # r /\ Flow(e, W)
  BY <1>4, <1>5, <1>8 DEF Flow, Settled, Waiting, ChannelRecord
<1>11. e.bcs[r] \in {NewBackChannel(x) : x \in BOOLEAN}
  BY <1>6, <1>8
<1>12. Lives(S.ch, e, Registered(s))
  <2> HIDE DEF e
  <2> QED
    BY <1>1, <1>4, <1>7, <1>8, LifeFrame
<1> HIDE DEF chunked, e
<1>13. Lives(e, c, Registered(s))
  <2>1. Live(e)
    BY <1>12 DEF Lives
  <2> QED
    BY <1>4, <1>7, <1>10, <1>11, <2>1, SetBackChannelLife
<1>14. Flow(c, W \union {r})
  BY <1>5, <1>7, <1>9, <1>10, SetBackChannelFlow
<1>15. NoneFires(e, c)
  BY <1>7, SetBackChannelFires
<1>16. /\ c.state = "closed" <=> S.ch.state = "closed"
       /\ c.lock \in {"free", "heartbeatStop"}
       /\ c \in ChannelRecord
  BY <1>7, <1>9, SetBackChannelProperties DEF Consistent
<1> HIDE DEF c
<1>17. T.ch = c /\ T.timeoutRuns = S.timeoutRuns /\ T.expirationRuns = S.expirationRuns
  <2>1. h \in {"none", "select", "exited"}
    BY <1>2 DEF Sessions
  <2> HIDE DEF h
  <2> QED
    BY <1>2, <2>1 DEF Sessions
<1> HIDE DEF T
<1>18. Alive(T, W \union {r})
  BY <1>4, <1>8, <1>13, <1>14, <1>15, <1>16, <1>17 DEF Alive, Lives, FiredRuns, NoneFires
<1>19. View(e, Registered(s)) = View(S.ch, Registered(s))
  BY <1>1, <1>7, <1>8 DEF View, Status
<1>20. ViewStep(View(S.ch, Registered(s)), View(T.ch, Registered(s)))
  BY <1>13, <1>17, <1>19 DEF Lives
<1>21. "wait" \in Phases
  BY DEF Phases
<1> HIDE DEF S
<1> QED
  BY <1>0, <1>1, <1>2, <1>3, <1>18, <1>20, <1>21, SessionAndGotoLives DEF S
\* A chunk goes to the client; the data channel stays open or closed.
LEMMA WaitWritesLives ==
  ASSUME LiveInv, NEW r \in BackChannels, WaitWrites(r)
  PROVE  LiveOK
<1>0. PICK s : s = req[r].sid
  OBVIOUS
<1> DEFINE S == sessions[s]
           c == [S.ch EXCEPT !.bcs[r] = TakeChunk(@)]
           T == [S EXCEPT !.ch = c, !.known = TRUE]
<1>1. req[r].phase = "wait" /\ UNCHANGED <<channels, req>>
  BY DEF WaitWrites, At
<1>2. s \in DOMAIN sessions /\ S \in Sessions /\ S.ch \in ChannelRecord
  BY <1>0, <1>1, SessionOfRequest DEF LiveInv, SessionOK, ChannelOK, Consistent
<1>3. sessions' = [sessions EXCEPT ![s] = T]
  <2>1. sessions' = [sessions EXCEPT ![s].ch.bcs[r] = TakeChunk(@), ![s].known = TRUE]
    BY <1>0 DEF WaitWrites
  <2>2. s \in DOMAIN sessions /\ sessions \in Seq(Sessions) /\ S \in Sessions
    BY <1>2 DEF LiveInv, Inv, TypeOK
  <2> QED
    BY <2>1, <2>2
<1>4. Alive(S, Waiters(s))
  BY <1>2 DEF LiveInv
<1>5. /\ c.bcs = [S.ch.bcs EXCEPT ![r] = TakeChunk(@)]
      /\ c.backChannel = S.ch.backChannel
      /\ c.lastArrayId = S.ch.lastArrayId
      /\ c.lastSentArrayId = S.ch.lastSentArrayId
      /\ c.outgoingArrays = S.ch.outgoingArrays
      /\ c.lock = S.ch.lock
      /\ c.state = S.ch.state
      /\ c.channelTimeout = S.ch.channelTimeout
      /\ c.backChannelExpiration = S.ch.backChannelExpiration
  BY <1>2 DEF ChannelRecord
<1> HIDE DEF c
<1>6. \A x \in BackChannels : c.bcs[x].open = S.ch.bcs[x].open
  BY <1>2, <1>5 DEF TakeChunk, ChannelRecord, BackChannelRecord
<1>7. Flow(c, Waiters(s))
  BY <1>4, <1>5, <1>6 DEF Alive, Flow, Settled, Waiting
<1>8. T.ch = c /\ T.timeoutRuns = S.timeoutRuns /\ T.expirationRuns = S.expirationRuns
  BY <1>2 DEF Sessions
<1> HIDE DEF T
<1>9. FiredRuns(S) => FiredRuns(T)
  BY <1>5, <1>8 DEF FiredRuns
<1>10. Registered(s) \in BOOLEAN
  BY DEF Registered
<1>11. /\ Alive(T, Waiters(s))
       /\ ViewStep(View(S.ch, Registered(s)), View(T.ch, Registered(s)))
  BY <1>4, <1>5, <1>7, <1>8, <1>9, <1>10, AliveFrame
<1>12. \A t : Waiters(t)' = Waiters(t)
  BY <1>1 DEF Waiters
<1> HIDE DEF S
<1> QED
  BY <1>1, <1>2, <1>3, <1>11, <1>12, OneLives DEF S

\* Only a request whose data channel is closed returns from wait, so it is not
\* the back channel.
LEMMA WaitReturnsLives ==
  ASSUME LiveInv, NEW r \in BackChannels, WaitReturns(r)
  PROVE  LiveOK
<1>0. PICK s : s = req[r].sid
  OBVIOUS
<1> DEFINE S == sessions[s]
           c == [S.ch EXCEPT !.bcs[r] = NewBackChannel(FALSE)]
           T == [S EXCEPT !.ch = c]
<1>1. /\ req[r].phase = "wait" /\ ~S.ch.bcs[r].open
      /\ sessions' = [sessions EXCEPT ![s].ch = c]
      /\ Goto(r, "idle")
      /\ UNCHANGED channels
  BY <1>0 DEF WaitReturns, WaitIsOver, At, SetChannel, Channel
<1>2. s \in DOMAIN sessions /\ S \in Sessions /\ S.ch \in ChannelRecord
  BY <1>0, <1>1, SessionOfRequest DEF LiveInv, SessionOK, ChannelOK, Consistent
<1>3. sessions' = [sessions EXCEPT ![s] = T]
  BY <1>1
<1>4. Alive(S, Waiters(s))
  BY <1>2 DEF LiveInv
<1>5. /\ c.bcs = [S.ch.bcs EXCEPT ![r] = NewBackChannel(FALSE)]
      /\ c.backChannel = S.ch.backChannel
      /\ c.lastArrayId = S.ch.lastArrayId
      /\ c.lastSentArrayId = S.ch.lastSentArrayId
      /\ c.outgoingArrays = S.ch.outgoingArrays
      /\ c.lock = S.ch.lock
      /\ c.state = S.ch.state
      /\ c.channelTimeout = S.ch.channelTimeout
      /\ c.backChannelExpiration = S.ch.backChannelExpiration
  BY <1>2 DEF ChannelRecord
<1> HIDE DEF c
<1> DEFINE V == Waiters(s) \ {r}
<1>6. Flow(c, V)
  BY <1>1, <1>2, <1>4, <1>5 DEF Alive, Flow, Settled, Waiting, ChannelRecord
<1>7. T.ch = c /\ T.timeoutRuns = S.timeoutRuns /\ T.expirationRuns = S.expirationRuns
  BY <1>2 DEF Sessions
<1> HIDE DEF T
<1>8. FiredRuns(S) => FiredRuns(T)
  BY <1>5, <1>7 DEF FiredRuns
<1>9. Registered(s) \in BOOLEAN
  BY DEF Registered
<1> HIDE DEF V
<1>10. /\ Alive(T, V)
       /\ ViewStep(View(S.ch, Registered(s)), View(T.ch, Registered(s)))
  BY <1>4, <1>5, <1>6, <1>7, <1>8, <1>9, AliveFrame
<1>11. /\ \A t : t # s => Waiters(t)' = Waiters(t)
       /\ Waiters(s)' = Waiters(s) \ {r}
  <2>1. "idle" \in Phases /\ Inv
    BY DEF Phases, LiveInv
  <2> QED
    BY <1>0, <1>1, <2>1, GotoWaiters
<1> HIDE DEF S
<1> QED
  BY <1>1, <1>2, <1>3, <1>10, <1>11, OneLives DEF S, V

\* terminateInternal, of a session whose other fields may change.
LEMMA TerminatedLives ==
  ASSUME LiveInv, NEW s \in DOMAIN sessions, sessions[s].ch.lock = "free",
         NEW T, T.ch = TerminateInternal(sessions[s].ch)
  PROVE  /\ Alive(T, Waiters(s))
         /\ ViewStep(View(sessions[s].ch, Registered(s)), View(T.ch, Registered(s)))
<1> DEFINE c == sessions[s].ch
<1>1. /\ c \in ChannelRecord /\ Live(c) /\ Flow(c, Waiters(s)) /\ c.lock = "free"
      /\ c.state \in {"init", "ready"} => ~c.mapChanClosed
      /\ Registered(s) \in BOOLEAN
      /\ ~Registered(s) => c.state = "closed"
  BY FreeSession
<1> HIDE DEF c
<1>2. Lives(c, TerminateInternal(c), Registered(s))
  BY <1>1, TerminateLife
<1>3. Flow(TerminateInternal(c), Waiters(s))
  BY <1>1, TerminateFlow DEF Flow
<1>4. TerminateInternal(c).lock = "heartbeatStop"
  BY <1>1, TerminateInternalProperties
<1> QED
  BY <1>2, <1>3, <1>4 DEF Alive, Lives, c

\* A request or a timeout terminates the session.
LEMMA TerminateLives ==
  ASSUME LiveInv, NEW r \in BackChannels, Terminate(r)
  PROVE  LiveOK
<1>0. PICK s : s = req[r].sid
  OBVIOUS
<1> DEFINE S == sessions[s]
           c == TerminateInternal(S.ch)
           T == [S EXCEPT !.ch = c]
<1>1. /\ req[r].phase = "terminate" /\ S.ch.lock = "free"
      /\ sessions' = [sessions EXCEPT ![s].ch = c]
      /\ Goto(r, "inTerminate")
      /\ UNCHANGED channels
  BY <1>0 DEF Terminate, Locking, At, SetChannel, Channel
<1>2. s \in DOMAIN sessions /\ S \in Sessions
  BY <1>0, <1>1, SessionOfRequest DEF LiveInv, SessionOK
<1>3. sessions' = [sessions EXCEPT ![s] = T] /\ T.ch = c
  BY <1>1, <1>2 DEF Sessions
<1> HIDE DEF T
<1>4. /\ Alive(T, Waiters(s))
      /\ ViewStep(View(S.ch, Registered(s)), View(T.ch, Registered(s)))
  BY <1>1, <1>2, <1>3, TerminatedLives
<1>5. "inTerminate" \in Phases
  BY DEF Phases
<1> HIDE DEF S
<1> QED
  BY <1>0, <1>1, <1>2, <1>3, <1>4, <1>5, SessionAndGotoLives DEF S

LEMMA ChannelTimeoutLives ==
  ASSUME LiveInv, NEW s \in DOMAIN sessions, ChannelTimeoutRuns(s)
  PROVE  LiveOK
<1> DEFINE S == sessions[s]
           T == [S EXCEPT !.ch = TerminateInternal(S.ch), !.timeoutRuns = 0]
<1>1. S \in Sessions /\ S.ch.lock = "free"
  BY DEF LiveInv, Inv, SessionOK, ChannelTimeoutRuns, Free
<1>2. T.ch = TerminateInternal(S.ch)
  BY <1>1 DEF Sessions
<1>3. sessions' = [sessions EXCEPT ![s] = T]
  BY DEF ChannelTimeoutRuns
<1> HIDE DEF T
<1>4. /\ Alive(T, Waiters(s))
      /\ ViewStep(View(S.ch, Registered(s)), View(T.ch, Registered(s)))
  BY <1>1, <1>2, TerminatedLives
<1>5. UNCHANGED channels /\ \A t : Waiters(t)' = Waiters(t)
  BY DEF ChannelTimeoutRuns, Waiters
<1> HIDE DEF S
<1> QED
  BY <1>3, <1>4, <1>5, OneLives DEF S
\* The function of the timer that fires runs next.
LEMMA TimerFiresLives ==
  ASSUME LiveInv, NEW s \in DOMAIN sessions, TimerFires(s)
  PROVE  LiveOK
<1> DEFINE S == sessions[s]
           c == [S.ch EXCEPT !.channelTimeout = "fired"]
           d == [S.ch EXCEPT !.backChannelExpiration = "fired"]
           T == [S EXCEPT !.ch = c, !.timeoutRuns = 1]
           U == [S EXCEPT !.ch = d, !.expirationRuns = 1]
<1>1. S \in Sessions /\ S.ch \in ChannelRecord /\ Alive(S, Waiters(s))
  BY DEF LiveInv, Inv, SessionOK, ChannelOK, Consistent
<1>2. sessions \in Seq(Sessions)
  BY DEF LiveInv, Inv, TypeOK
<1>3. ASSUME NEW x \in {c, d}
      PROVE  /\ x.state = S.ch.state /\ x.backChannel = S.ch.backChannel
             /\ x.lock = S.ch.lock /\ x.lastArrayId = S.ch.lastArrayId
             /\ x.lastSentArrayId = S.ch.lastSentArrayId
             /\ x.bcs = S.ch.bcs /\ x.outgoingArrays = S.ch.outgoingArrays
  BY <1>1, <1>3 DEF ChannelRecord
<1>4. /\ c.backChannelExpiration = S.ch.backChannelExpiration
      /\ d.channelTimeout = S.ch.channelTimeout
  BY <1>1 DEF ChannelRecord
<1>5. PICK V \in {T, U} : sessions' = [sessions EXCEPT ![s] = V]
  BY <1>1, <1>2 DEF TimerFires
<1>6. /\ T.ch = c /\ T.timeoutRuns = 1 /\ T.expirationRuns = S.expirationRuns
      /\ U.ch = d /\ U.timeoutRuns = S.timeoutRuns /\ U.expirationRuns = 1
  BY <1>1 DEF Sessions
<1> HIDE DEF c, d, T, U
<1>7. FiredRuns(S) => FiredRuns(V)
  BY <1>4, <1>5, <1>6 DEF FiredRuns
<1>8. Flow(V.ch, Waiters(s))
  <2>1. V.ch \in {c, d}
    BY <1>5, <1>6
  <2> QED
    BY <1>1, <1>3, <2>1, FlowFrame DEF Alive
<1>9. Registered(s) \in BOOLEAN
  BY DEF Registered
<1>10. /\ Alive(V, Waiters(s))
       /\ ViewStep(View(S.ch, Registered(s)), View(V.ch, Registered(s)))
  <2>1. V.ch \in {c, d}
    BY <1>5, <1>6
  <2> QED
    BY <1>1, <1>3, <1>7, <1>8, <1>9, <2>1, AliveFrame
<1>11. UNCHANGED channels /\ \A t : Waiters(t)' = Waiters(t)
  BY DEF TimerFires, Waiters
<1> HIDE DEF S
<1> QED
  BY <1>5, <1>10, <1>11, OneLives DEF S

\* The back channel that expires leaves the session to its timeout.
LEMMA ExpirationLives ==
  ASSUME LiveInv, NEW s \in DOMAIN sessions, ExpirationRuns(s)
  PROVE  LiveOK
<1> DEFINE S == sessions[s]
           c == ClearBackChannel(S.ch, FALSE)
           T == [S EXCEPT !.ch = c, !.expirationRuns = 0]
<1>1. S \in Sessions /\ S.ch.lock = "free"
  BY DEF LiveInv, Inv, SessionOK, ExpirationRuns, Free
<1>2. /\ S.ch \in ChannelRecord /\ Sound(S.ch)
      /\ Live(S.ch) /\ Flow(S.ch, Waiters(s))
      /\ S.ch.state # "closed" => FiredRuns(S)
      /\ Registered(s) \in BOOLEAN
      /\ ~Registered(s) => S.ch.state = "closed"
  BY <1>1, FreeSession
<1>3. T.ch = c /\ T.timeoutRuns = S.timeoutRuns /\ T.expirationRuns = 0
  BY <1>1 DEF Sessions
<1>4. sessions' = [sessions EXCEPT ![s] = T]
  BY DEF ExpirationRuns
<1> HIDE DEF T
<1>5. Lives(S.ch, c, Registered(s))
  <2> HIDE DEF S
  <2> QED
    BY <1>1, <1>2, ClearLife
<1>6. Flow(c, Waiters(s)) /\ NoneFires(S.ch, c)
  <2> HIDE DEF S
  <2> QED
    BY <1>2, ClearFlow, ClearFires DEF Flow
<1>7. Sound(c) /\ c.backChannel = None /\ c.state = S.ch.state /\ c.lock = "free"
  <2> HIDE DEF S
  <2> QED
    BY <1>1, <1>2, ClearBackChannelSound
<1> HIDE DEF c
<1>8. c.state # "closed" => FiredRuns(T)
  BY <1>2, <1>3, <1>6, <1>7 DEF FiredRuns, NoneFires, Sound, Timed
<1>9. /\ Alive(T, Waiters(s))
      /\ ViewStep(View(S.ch, Registered(s)), View(T.ch, Registered(s)))
  BY <1>3, <1>5, <1>6, <1>7, <1>8 DEF Alive, Lives
<1>10. UNCHANGED channels /\ \A t : Waiters(t)' = Waiters(t)
  BY DEF ExpirationRuns, Waiters
<1> HIDE DEF S
<1> QED
  BY <1>4, <1>9, <1>10, OneLives DEF S

\* To others the session is closed already.
LEMMA StopHeartbeatLives ==
  ASSUME LiveInv, NEW s \in DOMAIN sessions, StopHeartbeat(s)
  PROVE  LiveOK
<1> DEFINE S == sessions[s]
           c == [S.ch EXCEPT !.state = "closed", !.lock = "gcChan"]
           T == [S EXCEPT !.ch = c, !.heartbeatStop = 1]
<1>1. /\ S \in Sessions /\ S.ch \in ChannelRecord /\ Alive(S, Waiters(s))
      /\ S.ch.lock = "heartbeatStop"
  BY DEF LiveInv, Inv, SessionOK, ChannelOK, Consistent, StopHeartbeat
<1>2. sessions' = [sessions EXCEPT ![s] = T]
  <2>1. sessions' = [sessions EXCEPT ![s].heartbeatStop = 1,
                                     ![s].ch.state = "closed",
                                     ![s].ch.lock = "gcChan"]
    BY DEF StopHeartbeat
  <2>2. sessions \in Seq(Sessions)
    BY DEF LiveInv, Inv, TypeOK
  <2>3. T = [S EXCEPT !.heartbeatStop = 1, !.ch.state = "closed", !.ch.lock = "gcChan"]
    BY <1>1 DEF Sessions
  <2> QED
    BY <2>1, <2>2, <2>3
<1>3. /\ c.state = "closed" /\ c.lock = "gcChan"
      /\ c.backChannel = S.ch.backChannel
      /\ c.bcs = S.ch.bcs /\ c.outgoingArrays = S.ch.outgoingArrays
      /\ c.lastArrayId = S.ch.lastArrayId
      /\ c.lastSentArrayId = S.ch.lastSentArrayId
  BY <1>1 DEF ChannelRecord
<1>4. T.ch = c
  BY <1>1 DEF Sessions
<1> HIDE DEF c, T
<1>5. S.ch.backChannel = None
  BY <1>1 DEF Alive, Live
<1>6. Flow(c, Waiters(s))
  BY <1>1, <1>3, FlowFrame DEF Alive
<1>7. Alive(T, Waiters(s))
  BY <1>3, <1>4, <1>5, <1>6 DEF Alive, Live
<1>8. Status(S.ch, Registered(s)) = Status(c, Registered(s))
  BY <1>1, <1>3 DEF Status
<1>9. ViewStep(View(S.ch, Registered(s)), View(T.ch, Registered(s)))
  BY <1>3, <1>4, <1>8, ViewFields DEF ViewStep
<1>10. UNCHANGED channels /\ \A t : Waiters(t)' = Waiters(t)
  BY DEF StopHeartbeat, Waiters
<1> HIDE DEF S
<1> QED
  BY <1>2, <1>7, <1>9, <1>10, OneLives DEF S

LEMMA HeartbeatStopsLives ==
  ASSUME LiveInv, NEW s \in DOMAIN sessions, HeartbeatStops(s)
  PROVE  LiveOK
<1> DEFINE S == sessions[s]
           T == [S EXCEPT !.heartbeat = "exited", !.heartbeatStop = 0]
<1>1. S \in Sessions /\ Alive(S, Waiters(s))
  BY DEF LiveInv, Inv, SessionOK
<1>2. sessions' = [sessions EXCEPT ![s] = T]
  BY DEF HeartbeatStops
<1>3. T.ch = S.ch /\ T.timeoutRuns = S.timeoutRuns /\ T.expirationRuns = S.expirationRuns
  BY <1>1 DEF Sessions
<1> HIDE DEF T
<1>4. Alive(T, Waiters(s))
  BY <1>1, <1>3 DEF Alive, FiredRuns
<1>5. ViewStep(View(S.ch, Registered(s)), View(T.ch, Registered(s)))
  BY <1>3, SameView
<1>6. UNCHANGED channels /\ \A t : Waiters(t)' = Waiters(t)
  BY DEF HeartbeatStops, Waiters
<1> HIDE DEF S
<1> QED
  BY <1>2, <1>4, <1>5, <1>6, OneLives DEF S

\* The requests in terminate that return were not in wait.
LEMMA SendToGcLives ==
  ASSUME LiveInv, NEW s \in DOMAIN sessions, SendToGc(s)
  PROVE  LiveOK
<1> DEFINE S == sessions[s]
           c == [S.ch EXCEPT !.lock = "free"]
           T == [S EXCEPT !.ch = c]
<1>1. /\ S \in Sessions /\ S.ch \in ChannelRecord /\ Alive(S, Waiters(s))
      /\ S.ch.lock = "gcChan" /\ S.ch.state = "closed"
  BY DEF LiveInv, Inv, SessionOK, ChannelOK, Consistent, SendToGc
<1>2. /\ c.state = "closed" /\ c.lock = "free"
      /\ c.backChannel = S.ch.backChannel
      /\ c.bcs = S.ch.bcs /\ c.outgoingArrays = S.ch.outgoingArrays
      /\ c.lastArrayId = S.ch.lastArrayId
      /\ c.lastSentArrayId = S.ch.lastSentArrayId
  BY <1>1 DEF ChannelRecord
<1>3. sessions' = [sessions EXCEPT ![s] = T] /\ UNCHANGED channels
  BY DEF SendToGc, SetChannel
<1>4. T.ch = c
  BY <1>1 DEF Sessions
<1> HIDE DEF c, T
<1>5. S.ch.backChannel = None
  BY <1>1 DEF Alive, Live
<1>6. Flow(c, Waiters(s))
  BY <1>1, <1>2, FlowFrame DEF Alive
<1>7. Alive(T, Waiters(s))
  BY <1>2, <1>4, <1>5, <1>6 DEF Alive, Live
<1>8. Status(S.ch, Registered(s)) = Status(c, Registered(s))
  BY <1>1, <1>2 DEF Status
<1>9. ViewStep(View(S.ch, Registered(s)), View(T.ch, Registered(s)))
  BY <1>2, <1>4, <1>8, ViewFields DEF ViewStep
<1>10. \A t : Waiters(t)' = Waiters(t)
  <2>1. NoRequest.phase = "idle"
    BY DEF NoRequest
  <2>2. \A r \in BackChannels :
          req'[r] = IF req[r].phase = "inTerminate" /\ req[r].sid = s
                      THEN NoRequest ELSE req[r]
    BY DEF SendToGc
  <2>3. \A r \in BackChannels : \A t :
          req'[r].phase = "wait" /\ req'[r].sid = t
            <=> req[r].phase = "wait" /\ req[r].sid = t
    BY <2>1, <2>2
  <2> QED
    BY <2>3 DEF Waiters
<1> HIDE DEF S
<1> QED
  BY <1>3, <1>7, <1>9, <1>10, OneLives DEF S
\* The fields of a view, before and after a step.
LEMMA ViewOfFields ==
  ASSUME NEW s
  PROVE  /\ s \in DOMAIN sessions =>
              /\ ViewOf(s).status = Status(sessions[s].ch, Registered(s))
              /\ ViewOf(s).streaming <=> sessions[s].ch.backChannel # None
              /\ ViewOf(s).sent = sessions[s].ch.lastArrayId
         /\ s \notin DOMAIN sessions =>
              /\ ViewOf(s).status = "init"
              /\ ~ViewOf(s).streaming
              /\ ViewOf(s).sent = 0
         /\ s \in DOMAIN sessions' =>
              /\ (ViewOf(s)').status = Status(sessions'[s].ch, Registered(s)')
              /\ (ViewOf(s)').streaming <=> sessions'[s].ch.backChannel # None
              /\ (ViewOf(s)').sent = sessions'[s].ch.lastArrayId
         /\ s \notin DOMAIN sessions' =>
              /\ (ViewOf(s)').status = "init"
              /\ ~(ViewOf(s)').streaming
              /\ (ViewOf(s)').sent = 0
<1>1. s \in DOMAIN sessions => ViewOf(s) = View(sessions[s].ch, Registered(s))
  BY DEF ViewOf
<1>2. s \in DOMAIN sessions' => ViewOf(s)' = View(sessions'[s].ch, Registered(s)')
  BY DEF ViewOf, View
<1>3. /\ s \notin DOMAIN sessions =>
           ViewOf(s) = [status |-> "init", streaming |-> FALSE, sent |-> 0]
      /\ s \notin DOMAIN sessions' =>
           ViewOf(s)' = [status |-> "init", streaming |-> FALSE, sent |-> 0]
  BY DEF ViewOf
<1> QED
  BY <1>1, <1>2, <1>3, ViewFields

\* A session that a step leaves alone.
LEMMA ViewKept ==
  ASSUME NEW t, t \in DOMAIN sessions' <=> t \in DOMAIN sessions,
         t \in DOMAIN sessions => sessions'[t] = sessions[t],
         t \in channels' <=> t \in channels
  PROVE  ViewStep(ViewOf(t), ViewOf(t)')
<1>1. Registered(t)' <=> Registered(t)
  BY DEF Registered
<1>2. t \in DOMAIN sessions =>
        Status(sessions'[t].ch, Registered(t)') = Status(sessions[t].ch, Registered(t))
  BY <1>1 DEF Status
<1> QED
  BY <1>2, ViewOfFields DEF ViewStep

\* The collector forgets a closed session.
LEMMA RemoveLives == ASSUME LiveInv, RemoveClosedSession PROVE LiveOK
<1>0. PICK h : h = Head(gcChan)
  OBVIOUS
<1>1. /\ gcChan \in Seq(DOMAIN sessions) /\ gcChan # <<>>
      /\ channels' = channels \ {h}
      /\ UNCHANGED <<sessions, req>>
  BY <1>0 DEF LiveInv, Inv, TypeOK, RemoveClosedSession
<1>2. h \in DOMAIN sessions /\ h = gcChan[1] /\ 1 \in DOMAIN gcChan
  BY <1>0, <1>1
<1>3. sessions[h].ch.state = "closed" /\ sessions[h].ch.lock # "panicked"
  BY <1>2 DEF LiveInv, Inv, UnknownIsClosed, SessionOK, ChannelOK
<1>4. ASSUME NEW t PROVE ViewStep(ViewOf(t), ViewOf(t)')
  <2>1. CASE t # h
    BY <1>1, <2>1, ViewKept
  <2>2. CASE t = h
    <3> DEFINE c == sessions[t].ch
    <3>1. /\ Status(c, Registered(t)) \in {"closed", "unknown"}
          /\ Status(c, Registered(t))' = "unknown"
      BY <1>1, <1>3, <2>2 DEF Status, Registered
    <3>2. /\ ViewOf(t).status = Status(c, Registered(t))
          /\ ViewOf(t).streaming <=> c.backChannel # None
          /\ ViewOf(t).sent = c.lastArrayId
      BY <1>2, <2>2, ViewOfFields
    <3>3. /\ (ViewOf(t)').status = Status(c, Registered(t))'
          /\ (ViewOf(t)').streaming <=> c.backChannel # None
          /\ (ViewOf(t)').sent = c.lastArrayId
      BY <1>1, <1>2, <2>2, ViewOfFields
    <3> QED
      BY <3>1, <3>2, <3>3 DEF ViewStep
  <2> QED
    BY <2>1, <2>2
<1>5. \A t : Waiters(t)' = Waiters(t)
  BY <1>1 DEF Waiters
<1> QED
  BY <1>1, <1>4, <1>5 DEF LiveInv, LiveOK

\* A session starts as every session does.
LEMMA NewSessionAlive == Alive(NewSession, {})
<1>1. NewSession.ch = NewChannel
  BY DEF NewSession
<1>2. /\ NewChannel.backChannel = None /\ NewChannel.lock = "free"
      /\ NewChannel.channelTimeout = "armed"
      /\ NewChannel.backChannelExpiration = "nil"
  BY DEF NewChannel
<1>3. Flow(NewChannel, {})
  BY <1>2, NoneAssumption DEF Flow, Settled, Waiting
<1> QED
  BY <1>1, <1>2, <1>3, NewChannelLife DEF Alive, FiredRuns

LEMMA CreateLives == ASSUME LiveInv, NEW r \in BackChannels, Create(r) PROVE LiveOK
<1>1. PICK sid : sid = Len(sessions) + 1
  OBVIOUS
<1>2. PICK phase : phase = Dispatch(req[r].kind)
  OBVIOUS
<1>3. /\ sessions \in Seq(Sessions) /\ DOMAIN sessions = 1..Len(sessions)
      /\ Len(sessions) \in Nat /\ req[r] \in Requests
      /\ req \in [BackChannels -> Requests]
  BY DEF LiveInv, Inv, TypeOK
<1>4. phase # "wait"
  BY <1>2, <1>3 DEF Dispatch, Requests, Kinds
<1>5. NewSession \in Sessions
  BY NewChannelSound DEF NewSession, Sessions, Sound, Consistent
<1>6. sid \notin DOMAIN sessions /\ sid # NullSid
  BY <1>1, <1>3 DEF NullSid
<1>7. /\ sessions' = Append(sessions, NewSession)
      /\ DOMAIN sessions' = DOMAIN sessions \union {sid}
      /\ sessions'[sid] = NewSession
      /\ \A t \in DOMAIN sessions : sessions'[t] = sessions[t]
  BY <1>1, <1>3, <1>5 DEF Create
<1>8. channels' = channels \union {sid} /\ req[r].phase = "lookup"
  BY <1>1 DEF Create
<1>9. /\ \A q \in BackChannels \ {r} : req'[q] = req[q]
      /\ req'[r].phase # "wait"
  <2>1. req' = [req EXCEPT ![r] =
                  IF phase = "idle" THEN NoRequest
                  ELSE [req[r] EXCEPT !.phase = phase, !.sid = sid]]
    BY <1>1, <1>2 DEF Create
  <2>2. NoRequest.phase # "wait"
    BY DEF NoRequest
  <2>3. [req[r] EXCEPT !.phase = phase, !.sid = sid].phase # "wait"
    BY <1>3, <1>4 DEF Requests
  <2> QED
    BY <1>3, <2>1, <2>2, <2>3
<1>10. \A t : Waiters(t)' = Waiters(t)
  BY <1>8, <1>9 DEF Waiters
<1>11. Waiters(sid) = {}
  BY <1>6 DEF Waiters, LiveInv, Inv, RequestOK
<1>12. \A s \in DOMAIN sessions' : Alive(sessions'[s], Waiters(s)')
  BY <1>7, <1>10, <1>11, NewSessionAlive DEF LiveInv
<1>13. ASSUME NEW t PROVE ViewStep(ViewOf(t), ViewOf(t)')
  <2>1. CASE t = sid
    <3>1. Registered(t)' /\ t \in DOMAIN sessions' /\ t \notin DOMAIN sessions
      BY <1>6, <1>7, <1>8, <2>1 DEF Registered
    <3>2. /\ Status(NewSession.ch, Registered(t)') = "init"
          /\ NewSession.ch.backChannel = None
          /\ NewSession.ch.lastArrayId = 0
      BY <3>1 DEF Status, NewSession, NewChannel
    <3>3. /\ ViewOf(t).status = "init"
          /\ ~ViewOf(t).streaming
          /\ ViewOf(t).sent = 0
      BY <3>1, ViewOfFields
    <3>4. /\ (ViewOf(t)').status = Status(sessions'[t].ch, Registered(t)')
          /\ (ViewOf(t)').streaming <=> sessions'[t].ch.backChannel # None
          /\ (ViewOf(t)').sent = sessions'[t].ch.lastArrayId
      BY <3>1, ViewOfFields
    <3>5. sessions'[t] = NewSession
      BY <1>7, <2>1
    <3> QED
      BY <3>2, <3>3, <3>4, <3>5 DEF ViewStep
  <2>2. CASE t # sid
    BY <1>7, <1>8, <2>2, ViewKept
  <2> QED
    BY <2>1, <2>2
<1> QED
  BY <1>12, <1>13 DEF LiveOK

\* Every step of the handler is a step of each session, or none.
LEMMA LiveStep ==
  ASSUME LiveInv, [Next]_vars
  PROVE  LiveInv' /\ \A s : ViewStep(ViewOf(s), ViewOf(s)')
<1>1. LiveOK
  <2>1. CASE Arrive
    BY <2>1, ArriveLives
  <2>2. ASSUME NEW r \in BackChannels, RequestStep(r) PROVE LiveOK
    BY <2>2, CreateLives, RequestLives, AcknowledgeLives, ReceiveMapsLives,
       DequeueMapsLives, SetBackChannelLives, WaitWritesLives, WaitReturnsLives,
       TerminateLives DEF RequestStep
  <2>3. ASSUME NEW s \in DOMAIN sessions, SessionStep(s) PROVE LiveOK
    BY <2>3, TimerFiresLives, ChannelTimeoutLives, ExpirationLives,
       StopHeartbeatLives, HeartbeatStopsLives, SendToGcLives DEF SessionStep
  <2>4. CASE RemoveClosedSession
    BY <2>4, RemoveLives
  <2>5. CASE UNCHANGED vars
    <3>1. UNCHANGED <<sessions, channels>> /\ \A t : Waiters(t)' = Waiters(t)
      BY <2>5 DEF vars, Waiters
    <3> QED
      BY <3>1, NoneLives
  <2> QED
    BY <2>1, <2>2, <2>3, <2>4, <2>5 DEF Next
<1>2. Inv'
  BY StepKeepsInv DEF LiveInv
<1> QED
  BY <1>1, <1>2 DEF LiveInv, LiveOK

\* A step of the view is a step of Session.
LEMMA SessionSteps ==
  ASSUME NEW s, ViewStep(ViewOf(s), ViewOf(s)')
  PROVE  [SessionLife(s)!Next]_(SessionLife(s)!vars)
<1> DEFINE v == ViewOf(s)
           w == ViewOf(s)'
<1>1. /\ v.status = IF s \in DOMAIN sessions
                      THEN Status(sessions[s].ch, s \in channels) ELSE "init"
      /\ v.streaming <=> s \in DOMAIN sessions /\ sessions[s].ch.backChannel # None
      /\ v.sent = IF s \in DOMAIN sessions THEN sessions[s].ch.lastArrayId ELSE 0
  BY ViewOfFields DEF Status, Registered
<1>2. /\ w.status = IF s \in DOMAIN sessions'
                      THEN Status(sessions'[s].ch, s \in channels') ELSE "init"
      /\ w.streaming <=> s \in DOMAIN sessions' /\ sessions'[s].ch.backChannel # None
      /\ w.sent = IF s \in DOMAIN sessions' THEN sessions'[s].ch.lastArrayId ELSE 0
  BY ViewOfFields DEF Status, Registered
<1>3. ViewStep(v, w)
  OBVIOUS
<1> HIDE DEF v, w
<1> QED
  BY <1>1, <1>2, <1>3 DEF ViewStep, SessionLife!Next, SessionLife!vars,
       SessionLife!Open, SessionLife!ChangeBackChannel, SessionLife!SendArray,
       SessionLife!Close, SessionLife!End, SessionLife!Forget,
       SessionLife!CloseAgain
\* No session exists yet, which is how every session starts.
LEMMA InitLive == Init => LiveInv /\ \A s : SessionLife(s)!Init
<1> SUFFICES ASSUME Init PROVE LiveInv /\ \A s : SessionLife(s)!Init
  OBVIOUS
<1>1. DOMAIN sessions = {}
  BY DEF Init
<1>2. LiveInv
  BY <1>1, InitEstablishesInv DEF LiveInv
<1>3. \A s : SessionLife(s)!Init
  BY <1>1 DEF SessionLife!Init
<1> QED
  BY <1>2, <1>3

LEMMA SpecLive == Spec => []LiveInv
<1>1. LiveInv /\ [Next]_vars => LiveInv'
  BY LiveStep
<1> QED
  BY <1>1, InitLive, PTL DEF Spec

\* However many sessions the handler serves, and whatever the requests, the
\* timers and the collector do to one of them, each of them is a session: it
\* opens, is closed once, leaves the map only then, and never comes back.  No
\* step for one session is a step of another.
THEOREM SessionsAreImplemented == Spec => ImplementsSessions
<1>1. Init => \A s \in 1..MaxSessions : SessionLife(s)!Init
  BY InitLive
<1>2. LiveInv /\ [Next]_vars =>
        [\A s \in 1..MaxSessions : [SessionLife(s)!Next]_(SessionLife(s)!vars)]_vars
  BY LiveStep, SessionSteps
<1> QED
  BY <1>1, <1>2, SpecLive, PTL DEF Spec, ImplementsSessions

\* Until a session is closed there is a timer that ends it, or its back
\* channel, or the function of such a timer that waits for the lock (newChannel,
\* setBackChannel and clearBackChannel, channel.go).
THEOREM NoSessionIsForgotten == Spec => []NoSessionForgotten
<1>1. ASSUME LiveInv PROVE NoSessionForgotten
  <2> SUFFICES ASSUME NEW s \in DOMAIN sessions, Free(s),
                      sessions[s].ch.state # "closed"
               PROVE  IF sessions[s].ch.backChannel = None
                        THEN \/ sessions[s].ch.channelTimeout = "armed"
                             \/ sessions[s].timeoutRuns = 1
                        ELSE \/ sessions[s].ch.backChannelExpiration = "armed"
                             \/ sessions[s].expirationRuns = 1
    BY DEF NoSessionForgotten
  <2>1. /\ sessions[s].ch \in ChannelRecord
        /\ Timed(sessions[s].ch)
        /\ FiredRuns(sessions[s])
    BY <1>1, FreeSession DEF Free, Sound
  <2> QED
    BY <2>1 DEF Timed, FiredRuns, ChannelRecord, Timers
<1> QED
  BY <1>1, SpecLive, PTL

\* A request whose data channel is open is the back channel of its session, so
\* that whatever happens to the session answers it (setBackChannel discards the
\* back channel it replaces, and the one it is given when it comes too late).
THEOREM NoRequestIsForgotten == Spec => []NoRequestForgotten
<1>1. ASSUME LiveInv PROVE NoRequestForgotten
  <2> SUFFICES ASSUME NEW r \in BackChannels, At(r, "wait"), Channel(r).bcs[r].open
               PROVE  Channel(r).backChannel = r
    BY DEF NoRequestForgotten
  <2>1. PICK s : s = req[r].sid
    OBVIOUS
  <2>2. s \in DOMAIN sessions /\ Channel(r) = sessions[s].ch
    BY <1>1, <2>1, SessionOfRequest DEF LiveInv, At
  <2>3. r \in Waiters(s)
    BY <2>1 DEF Waiters, At
  <2>4. Waiting(sessions[s].ch, Waiters(s))
    BY <1>1, <2>2 DEF LiveInv, Alive, Flow
  <2> QED
    BY <2>2, <2>3, <2>4 DEF Waiting
<1> QED
  BY <1>1, SpecLive, PTL

-----------------------------------------------------------------------------
(***************************************************************************)
(* The ids of the closed sessions.  terminateInternal closes a session     *)
(* before it sends the id, with the lock at gcChan in between: whoever     *)
(* holds the lock of a closed session elsewhere finds that the id was sent.*)
(***************************************************************************)
Queued(s) == \E i \in DOMAIN gcChan : gcChan[i] = s

\* The session is closed, and its id was given to the collector.
Sent(S) == S.ch.state = "closed" /\ S.ch.lock # "gcChan"

IdInv == Inv /\ \A s \in channels : Sent(sessions[s]) => Queued(s)

\* As long as no other session closes, and nobody touches the map or gcChan.
LEMMA IdsFrame ==
  ASSUME IdInv, UNCHANGED <<channels, gcChan>>,
         \A t \in DOMAIN sessions : Sent(sessions'[t]) => Sent(sessions[t])
  PROVE  \A t \in channels' : Sent(sessions'[t]) => Queued(t)'
BY DEF IdInv, Inv, TypeOK, Queued

\* One session changes.
LEMMA IdsUpdated ==
  ASSUME IdInv, UNCHANGED <<channels, gcChan>>,
         NEW s \in DOMAIN sessions, NEW T, sessions' = [sessions EXCEPT ![s] = T],
         Sent(T) => Sent(sessions[s])
  PROVE  \A t \in channels' : Sent(sessions'[t]) => Queued(t)'
<1>1. \A t \in DOMAIN sessions : sessions'[t] = IF t = s THEN T ELSE sessions[t]
  BY DEF IdInv, Inv, TypeOK
<1> QED
  BY <1>1, IdsFrame

\* One session changes while its lock is free: it is not closed by that.
LEMMA IdsOfFree ==
  ASSUME IdInv, UNCHANGED <<channels, gcChan>>,
         NEW s \in DOMAIN sessions, NEW T, sessions' = [sessions EXCEPT ![s] = T],
         sessions[s].ch.lock # "gcChan",
         T.ch.state = "closed" => sessions[s].ch.state = "closed"
  PROVE  \A t \in channels' : Sent(sessions'[t]) => Queued(t)'
BY IdsUpdated DEF Sent

\* A step that leaves every session as it is.
LEMMA IdsOfOthers ==
  ASSUME IdInv, UNCHANGED <<sessions, channels, gcChan>>
  PROVE  \A t \in channels' : Sent(sessions'[t]) => Queued(t)'
BY IdsFrame

\* A request changes the session whose lock it gets, or which waits for it to
\* take a map; none of its methods closes the session, which StopHeartbeat does.
LEMMA RequestIds ==
  ASSUME IdInv, NEW r \in BackChannels, RequestStep(r), ~Create(r)
  PROVE  \A t \in channels' : Sent(sessions'[t]) => Queued(t)'
<1> DEFINE s == req[r].sid
           S == sessions[s]
<1>1. Inv /\ UNCHANGED <<channels, gcChan>>
  BY DEF IdInv, RequestStep, Lookup, Acknowledge, ReceiveMaps, DequeueMaps,
         ReadState, GetState, SetBackChannelCall, WaitWrites, WaitReturns, Terminate
<1>2. CASE req[r].phase = "lookup" \/ UNCHANGED sessions
  <2>1. UNCHANGED sessions
    BY <1>2 DEF RequestStep, Lookup, Acknowledge, ReceiveMaps, DequeueMaps,
         ReadState, GetState, SetBackChannelCall, WaitWrites, WaitReturns,
         Terminate, Locking, At
  <2> QED
    BY <1>1, <2>1, IdsOfOthers
<1>3. ASSUME req[r].phase \notin {"idle", "lookup"}
      PROVE  /\ s \in DOMAIN sessions /\ SessionOK(S)
             /\ S.ch \in ChannelRecord /\ Channel(r) = S.ch
             /\ S.ch.lock = "free" => Sound(S.ch)
  BY <1>1, <1>3, SessionOfRequest
<1>4. ASSUME req[r].phase \notin {"idle", "lookup"}, NEW c, SetChannel(s, c),
             S.ch.lock # "gcChan", c.state = "closed" => S.ch.state = "closed"
      PROVE  \A t \in channels' : Sent(sessions'[t]) => Queued(t)'
  <2> DEFINE T == [S EXCEPT !.ch = c]
  <2>1. s \in DOMAIN sessions /\ S \in Sessions
    BY <1>3, <1>4 DEF SessionOK
  <2>2. T.ch = c
    BY <2>1 DEF Sessions
  <2>3. sessions' = [sessions EXCEPT ![s] = T]
    BY <1>4 DEF SetChannel
  <2> HIDE DEF T, S, s
  <2> QED
    BY <1>1, <1>4, <2>1, <2>2, <2>3, IdsOfFree DEF S
<1>5. CASE Acknowledge(r)
  <2> DEFINE c == AcknowledgeArrays(S.ch, 1)
  <2>1. /\ req[r].phase = "acknowledge" /\ S.ch.lock = "free" /\ SetChannel(s, c)
    BY <1>5 DEF Acknowledge, Locking, At, Channel
  <2>2. c.state = S.ch.state
    BY <1>3, <2>1 DEF AcknowledgeArrays, ChannelRecord
  <2> HIDE DEF c, S, s
  <2> QED
    BY <1>4, <2>1, <2>2 DEF S, s
<1>6. CASE ReceiveMaps(r) /\ ~UNCHANGED sessions
  <2> DEFINE c == [S.ch EXCEPT !.lock = "dequeueMaps"]
  <2>1. /\ req[r].phase = "receiveMaps" /\ S.ch.lock = "free" /\ SetChannel(s, c)
    BY <1>6 DEF ReceiveMaps, Locking, At, Channel
  <2>2. c.state = S.ch.state
    BY <1>3, <2>1 DEF ChannelRecord
  <2> HIDE DEF c
  <2> QED
    BY <1>4, <2>1, <2>2
<1>7. CASE DequeueMaps(r)
  <2> DEFINE c == [S.ch EXCEPT !.lock = "free"]
  <2>1. req[r].phase = "dequeueMaps" /\ SetChannel(s, c)
    BY <1>7 DEF DequeueMaps, At, Channel
  <2>2. c.state = S.ch.state /\ S.ch.lock = "dequeueMaps"
    BY <1>1, <1>3, <2>1 DEF ChannelRecord, Inv, RequestOK, Channel
  <2> HIDE DEF c
  <2> QED
    BY <1>4, <2>1, <2>2
<1>8. CASE SetBackChannelCall(r)
  <2> DEFINE chunked == req[r].kind = "get"
             e == [S.ch EXCEPT !.bcs[r] = NewBackChannel(chunked)]
             c == SetBackChannel(e, r)
             h == IF S.ch.state = "init" THEN "select" ELSE S.heartbeat
             T == [S EXCEPT !.ch = c, !.heartbeat = h]
  <2>1. req[r].phase = "setBackChannel" /\ S.ch.lock = "free"
    BY <1>8 DEF SetBackChannelCall, Locking, At
  <2>2. s \in DOMAIN sessions /\ S \in Sessions /\ Sound(S.ch)
    BY <1>3, <2>1 DEF SessionOK
  <2>3. sessions' = [sessions EXCEPT ![s] = T]
    <3>1. sessions' = [sessions EXCEPT ![s].ch = c, ![s].heartbeat = h]
      BY <1>8 DEF SetBackChannelCall, Channel
    <3> HIDE DEF c, h
    <3> QED
      BY <2>2, <3>1 DEF Inv, TypeOK
  <2>4. Sound(e) /\ e.lock = "free" /\ e.state = S.ch.state /\ e.bcs[r].dataChan = <<>>
    <3>1. chunked \in BOOLEAN
      OBVIOUS
    <3> HIDE DEF chunked, S, s
    <3> QED
      BY <2>1, <2>2, <3>1, FreshConsistent DEF Sound
  <2> HIDE DEF e
  <2>5. c.state = IF S.ch.state = "init" THEN "ready" ELSE S.ch.state
    BY <2>4, SetBackChannelProperties
  <2> HIDE DEF c, h
  <2>6. T.ch = c
    BY <2>2 DEF Sessions
  <2> HIDE DEF T, S, s
  <2> QED
    BY <1>1, <2>1, <2>2, <2>3, <2>5, <2>6, IdsOfFree DEF S
<1>9. CASE WaitWrites(r)
  <2> DEFINE c == [S.ch EXCEPT !.bcs[r] = TakeChunk(@)]
             T == [S EXCEPT !.ch = c, !.known = TRUE]
  <2>1. s \in DOMAIN sessions /\ S \in Sessions /\ S.ch \in ChannelRecord
    BY <1>3, <1>9 DEF WaitWrites, At, SessionOK
  <2>2. sessions' = [sessions EXCEPT ![s] = T]
    <3>1. sessions' = [sessions EXCEPT ![s].ch.bcs[r] = TakeChunk(@), ![s].known = TRUE]
      BY <1>9 DEF WaitWrites
    <3> QED
      BY <1>1, <2>1, <3>1 DEF Inv, TypeOK
  <2>3. c.state = S.ch.state /\ c.lock = S.ch.lock
    BY <2>1 DEF ChannelRecord
  <2> HIDE DEF c
  <2>4. T.ch = c
    BY <2>1 DEF Sessions
  <2>5. Sent(T) => Sent(S)
    BY <2>3, <2>4 DEF Sent
  <2> HIDE DEF T, S, s
  <2> QED
    BY <1>1, <2>1, <2>2, <2>5, IdsUpdated DEF S
<1>10. CASE WaitReturns(r)
  <2> DEFINE c == [S.ch EXCEPT !.bcs[r] = NewBackChannel(FALSE)]
             T == [S EXCEPT !.ch = c]
  <2>1. s \in DOMAIN sessions /\ S \in Sessions /\ S.ch \in ChannelRecord
    BY <1>3, <1>10 DEF WaitReturns, At, SessionOK
  <2>2. sessions' = [sessions EXCEPT ![s] = T]
    BY <1>10 DEF WaitReturns, SetChannel, Channel
  <2>3. c.state = S.ch.state /\ c.lock = S.ch.lock
    BY <2>1 DEF ChannelRecord
  <2> HIDE DEF c
  <2>4. Sent(T) => Sent(S)
    BY <2>1, <2>3 DEF Sent, Sessions
  <2> HIDE DEF T, S, s
  <2> QED
    BY <1>1, <2>1, <2>2, <2>4, IdsUpdated DEF S
<1>11. CASE Terminate(r)
  <2> DEFINE c == TerminateInternal(S.ch)
  <2>1. req[r].phase = "terminate" /\ S.ch.lock = "free" /\ SetChannel(s, c)
    BY <1>11 DEF Terminate, Locking, At, Channel
  <2>2. SessionOK(S) /\ S.ch \in ChannelRecord /\ Sound(S.ch)
    BY <1>3, <2>1
  <2>3. c.state = S.ch.state
    BY <2>1, <2>2, TerminateInternalProperties DEF Sound, MapChanMatches
  <2> HIDE DEF c, S, s
  <2> QED
    BY <1>4, <2>1, <2>3 DEF S, s
<1> QED
  BY <1>2, <1>5, <1>6, <1>7, <1>8, <1>9, <1>10, <1>11
  DEF RequestStep, Lookup, ReadState, GetState

\* A new session is in the map, and open.
LEMMA CreateIds ==
  ASSUME IdInv, NEW r \in BackChannels, Create(r)
  PROVE  \A t \in channels' : Sent(sessions'[t]) => Queued(t)'
<1>1. PICK sid : sid = Len(sessions) + 1
  OBVIOUS
<1>2. /\ sessions' = Append(sessions, NewSession)
      /\ channels' = channels \union {sid} /\ gcChan' = gcChan
  BY <1>1 DEF Create
<1>3. sessions \in Seq(Sessions) /\ channels \subseteq DOMAIN sessions
  BY DEF IdInv, Inv, TypeOK
<1>4. /\ sessions'[sid] = NewSession
      /\ \A t \in DOMAIN sessions : sessions'[t] = sessions[t]
  <2>1. NewSession \in Sessions
    BY NewChannelSound DEF NewSession, Sessions, Sound, Consistent
  <2> QED
    BY <1>1, <1>2, <1>3, <2>1
<1>5. ~Sent(NewSession)
  BY DEF Sent, NewSession, NewChannel
<1> QED
  BY <1>2, <1>3, <1>4, <1>5 DEF IdInv, Queued

\* The timers, their functions and the heartbeat goroutine do not close the
\* session; what terminateInternal closes is about to be sent.
LEMMA SessionIds ==
  ASSUME IdInv, NEW s \in DOMAIN sessions, SessionStep(s), ~SendToGc(s)
  PROVE  \A t \in channels' : Sent(sessions'[t]) => Queued(t)'
<1> DEFINE S == sessions[s]
<1>1. Inv /\ UNCHANGED <<channels, gcChan>>
  BY DEF IdInv, SessionStep, TimerFires, ChannelTimeoutRuns, ExpirationRuns,
         StopHeartbeat, HeartbeatStops
<1>2. /\ sessions \in Seq(Sessions)
      /\ SessionOK(S) /\ S \in Sessions /\ S.ch \in ChannelRecord
      /\ S.ch.lock = "free" => Sound(S.ch)
  BY <1>1 DEF Inv, TypeOK, SessionOK, ChannelOK, Consistent, Sound
<1>3. ASSUME NEW T, sessions' = [sessions EXCEPT ![s] = T], Sent(T) => Sent(S)
      PROVE  \A t \in channels' : Sent(sessions'[t]) => Queued(t)'
  BY <1>1, <1>3, IdsUpdated
<1>4. CASE TimerFires(s)
  <2> DEFINE c == [S.ch EXCEPT !.channelTimeout = "fired"]
             d == [S.ch EXCEPT !.backChannelExpiration = "fired"]
             T == [S EXCEPT !.ch = c, !.timeoutRuns = 1]
             U == [S EXCEPT !.ch = d, !.expirationRuns = 1]
  <2>1. \/ sessions' = [sessions EXCEPT ![s] = T]
        \/ sessions' = [sessions EXCEPT ![s] = U]
    BY <1>2, <1>4 DEF TimerFires
  <2>2. /\ c.state = S.ch.state /\ c.lock = S.ch.lock
        /\ d.state = S.ch.state /\ d.lock = S.ch.lock
    BY <1>2 DEF ChannelRecord
  <2> HIDE DEF c, d
  <2>3. T.ch = c /\ U.ch = d
    BY <1>2 DEF Sessions
  <2> HIDE DEF T, U, S
  <2> QED
    BY <1>3, <2>1, <2>2, <2>3 DEF Sent
<1>5. CASE ChannelTimeoutRuns(s)
  <2> DEFINE c == TerminateInternal(S.ch)
             T == [S EXCEPT !.ch = c, !.timeoutRuns = 0]
  <2>1. S.ch.lock = "free" /\ sessions' = [sessions EXCEPT ![s] = T]
    BY <1>2, <1>5 DEF ChannelTimeoutRuns, Free
  <2>2. c.state = S.ch.state
    BY <1>2, <2>1, TerminateInternalProperties DEF Sound, MapChanMatches
  <2> HIDE DEF c
  <2>3. T.ch = c
    BY <1>2 DEF Sessions
  <2> HIDE DEF T, S
  <2> QED
    BY <1>3, <2>1, <2>2, <2>3 DEF Sent
<1>6. CASE ExpirationRuns(s)
  <2> DEFINE c == ClearBackChannel(S.ch, FALSE)
             T == [S EXCEPT !.ch = c, !.expirationRuns = 0]
  <2>1. S.ch.lock = "free" /\ sessions' = [sessions EXCEPT ![s] = T]
    BY <1>2, <1>6 DEF ExpirationRuns, Free
  <2>2. c.state = S.ch.state
    BY <1>2, <2>1, ClearBackChannelSound
  <2> HIDE DEF c
  <2>3. T.ch = c
    BY <1>2 DEF Sessions
  <2> HIDE DEF T, S
  <2> QED
    BY <1>3, <2>1, <2>2, <2>3 DEF Sent
<1>7. CASE StopHeartbeat(s)
  <2> DEFINE T == [S EXCEPT !.heartbeatStop = 1, !.ch.state = "closed",
                            !.ch.lock = "gcChan"]
  <2>1. sessions' = [sessions EXCEPT ![s] = T]
    BY <1>2, <1>7 DEF StopHeartbeat
  <2>2. T.ch.lock = "gcChan"
    BY <1>2 DEF Sessions, ChannelRecord
  <2> HIDE DEF T, S
  <2> QED
    BY <1>3, <2>1, <2>2 DEF Sent
<1>8. CASE HeartbeatStops(s)
  <2> DEFINE T == [S EXCEPT !.heartbeat = "exited", !.heartbeatStop = 0]
  <2>1. sessions' = [sessions EXCEPT ![s] = T]
    BY <1>2, <1>8 DEF HeartbeatStops
  <2>2. T.ch = S.ch
    BY <1>2 DEF Sessions
  <2> HIDE DEF T, S
  <2> QED
    BY <1>3, <2>1, <2>2 DEF Sent
<1> QED
  BY <1>4, <1>5, <1>6, <1>7, <1>8 DEF SessionStep

\* gcChan keeps the ids that are in it.
LEMMA SendIds ==
  ASSUME IdInv, NEW s \in DOMAIN sessions, SendToGc(s)
  PROVE  \A t \in channels' : Sent(sessions'[t]) => Queued(t)'
<1>1. /\ gcChan \in Seq(DOMAIN sessions) /\ gcChan' = Append(gcChan, s)
      /\ channels' = channels /\ channels \subseteq DOMAIN sessions
  BY DEF IdInv, Inv, TypeOK, SendToGc
<1>2. /\ Len(gcChan) + 1 \in DOMAIN gcChan' /\ gcChan'[Len(gcChan) + 1] = s
      /\ \A i \in DOMAIN gcChan : i \in DOMAIN gcChan' /\ gcChan'[i] = gcChan[i]
  BY <1>1
<1>3. Queued(s)' /\ \A t : Queued(t) => Queued(t)'
  BY <1>2 DEF Queued
<1>4. \A t \in DOMAIN sessions : t # s => sessions'[t] = sessions[t]
  BY DEF SendToGc, SetChannel, IdInv, Inv, TypeOK
<1> QED
  BY <1>1, <1>3, <1>4 DEF IdInv

\* The id that the collector takes from gcChan it takes out of the map, so that
\* another copy of it does not matter.
LEMMA RemoveIds ==
  ASSUME IdInv, RemoveClosedSession
  PROVE  \A t \in channels' : Sent(sessions'[t]) => Queued(t)'
<1>1. /\ gcChan \in Seq(DOMAIN sessions) /\ gcChan # <<>>
      /\ gcChan' = Tail(gcChan) /\ channels' = channels \ {Head(gcChan)}
      /\ sessions' = sessions
  BY DEF IdInv, Inv, TypeOK, RemoveClosedSession
<1>2. /\ Head(gcChan) = gcChan[1]
      /\ \A i \in DOMAIN gcChan \ {1} :
           i - 1 \in DOMAIN gcChan' /\ gcChan'[i - 1] = gcChan[i]
  BY <1>1
<1>3. \A t : t # Head(gcChan) /\ Queued(t) => Queued(t)'
  BY <1>2 DEF Queued
<1> QED
  BY <1>1, <1>3 DEF IdInv

LEMMA IdStep == IdInv /\ [Next]_vars => IdInv'
<1> SUFFICES ASSUME IdInv, [Next]_vars PROVE IdInv'
  OBVIOUS
<1>1. Inv'
  BY StepKeepsInv DEF IdInv
<1>2. \A t \in channels' : Sent(sessions'[t]) => Queued(t)'
  <2>1. CASE Arrive \/ UNCHANGED vars
    BY <2>1, IdsOfOthers DEF Arrive, vars
  <2>2. ASSUME NEW r \in BackChannels, RequestStep(r)
        PROVE  \A t \in channels' : Sent(sessions'[t]) => Queued(t)'
    BY <2>2, CreateIds, RequestIds
  <2>3. ASSUME NEW s \in DOMAIN sessions, SessionStep(s)
        PROVE  \A t \in channels' : Sent(sessions'[t]) => Queued(t)'
    BY <2>3, SendIds, SessionIds
  <2>4. CASE RemoveClosedSession
    BY <2>4, RemoveIds
  <2> QED
    BY <2>1, <2>2, <2>3, <2>4 DEF Next
<1> QED
  BY <1>1, <1>2 DEF IdInv, Queued

\* A closed session leaves the map: once its lock is free its id is in gcChan,
\* until the collector takes both away, however many more times the session
\* is terminated (terminateInternal and removeClosedSession).
THEOREM NoIdIsForgotten == Spec => []NoIdForgotten
<1>1. Init => IdInv
  BY InitEstablishesInv DEF Init, IdInv
<1>2. IdInv => NoIdForgotten
  BY DEF IdInv, NoIdForgotten, Sent, Queued, Free
<1> QED
  BY <1>1, <1>2, IdStep, PTL DEF Spec

\* Together: no session lacks what ends it, no request what answers it, and no
\* closed session what takes it out of the map.
THEOREM NobodyIsForgotten == Spec => []NobodyForgotten
BY NoSessionIsForgotten, NoRequestIsForgotten, NoIdIsForgotten, PTL
DEF NobodyForgotten
=============================================================================
