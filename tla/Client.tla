------------------------------- MODULE Client -------------------------------
(***************************************************************************)
(* The back channel as the client keeps it: goog.net.BrowserChannel from   *)
(* the connection test to the end, against a server that may end a         *)
(* response, time the session out or close it, over a network that loses   *)
(* requests and responses and may deliver an abandoned request late.       *)
(*                                                                         *)
(* The server is what Channel and Handler say of it, as far as the client  *)
(* can tell: it answers a request with the newest array it has, and ends a *)
(* response that may not be streamed once it carries one.  Arrays are      *)
(* numbered; a response is known by the last one it carries.  What the     *)
(* forward channel carries is the subject of ForwardChannel: here a POST   *)
(* matters for its answer only, the state of the back channel.             *)
(***************************************************************************)
EXTENDS TestChannel

CONSTANTS
  MaxRetries,  \* BACK_CHANNEL_MAX_RETRIES: 3
  MaxArrays    \* bound of the model: arrays before the stop array

\* Without any retry the dead timer could outlive its request; the code has three.
ASSUME ClientAssumption ==
  MaxRetries \in Nat \ {0} /\ MaxArrays \in Nat \ {0}

VARIABLES
  state,        \* state_
  lastArrayId,  \* lastArrayId_
  backReq,      \* backChannelRequest_: none, or where the request is
  backTimer,    \* TRUE if backChannelTimerId_ is set
  retryCount,   \* backChannelRetryCount_
  deadTimer,    \* TRUE if deadBackChannelTimerId_ is set
  post,         \* forwardChannelRequest_ after the open, or its answer
  postSent,     \* the last sent array id in that answer
  older,        \* TRUE if backReq started RTT_ESTIMATE before the POST
  reentered,    \* TRUE if channelOpened called disconnect
  server,       \* the session at the server
  bc,           \* its back channel: none, that of backReq, or an abandoned one
  sent,         \* lastArrayId of the server
  stopped,      \* TRUE if the last of its arrays is 'stop'
  up,           \* last array in the response to backReq, 0 if it is empty
  late,         \* TRUE if an abandoned request may still arrive
  terminate     \* TRUE if a terminate request is on its way

backVars == <<state, lastArrayId, backReq, backTimer, retryCount, deadTimer, up>>
postVars == <<post, postSent, older>>
serverVars == <<server, bc, sent, stopped>>
vars == <<testVars, backVars, postVars, reentered, serverVars, late, terminate>>

TypeOK ==
  /\ TestTypeOK
  /\ state \in {"INIT", "OPENING", "OPENED", "CLOSED"}
  /\ lastArrayId \in -1..MaxArrays + 1
  /\ backReq \in {"none", "sent", "held", "ended", "unknown", "lost"}
  /\ backTimer \in BOOLEAN
  /\ retryCount \in 0..MaxRetries
  /\ deadTimer \in BOOLEAN
  /\ post \in {"none", "sent", "missing", "present", "rejected"}
  /\ postSent \in 0..MaxArrays + 1
  /\ older \in BOOLEAN
  /\ reentered \in BOOLEAN
  /\ server \in {"none", "open", "writeClosed", "closed", "unknown"}
  /\ bc \in {"none", "current", "stale"}
  /\ sent \in 0..MaxArrays + 1
  /\ stopped \in BOOLEAN
  /\ up \in 0..MaxArrays + 1
  /\ late \in BOOLEAN
  /\ terminate \in BOOLEAN
  /\ bc = "current" <=> backReq = "held"

Init ==
  /\ TestInit
  /\ state = "INIT"
  /\ lastArrayId = -1
  /\ backReq = "none"
  /\ backTimer = FALSE
  /\ retryCount = 0
  /\ deadTimer = FALSE
  /\ post = "none"
  /\ postSent = 0
  /\ older = FALSE
  /\ reentered = FALSE
  /\ server = "none"
  /\ bc = "none"
  /\ sent = 0
  /\ stopped = FALSE
  /\ up = 0
  /\ late = FALSE
  /\ terminate = FALSE

-----------------------------------------------------------------------------
(***************************************************************************)
(* Parts of the client's methods.                                          *)
(***************************************************************************)

\* What becomes of a GET the client gives up: one the server holds it goes on
\* holding, one under way may still get there.
AbandonGet ==
  /\ bc' = IF backReq = "held" THEN "stale" ELSE bc
  /\ late' \in {late, late \/ backReq = "sent"}

\* Mutant: the requests go on.
KeepRequests ==
  UNCHANGED <<backReq, backTimer, deadTimer, post, postSent, older, up, bc, late>>

CancelRequests ==
  /\ AbandonGet
  /\ backReq' = "none"
  /\ up' = 0
  /\ backTimer' = FALSE
  /\ deadTimer' = FALSE
  /\ post' = "none"
  /\ postSent' = 0
  /\ older' = FALSE

\* signalError_ and onError_.
SignalError ==
  /\ state' = "CLOSED"
  /\ CancelRequests
  /\ UNCHANGED <<lastArrayId, retryCount>>

\* Mutant: off by one.
CanRetryOnceMore == retryCount <= MaxRetries

CanRetry == retryCount < MaxRetries

\* The part of maybeRetryBackChannel_ that schedules a retry.
ScheduleRetry ==
  /\ backTimer' = TRUE
  /\ retryCount' = retryCount + 1

\* The request is gone, and with it the dead timer.
DropRequest ==
  /\ AbandonGet
  /\ backReq' = "none"
  /\ up' = 0
  /\ deadTimer' = FALSE

-----------------------------------------------------------------------------
(***************************************************************************)
(* The connection test and the opening.                                    *)
(***************************************************************************)

\* testConnectionFinished, connectChannel_ and open_.
Connect ==
  /\ state = "INIT"
  /\ TestEarly \/ TestComplete
  /\ state' = "OPENING"
  /\ UNCHANGED <<lastArrayId, backReq, backTimer, retryCount, deadTimer, up,
                 postVars, reentered, serverVars, late, terminate>>

Test ==
  /\ state = "INIT"
  /\ StageOneComplete \/ HandleTestRequest \/ TestIntermediate
  /\ UNCHANGED <<backVars, postVars, reentered, serverVars, late, terminate>>

\* testConnectionFailure.
ConnectFails ==
  /\ state = "INIT"
  /\ TestFails
  /\ SignalError
  /\ UNCHANGED <<reentered, server, sent, stopped, terminate>>

\* handleBindPost of the first request, whose response carries 'c' alone.
ServerOpens ==
  /\ state = "OPENING"
  /\ server = "none"
  /\ server' = "open"
  /\ sent' = 1
  /\ UNCHANGED <<testVars, backVars, postVars, reentered, bc, stopped, late, terminate>>

\* onInput_ of the 'c' array.  channelOpened may call disconnect: the channel
\* is then closed and ensureBackChannel_ starts the timer all the same.
Opened(disconnect) ==
  /\ state = "OPENING"
  /\ server # "none"
  /\ lastArrayId' = 1
  /\ state' = IF disconnect THEN "CLOSED" ELSE "OPENED"
  /\ reentered' = disconnect
  /\ terminate' = disconnect
  /\ backTimer' = TRUE
  /\ retryCount' = 0
  /\ UNCHANGED <<testVars, backReq, deadTimer, up, postVars, serverVars, late>>

-----------------------------------------------------------------------------
(***************************************************************************)
(* The back channel.                                                       *)
(***************************************************************************)

\* onStartBackChannelTimer_ and startBackChannel_, which look at no state.
StartBackChannel ==
  /\ backTimer
  /\ backTimer' = FALSE
  /\ backReq' = "sent"
  /\ up' = 0
  /\ older' = FALSE
  /\ UNCHANGED <<testVars, state, lastArrayId, retryCount, deadTimer, post, postSent,
                 reentered, serverVars, late, terminate>>

HasArrays ==
  \/ backReq = "held" /\ ~buffered
  \/ backReq = "ended"

\* onRequestData of the back channel, and onInput_.
BackData ==
  /\ state = "OPENED"
  /\ HasArrays
  /\ up > lastArrayId
  /\ ~(stopped /\ up = sent)
  /\ lastArrayId' = up
  /\ retryCount' = 0
  /\ deadTimer' = FALSE
  /\ UNCHANGED <<testVars, state, backReq, backTimer, up, postVars, reentered,
                 serverVars, late, terminate>>

\* onInput_ of the 'stop' array.
BackStop ==
  /\ state = "OPENED"
  /\ HasArrays
  /\ up > lastArrayId
  /\ stopped /\ up = sent
  /\ SignalError
  /\ UNCHANGED <<testVars, reentered, server, sent, stopped, terminate>>

\* A response without text is an error, unless it is HTML.
Succeeds == up > 0 \/ browser = "trident"

\* Mutant: the channel waits for the application to ask for more.
CompletesWithoutNext ==
  /\ state = "OPENED"
  /\ backReq = "ended"
  /\ up <= lastArrayId
  /\ Succeeds
  /\ DropRequest
  /\ UNCHANGED <<testVars, state, lastArrayId, backTimer, retryCount, postVars,
                 reentered, server, sent, stopped, terminate>>

\* onRequestComplete of a back channel that succeeded, and ensureBackChannel_.
BackCompletes ==
  /\ state = "OPENED"
  /\ backReq = "ended"
  /\ up <= lastArrayId
  /\ Succeeds
  /\ DropRequest
  /\ backTimer' = TRUE
  /\ retryCount' = 0
  /\ UNCHANGED <<testVars, state, lastArrayId, postVars, reentered, server, sent,
                 stopped, terminate>>

\* onRequestComplete of one that failed, but not for good.
RetryOrGiveUp ==
  \/ /\ CanRetry
     /\ DropRequest
     /\ ScheduleRetry
     /\ UNCHANGED <<testVars, state, lastArrayId, postVars, reentered, server, sent,
                    stopped, terminate>>
  \/ /\ ~CanRetry
     /\ SignalError
     /\ UNCHANGED <<testVars, reentered, server, sent, stopped, terminate>>

BackEmpty ==
  /\ state = "OPENED"
  /\ backReq = "ended"
  /\ ~Succeeds
  /\ RetryOrGiveUp

\* The browser reports that the connection broke.
BackBreaks ==
  /\ state = "OPENED"
  /\ backReq \in {"sent", "held", "ended", "lost"}
  /\ RetryOrGiveUp

\* Mutant: the watchdog starts with the first data.
WatchDogAfterData ==
  /\ state = "OPENED"
  /\ backReq = "lost"
  /\ up > 0
  /\ RetryOrGiveUp

\* onWatchDogTimeout_: nothing came for TIMEOUT_MS.  An HTML request does not
\* learn of an error status but in this way.
WatchDog ==
  /\ state = "OPENED"
  /\ backReq = "lost" \/ (backReq = "unknown" /\ browser = "trident")
  /\ RetryOrGiveUp

\* A fatal error: the server does not know the session.
BackUnknown ==
  /\ state = "OPENED"
  /\ backReq = "unknown"
  /\ browser = "xhr"
  /\ SignalError
  /\ UNCHANGED <<testVars, reentered, server, sent, stopped, terminate>>

\* onRequestComplete when the channel is closed; a failure is not even told.
BackCompletesClosed ==
  /\ state = "CLOSED"
  /\ backReq = "ended"
  /\ Succeeds
  /\ DropRequest
  /\ UNCHANGED <<testVars, state, lastArrayId, backTimer, retryCount, postVars,
                 reentered, server, sent, stopped, terminate>>

\* onBackChannelDead_.  A timer of no delay fires before one of two RTTs.
BackChannelDead ==
  /\ deadTimer
  /\ ~backTimer
  /\ DropRequest
  /\ IF CanRetry THEN ScheduleRetry ELSE UNCHANGED <<backTimer, retryCount>>
  /\ UNCHANGED <<testVars, state, lastArrayId, postVars, reentered, server, sent,
                 stopped, terminate>>

\* disconnect.
Disconnect ==
  /\ state # "CLOSED"
  /\ state' = "CLOSED"
  /\ CancelRequests
  /\ terminate' = (state = "OPENED")
  /\ UNCHANGED <<testVars, lastArrayId, retryCount, reentered, server, sent, stopped>>

-----------------------------------------------------------------------------
(***************************************************************************)
(* A POST and its answer.                                                  *)
(***************************************************************************)

Post ==
  /\ state = "OPENED"
  /\ post = "none"
  /\ post' = "sent"
  /\ older' \in {FALSE, backReq # "none"}
  /\ UNCHANGED <<testVars, backVars, postSent, reentered, serverVars, late, terminate>>

\* getState.
ServerAnswersPost ==
  /\ post = "sent"
  /\ IF server = "unknown"
       THEN post' = "rejected" /\ UNCHANGED postSent
       ELSE /\ post' = IF bc = "none" THEN "missing" ELSE "present"
            /\ postSent' = sent
  /\ UNCHANGED <<testVars, backVars, older, reentered, serverVars, late, terminate>>

PostDone == post' = "none" /\ postSent' = 0 /\ older' = FALSE

\* handlePostResponse_ when the server has a back channel.  This client has
\* fewer outstanding bytes than the limit at all times.
ShouldRetryBackChannel == useChunked /\ retryCount = 0

BackChannelPresent ==
  /\ post = "present"
  /\ deadTimer' = (deadTimer \/ (postSent > lastArrayId /\ ShouldRetryBackChannel))
  /\ UNCHANGED <<backReq, backTimer, retryCount, up, bc, late>>

\* handleBackchannelMissing_.
RetriesAtMissing == ~backTimer /\ (backReq = "none" \/ older)

\* Mutant: clearDeadBackchannelTimer_ is forgotten.
MissingKeepsDeadTimer ==
  /\ post = "missing"
  /\ IF ~RetriesAtMissing
       THEN UNCHANGED <<backReq, backTimer, retryCount, deadTimer, up, bc, late>>
       ELSE /\ AbandonGet
            /\ backReq' = "none"
            /\ up' = 0
            /\ UNCHANGED deadTimer
            /\ IF CanRetry THEN ScheduleRetry ELSE UNCHANGED <<backTimer, retryCount>>

BackChannelMissing ==
  /\ post = "missing"
  /\ IF ~RetriesAtMissing
       THEN UNCHANGED <<backReq, backTimer, retryCount, deadTimer, up, bc, late>>
       ELSE /\ AbandonGet
            /\ backReq' = "none"
            /\ up' = 0
            /\ deadTimer' = (deadTimer /\ backReq = "none")
            /\ IF CanRetry THEN ScheduleRetry ELSE UNCHANGED <<backTimer, retryCount>>

PostAnswered ==
  /\ BackChannelPresent \/ BackChannelMissing
  /\ PostDone
  /\ UNCHANGED <<testVars, state, lastArrayId, reentered, server, sent, stopped, terminate>>

\* onRequestComplete of a forward channel request that failed: it is posted
\* again, until its retries are used up.
PostFails ==
  /\ post # "none"
  /\ post # "rejected"
  /\ PostDone
  /\ UNCHANGED <<testVars, backVars, reentered, serverVars, late, terminate>>

PostRejected ==
  /\ post \in {"sent", "rejected"}
  /\ SignalError
  /\ UNCHANGED <<testVars, reentered, server, sent, stopped, terminate>>

-----------------------------------------------------------------------------
(***************************************************************************)
(* The network and the server.                                             *)
(***************************************************************************)

Unchanged == UNCHANGED <<testVars, state, lastArrayId, backTimer, retryCount,
                         deadTimer, postVars, reentered, terminate>>

\* handleBindGet of backReq.  It replaces the back channel of the session, and
\* flush writes what the client has not got.  The response ends there if it may
\* not be streamed, is long already, or carries 'stop'.
GetSetsBackChannel ==
  /\ backReq = "sent"
  /\ server \in {"open", "writeClosed"}
  /\ up' = IF sent > lastArrayId THEN sent ELSE 0
  /\ \E ends \in BOOLEAN :
       /\ ends => up' > 0
       /\ up' > 0 /\ (~useChunked \/ stopped) => ends
       /\ backReq' = IF ends THEN "ended" ELSE "held"
       /\ bc' = IF ends THEN "none" ELSE "current"
  /\ server' = IF stopped THEN "closed" ELSE server
  /\ Unchanged
  /\ UNCHANGED <<sent, stopped, late>>

\* The session is closed, or not in the session map.
GetComesTooLate ==
  /\ backReq = "sent"
  /\ server \in {"closed", "unknown"}
  /\ backReq' = IF server = "closed" THEN "ended" ELSE "unknown"
  /\ Unchanged
  /\ UNCHANGED <<up, serverVars, late>>

\* The network loses the request, or the rest of its response.
GetLost ==
  /\ backReq \in {"sent", "held", "ended", "unknown"}
  /\ backReq' = "lost"
  /\ bc' = IF backReq = "held" THEN "stale" ELSE bc
  /\ Unchanged
  /\ UNCHANGED <<up, server, sent, stopped, late>>

GetUnderWay == GetSetsBackChannel \/ GetComesTooLate \/ (backReq = "sent" /\ GetLost)

\* Mutant: a session that is closed takes the back channel.
LateGetWhenKnown ==
  /\ late
  /\ late' = FALSE
  /\ IF server # "unknown"
       THEN /\ backReq' = IF backReq = "held" THEN "ended" ELSE backReq
            /\ bc' \in {"none", "stale"}
            /\ server' = IF stopped THEN "closed" ELSE server
       ELSE UNCHANGED <<backReq, server, bc>>
  /\ Unchanged
  /\ UNCHANGED <<up, sent, stopped>>

\* An abandoned GET arrives after all: it takes the place of a newer one.
LateGet ==
  /\ late
  /\ late' = FALSE
  /\ IF server \in {"open", "writeClosed"}
       THEN /\ backReq' = IF backReq = "held" THEN "ended" ELSE backReq
            /\ bc' \in {"none", "stale"}
            /\ server' = IF stopped THEN "closed" ELSE server
            /\ stopped => bc' = "none"
       ELSE UNCHANGED <<backReq, server, bc>>
  /\ Unchanged
  /\ UNCHANGED <<up, sent, stopped>>

\* What the server does with its back channel once it has written to it.  If
\* the data channel is full, send fails: what it holds is the last that comes.
Written(ends, fits) ==
  /\ fits \/ (useChunked /\ ends)
  /\ backReq' = IF ends /\ bc = "current" THEN "ended" ELSE backReq
  /\ bc' = IF ends THEN "none" ELSE bc
  /\ up' = IF bc = "current" /\ fits THEN sent' ELSE up

\* SendArray by the application or the heartbeat.  A response that may not be
\* streamed ends; one that may, if it is long.
ServerSends ==
  /\ server = "open"
  /\ sent < MaxArrays
  /\ sent' = sent + 1
  /\ \E ends, fits \in BOOLEAN : (~useChunked => ends) /\ Written(ends, fits)
  /\ Unchanged
  /\ UNCHANGED <<server, stopped, late>>

\* Close by the application, which ends the session if 'stop' can be sent.
ServerCloses ==
  /\ server = "open"
  /\ sent' = sent + 1
  /\ stopped' = TRUE
  /\ \E fits \in BOOLEAN :
       /\ Written(TRUE, fits)
       /\ server' = IF bc = "none" \/ ~fits THEN "writeClosed" ELSE "closed"
  /\ Unchanged
  /\ UNCHANGED late

\* The back channel expires, or the session does when it has none, or a
\* terminate request arrives.
Clear(s) ==
  /\ server' = s
  /\ bc' = "none"
  /\ backReq' = IF bc = "current" THEN "ended" ELSE backReq

ServerEnds ==
  /\ server \in {"open", "writeClosed"}
  /\ Clear(IF bc = "none" THEN "closed" ELSE server)
  /\ Unchanged
  /\ UNCHANGED <<up, sent, stopped, late>>

ServerTerminates ==
  /\ terminate
  /\ terminate' = FALSE
  /\ IF server \in {"open", "writeClosed"}
       THEN Clear("closed")
       ELSE UNCHANGED <<server, bc, backReq>>
  /\ UNCHANGED <<testVars, state, lastArrayId, backTimer, retryCount, deadTimer,
                 up, postVars, reentered, sent, stopped, late>>

ServerRemoves ==
  /\ server = "closed"
  /\ server' = "unknown"
  /\ Unchanged
  /\ UNCHANGED <<backReq, up, bc, sent, stopped, late>>

-----------------------------------------------------------------------------
BackDone == BackData \/ BackStop \/ BackCompletes \/ BackEmpty \/ BackUnknown

Next ==
  \/ Connect \/ Test \/ ConnectFails
  \/ ServerOpens
  \/ \E disconnect \in BOOLEAN : Opened(disconnect)
  \/ StartBackChannel
  \/ BackDone \/ BackBreaks \/ WatchDog \/ BackCompletesClosed
  \/ BackChannelDead
  \/ Disconnect
  \/ Post \/ ServerAnswersPost \/ PostAnswered \/ PostFails \/ PostRejected
  \/ GetSetsBackChannel \/ GetComesTooLate \/ GetLost \/ LateGet
  \/ ServerSends \/ ServerCloses \/ ServerEnds \/ ServerTerminates \/ ServerRemoves

Spec == Init /\ [][Next]_vars

\* Timers fire, the client sees to a response it has, a request that is sent
\* arrives or is lost, and a closed session is collected.
FairSpec ==
  /\ Spec
  /\ WF_vars(StartBackChannel)
  /\ WF_vars(BackDone)
  /\ WF_vars(WatchDog)
  /\ WF_vars(GetUnderWay)
  /\ WF_vars(ServerRemoves)

-----------------------------------------------------------------------------
\* The test finds the network that does not buffer: the flush in
\* handleTestRequest, whose comment says what happens without it.
FlushKeepsStreaming == test = "finished" /\ ~buffered => useChunked

\* Behind a network that buffers, no response is held open once it carries an
\* array: the client would not see it until the back channel expires.
NoDataHeldBack == buffered /\ backReq = "held" => up = 0

\* The server of this module is a session as Channel and Handler implement it.
SessionLife == INSTANCE Session WITH
  status <- CASE server = "none" -> "init"
              [] server = "open" -> "ready"
              [] OTHER -> server,
  streaming <- bc # "none"

ImplementsSession == SessionLife!Spec

\* Once the retries that a missing back channel costs are used up, nothing
\* starts another one.
Exhausted == retryCount = MaxRetries /\ backReq = "none" /\ ~backTimer

\* An open channel has a back channel or is about to start one, whatever way
\* the last one ended.
BackChannelKept ==
  state = "OPENED" => backReq # "none" \/ backTimer \/ Exhausted

\* onBackChannelDead_ cancels the request without asking whether there is one:
\* when the timer fires, there is.
DeadTimerHasRequest ==
  deadTimer => backReq # "none" \/ (backTimer /\ retryCount = 0)

\* A closed channel makes no more requests and has no timer, unless it was
\* closed from channelOpened: ensureBackChannel_ then comes after the end.
ClosedIsQuiet ==
  state = "CLOSED" /\ ~reentered =>
    backReq = "none" /\ ~backTimer /\ ~deadTimer /\ post = "none"

\* However requests are lost, delayed or replaced, the client gets its back
\* channel again or the channel is closed.
BackChannelReturns ==
  []<>(state = "OPENED" => \/ backReq = "held"
                           \/ backReq = "ended" /\ up > 0
                           \/ Exhausted)
=============================================================================
