---------------------------- MODULE ClientProofs ----------------------------
(***************************************************************************)
(* Proofs about Client: its type invariant and its safety invariants hold  *)
(* whatever the number of retries and of arrays.  The conjuncts of Inv     *)
(* come first, then one lemma per action with a step per conjunct, then    *)
(* the theorems.  The last section shows that its server is a Session.     *)
(***************************************************************************)
EXTENDS Client, TLAPS

\* How far the connection test is, and what it has found out.
TestOrder ==
  /\ test = "stage1" => written = 0
  /\ buffered => test # "intermediate" /\ ~useChunked
  /\ ~buffered /\ written = 2 => test # "stage2"

TestPart == TestTypeOK /\ TestOrder /\ FlushKeepsStreaming

\* TypeOK, by the kind of the variables.
Where ==
  /\ state \in {"INIT", "OPENING", "OPENED", "CLOSED"}
  /\ backReq \in {"none", "sent", "held", "ended", "unknown", "lost"}
  /\ post \in {"none", "sent", "missing", "present", "rejected"}
  /\ server \in {"none", "open", "writeClosed", "closed", "unknown"}
  /\ bc \in {"none", "current", "stale"}
  /\ bc = "current" <=> backReq = "held"

Numbers ==
  /\ lastArrayId \in -1..MaxArrays + 1
  /\ retryCount \in 0..MaxRetries
  /\ postSent \in 0..MaxArrays + 1
  /\ sent \in 0..MaxArrays + 1
  /\ up \in 0..MaxArrays + 1

Flags ==
  /\ backTimer \in BOOLEAN
  /\ deadTimer \in BOOLEAN
  /\ older \in BOOLEAN
  /\ reentered \in BOOLEAN
  /\ stopped \in BOOLEAN
  /\ late \in BOOLEAN
  /\ terminate \in BOOLEAN

Quiet == backReq = "none" /\ ~backTimer /\ ~deadTimer /\ post = "none"

\* What the code may rely on by the state of the channel: requests and timers
\* belong to an open one, and the timer of a back channel excludes a request.
Stages ==
  /\ state \in {"INIT", "OPENING"} => Quiet
  /\ post # "none" \/ deadTimer => state = "OPENED"
  /\ reentered => state = "CLOSED"
  /\ backTimer => backReq = "none"
  /\ server = "open" => sent <= MaxArrays

Inv ==
  /\ TypeOK
  /\ TestOrder
  /\ Stages
  /\ FlushKeepsStreaming
  /\ NoDataHeldBack
  /\ BackChannelKept
  /\ DeadTimerHasRequest
  /\ ClosedIsQuiet

USE ClientAssumption

\* The parts make up the invariant.
LEMMA InvFromParts ==
  ASSUME TestPart', Where', Numbers', Flags', Stages', NoDataHeldBack',
         BackChannelKept', DeadTimerHasRequest', ClosedIsQuiet'
  PROVE  Inv'
BY DEF Inv, TypeOK, TestPart, Where, Numbers, Flags

\* Only the test moves the variables of the test.
LEMMA TestKept == ASSUME Inv, UNCHANGED testVars PROVE TestPart'
BY DEF Inv, TypeOK, TestPart, TestTypeOK, TestOrder, FlushKeepsStreaming, testVars

\* The test ends and the channel starts to open: the test channel has the verdict.
LEMMA ConnectKeepsInv == ASSUME Inv, Connect PROVE Inv'
<1>1. TestPart'
  <2>1. CASE TestEarly
    BY <2>1, SMT DEF Inv, TypeOK, TestPart, TestTypeOK, TestOrder,
        FlushKeepsStreaming, TestEarly, TestFinished
  <2>2. CASE TestComplete
    <3>1. test' = "finished" /\ useChunked' = (test = "intermediate")
      BY <2>2, Zenon DEF TestComplete, TestFinished
    <3>2. UNCHANGED <<browser, buffered, written>> /\ written = 2
      BY <2>2, Zenon DEF TestComplete, TestFinished
    <3>3. test \in {"stage2", "intermediate"}
      BY <2>2, Zenon DEF TestComplete
    <3>4. useChunked' \in BOOLEAN
      BY <3>1, Zenon
    <3>5. TestTypeOK'
      BY <3>1, <3>2, <3>4 DEF Inv, TypeOK, TestTypeOK
    <3>6. buffered => ~useChunked'
      BY <3>1, Zenon DEF Inv, TestOrder
    <3>7. ~buffered => useChunked'
      BY <3>1, <3>2, <3>3, Zenon DEF Inv, TestOrder
    <3>8. TestOrder'
      BY <3>1, <3>2, <3>6, SMT DEF TestOrder
    <3>9. FlushKeepsStreaming'
      BY <3>2, <3>7, Zenon DEF FlushKeepsStreaming
    <3> QED
      BY <3>5, <3>8, <3>9 DEF TestPart
  <2> QED
    BY <2>1, <2>2 DEF Connect
<1>2. Where'
  BY SMT DEF Inv, TypeOK, Stages, Where, Connect, TestEarly, TestFinished,
        TestComplete, postVars, serverVars
<1>3. Numbers'
  BY SMT DEF Inv, TypeOK, Stages, Numbers, Connect, TestEarly, TestFinished,
        TestComplete, postVars, serverVars
<1>4. Flags'
  BY Zenon DEF Inv, TypeOK, Flags, Connect, TestEarly, TestFinished, TestComplete,
        postVars, serverVars
<1>5. Stages'
  BY SMT DEF Inv, TypeOK, Stages, Quiet, Connect, TestEarly, TestFinished,
        TestComplete, postVars, serverVars
<1>6. NoDataHeldBack'
  BY SMT DEF Inv, TypeOK, TestOrder, Stages, Quiet, NoDataHeldBack, Connect,
        TestEarly, TestFinished, TestComplete, postVars, serverVars
<1>7. BackChannelKept'
  BY SMT DEF Inv, TypeOK, Stages, Quiet, BackChannelKept, Exhausted, Connect,
        TestEarly, TestFinished, TestComplete, postVars, serverVars
<1>8. DeadTimerHasRequest'
  BY SMT DEF Inv, TypeOK, Stages, Quiet, BackChannelKept, Exhausted,
        DeadTimerHasRequest, Connect, TestEarly, TestFinished, TestComplete,
        postVars, serverVars
<1>9. ClosedIsQuiet'
  BY SMT DEF Inv, TypeOK, Stages, Quiet, ClosedIsQuiet, Connect, TestEarly,
        TestFinished, TestComplete, postVars, serverVars
<1> QED
  BY <1>1, <1>2, <1>3, <1>4, <1>5, <1>6, <1>7, <1>8, <1>9, InvFromParts

\* A step of the test touches no other variable.
LEMMA TestKeepsInv == ASSUME Inv, Test PROVE Inv'
<1>1. TestPart'
  BY SMT DEF Inv, TypeOK, Stages, TestPart, TestTypeOK, TestOrder,
        FlushKeepsStreaming, Test, StageOneComplete, HandleTestRequest,
        TestIntermediate, backVars, postVars, serverVars
<1>2. Where'
  BY SMT DEF Inv, TypeOK, Stages, Where, Test, StageOneComplete, HandleTestRequest,
        TestIntermediate, backVars, postVars, serverVars
<1>3. Numbers'
  BY SMT DEF Inv, TypeOK, Stages, Numbers, Test, StageOneComplete,
        HandleTestRequest, TestIntermediate, backVars, postVars, serverVars
<1>4. Flags'
  BY Zenon DEF Inv, TypeOK, Flags, Test, StageOneComplete, HandleTestRequest,
        TestIntermediate, backVars, postVars, serverVars
<1>5. Stages'
  BY SMT DEF Inv, TypeOK, Stages, Quiet, Test, StageOneComplete, HandleTestRequest,
        TestIntermediate, backVars, postVars, serverVars
<1>6. NoDataHeldBack'
  BY SMT DEF Inv, TypeOK, TestOrder, Stages, Quiet, NoDataHeldBack, Test,
        StageOneComplete, HandleTestRequest, TestIntermediate, backVars, postVars,
        serverVars
<1>7. BackChannelKept'
  BY SMT DEF Inv, TypeOK, Stages, Quiet, BackChannelKept, Exhausted, Test,
        StageOneComplete, HandleTestRequest, TestIntermediate, backVars, postVars,
        serverVars
<1>8. DeadTimerHasRequest'
  BY SMT DEF Inv, TypeOK, Stages, Quiet, BackChannelKept, Exhausted,
        DeadTimerHasRequest, Test, StageOneComplete, HandleTestRequest,
        TestIntermediate, backVars, postVars, serverVars
<1>9. ClosedIsQuiet'
  BY SMT DEF Inv, TypeOK, Stages, Quiet, ClosedIsQuiet, Test, StageOneComplete,
        HandleTestRequest, TestIntermediate, backVars, postVars, serverVars
<1> QED
  BY <1>1, <1>2, <1>3, <1>4, <1>5, <1>6, <1>7, <1>8, <1>9, InvFromParts

\* The test fails and the channel is closed.
LEMMA ConnectFailsKeepsInv == ASSUME Inv, ConnectFails PROVE Inv'
<1>1. TestPart'
  BY SMT DEF Inv, TypeOK, Stages, TestPart, TestTypeOK, TestOrder,
        FlushKeepsStreaming, ConnectFails, TestFails, SignalError, CancelRequests,
        AbandonGet
<1>2. Where'
  BY SMT DEF Inv, TypeOK, Stages, Where, ConnectFails, TestFails, SignalError,
        CancelRequests, AbandonGet
<1>3. Numbers'
  BY SMT DEF Inv, TypeOK, Stages, Numbers, ConnectFails, TestFails, SignalError,
        CancelRequests, AbandonGet
<1>4. Flags'
  BY Zenon DEF Inv, TypeOK, Flags, ConnectFails, TestFails, SignalError,
        CancelRequests, AbandonGet
<1>5. Stages'
  BY SMT DEF Inv, TypeOK, Stages, Quiet, ConnectFails, TestFails, SignalError,
        CancelRequests, AbandonGet
<1>6. NoDataHeldBack'
  BY SMT DEF Inv, TypeOK, TestOrder, Stages, Quiet, NoDataHeldBack, ConnectFails,
        TestFails, SignalError, CancelRequests, AbandonGet
<1>7. BackChannelKept'
  BY SMT DEF Inv, TypeOK, Stages, Quiet, BackChannelKept, Exhausted, ConnectFails,
        TestFails, SignalError, CancelRequests, AbandonGet
<1>8. DeadTimerHasRequest'
  BY SMT DEF Inv, TypeOK, Stages, Quiet, BackChannelKept, Exhausted,
        DeadTimerHasRequest, ConnectFails, TestFails, SignalError, CancelRequests,
        AbandonGet
<1>9. ClosedIsQuiet'
  BY SMT DEF Inv, TypeOK, Stages, Quiet, ClosedIsQuiet, ConnectFails, TestFails,
        SignalError, CancelRequests, AbandonGet
<1> QED
  BY <1>1, <1>2, <1>3, <1>4, <1>5, <1>6, <1>7, <1>8, <1>9, InvFromParts

\* The server answers the first request.
LEMMA ServerOpensKeepsInv == ASSUME Inv, ServerOpens PROVE Inv'
<1>1. TestPart'
  BY TestKept DEF ServerOpens, testVars, backVars, postVars
<1>2. Where'
  BY SMT DEF Inv, TypeOK, Stages, Where, ServerOpens, testVars, backVars, postVars
<1>3. Numbers'
  BY SMT DEF Inv, TypeOK, Stages, Numbers, ServerOpens, testVars, backVars, postVars
<1>4. Flags'
  BY Zenon DEF Inv, TypeOK, Flags, ServerOpens, testVars, backVars, postVars
<1>5. Stages'
  BY SMT DEF Inv, TypeOK, Stages, Quiet, ServerOpens, testVars, backVars, postVars
<1>6. NoDataHeldBack'
  BY SMT DEF Inv, TypeOK, TestOrder, Stages, Quiet, NoDataHeldBack, ServerOpens,
        testVars, backVars, postVars
<1>7. BackChannelKept'
  BY SMT DEF Inv, TypeOK, Stages, Quiet, BackChannelKept, Exhausted, ServerOpens,
        testVars, backVars, postVars
<1>8. DeadTimerHasRequest'
  BY SMT DEF Inv, TypeOK, Stages, Quiet, BackChannelKept, Exhausted,
        DeadTimerHasRequest, ServerOpens, testVars, backVars, postVars
<1>9. ClosedIsQuiet'
  BY SMT DEF Inv, TypeOK, Stages, Quiet, ClosedIsQuiet, ServerOpens, testVars,
        backVars, postVars
<1> QED
  BY <1>1, <1>2, <1>3, <1>4, <1>5, <1>6, <1>7, <1>8, <1>9, InvFromParts

\* The client gets the c array, and may be closed again by the page.
LEMMA OpenedKeepsInv == ASSUME Inv, NEW disconnect \in BOOLEAN, Opened(disconnect) PROVE Inv'
<1>1. TestPart'
  BY TestKept DEF Opened, testVars, postVars, serverVars
<1>2. Where'
  BY SMT DEF Inv, TypeOK, Stages, Where, Opened, testVars, postVars, serverVars
<1>3. Numbers'
  BY SMT DEF Inv, TypeOK, Stages, Numbers, Opened, testVars, postVars, serverVars
<1>4. Flags'
  BY Zenon DEF Inv, TypeOK, Flags, Opened, testVars, postVars, serverVars
<1>5. Stages'
  BY SMT DEF Inv, TypeOK, Stages, Quiet, Opened, testVars, postVars, serverVars
<1>6. NoDataHeldBack'
  BY SMT DEF Inv, TypeOK, TestOrder, Stages, Quiet, NoDataHeldBack, Opened,
        testVars, postVars, serverVars
<1>7. BackChannelKept'
  BY SMT DEF Inv, TypeOK, Stages, Quiet, BackChannelKept, Exhausted, Opened,
        testVars, postVars, serverVars
<1>8. DeadTimerHasRequest'
  BY SMT DEF Inv, TypeOK, Stages, Quiet, BackChannelKept, Exhausted,
        DeadTimerHasRequest, Opened, testVars, postVars, serverVars
<1>9. ClosedIsQuiet'
  BY SMT DEF Inv, TypeOK, Stages, Quiet, ClosedIsQuiet, Opened, testVars, postVars,
        serverVars
<1> QED
  BY <1>1, <1>2, <1>3, <1>4, <1>5, <1>6, <1>7, <1>8, <1>9, InvFromParts

\* The timer starts a request: there was none, so none is forgotten.
LEMMA StartBackChannelKeepsInv == ASSUME Inv, StartBackChannel PROVE Inv'
<1>1. TestPart'
  BY TestKept DEF StartBackChannel, testVars, serverVars
<1>2. Where'
  BY SMT DEF Inv, TypeOK, Stages, Where, StartBackChannel, testVars, serverVars
<1>3. Numbers'
  BY SMT DEF Inv, TypeOK, Stages, Numbers, StartBackChannel, testVars, serverVars
<1>4. Flags'
  BY Zenon DEF Inv, TypeOK, Flags, StartBackChannel, testVars, serverVars
<1>5. Stages'
  BY SMT DEF Inv, TypeOK, Stages, Quiet, StartBackChannel, testVars, serverVars
<1>6. NoDataHeldBack'
  BY SMT DEF Inv, TypeOK, TestOrder, Stages, Quiet, NoDataHeldBack,
        StartBackChannel, testVars, serverVars
<1>7. BackChannelKept'
  BY SMT DEF Inv, TypeOK, Stages, Quiet, BackChannelKept, Exhausted,
        StartBackChannel, testVars, serverVars
<1>8. DeadTimerHasRequest'
  BY SMT DEF Inv, TypeOK, Stages, Quiet, BackChannelKept, Exhausted,
        DeadTimerHasRequest, StartBackChannel, testVars, serverVars
<1>9. ClosedIsQuiet'
  BY SMT DEF Inv, TypeOK, Stages, Quiet, ClosedIsQuiet, StartBackChannel, testVars,
        serverVars
<1> QED
  BY <1>1, <1>2, <1>3, <1>4, <1>5, <1>6, <1>7, <1>8, <1>9, InvFromParts

\* Data clears the dead timer and the retry count.
LEMMA BackDataKeepsInv == ASSUME Inv, BackData PROVE Inv'
<1>1. TestPart'
  BY TestKept DEF BackData, HasArrays, testVars, postVars, serverVars
<1>2. Where'
  BY SMT DEF Inv, TypeOK, Stages, Where, BackData, HasArrays, testVars, postVars,
        serverVars
<1>3. Numbers'
  BY SMT DEF Inv, TypeOK, Stages, Numbers, BackData, HasArrays, testVars, postVars,
        serverVars
<1>4. Flags'
  BY Zenon DEF Inv, TypeOK, Flags, BackData, HasArrays, testVars, postVars,
        serverVars
<1>5. Stages'
  BY SMT DEF Inv, TypeOK, Stages, Quiet, BackData, HasArrays, testVars, postVars,
        serverVars
<1>6. NoDataHeldBack'
  BY SMT DEF Inv, TypeOK, TestOrder, Stages, Quiet, NoDataHeldBack, BackData,
        HasArrays, testVars, postVars, serverVars
<1>7. BackChannelKept'
  BY SMT DEF Inv, TypeOK, Stages, Quiet, BackChannelKept, Exhausted, BackData,
        HasArrays, testVars, postVars, serverVars
<1>8. DeadTimerHasRequest'
  BY SMT DEF Inv, TypeOK, Stages, Quiet, BackChannelKept, Exhausted,
        DeadTimerHasRequest, BackData, HasArrays, testVars, postVars, serverVars
<1>9. ClosedIsQuiet'
  BY SMT DEF Inv, TypeOK, Stages, Quiet, ClosedIsQuiet, BackData, HasArrays,
        testVars, postVars, serverVars
<1> QED
  BY <1>1, <1>2, <1>3, <1>4, <1>5, <1>6, <1>7, <1>8, <1>9, InvFromParts

\* The stop array closes the channel.
LEMMA BackStopKeepsInv == ASSUME Inv, BackStop PROVE Inv'
<1>1. TestPart'
  BY TestKept DEF BackStop, HasArrays, SignalError, CancelRequests, AbandonGet,
        testVars
<1>2. Where'
  BY SMT DEF Inv, TypeOK, Stages, Where, BackStop, HasArrays, SignalError,
        CancelRequests, AbandonGet, testVars
<1>3. Numbers'
  BY SMT DEF Inv, TypeOK, Stages, Numbers, BackStop, HasArrays, SignalError,
        CancelRequests, AbandonGet, testVars
<1>4. Flags'
  BY Zenon DEF Inv, TypeOK, Flags, BackStop, HasArrays, SignalError, CancelRequests,
        AbandonGet, testVars
<1>5. Stages'
  BY SMT DEF Inv, TypeOK, Stages, Quiet, BackStop, HasArrays, SignalError,
        CancelRequests, AbandonGet, testVars
<1>6. NoDataHeldBack'
  BY SMT DEF Inv, TypeOK, TestOrder, Stages, Quiet, NoDataHeldBack, BackStop,
        HasArrays, SignalError, CancelRequests, AbandonGet, testVars
<1>7. BackChannelKept'
  BY SMT DEF Inv, TypeOK, Stages, Quiet, BackChannelKept, Exhausted, BackStop,
        HasArrays, SignalError, CancelRequests, AbandonGet, testVars
<1>8. DeadTimerHasRequest'
  BY SMT DEF Inv, TypeOK, Stages, Quiet, BackChannelKept, Exhausted,
        DeadTimerHasRequest, BackStop, HasArrays, SignalError, CancelRequests,
        AbandonGet, testVars
<1>9. ClosedIsQuiet'
  BY SMT DEF Inv, TypeOK, Stages, Quiet, ClosedIsQuiet, BackStop, HasArrays,
        SignalError, CancelRequests, AbandonGet, testVars
<1> QED
  BY <1>1, <1>2, <1>3, <1>4, <1>5, <1>6, <1>7, <1>8, <1>9, InvFromParts

\* A completed request is followed by the timer of the next one.
LEMMA BackCompletesKeepsInv == ASSUME Inv, BackCompletes PROVE Inv'
<1>1. TestPart'
  BY TestKept DEF BackCompletes, Succeeds, DropRequest, AbandonGet, testVars,
        postVars
<1>2. Where'
  BY SMT DEF Inv, TypeOK, Stages, Where, BackCompletes, Succeeds, DropRequest,
        AbandonGet, testVars, postVars
<1>3. Numbers'
  BY SMT DEF Inv, TypeOK, Stages, Numbers, BackCompletes, Succeeds, DropRequest,
        AbandonGet, testVars, postVars
<1>4. Flags'
  BY Zenon DEF Inv, TypeOK, Flags, BackCompletes, Succeeds, DropRequest, AbandonGet,
        testVars, postVars
<1>5. Stages'
  BY SMT DEF Inv, TypeOK, Stages, Quiet, BackCompletes, Succeeds, DropRequest,
        AbandonGet, testVars, postVars
<1>6. NoDataHeldBack'
  BY SMT DEF Inv, TypeOK, TestOrder, Stages, Quiet, NoDataHeldBack, BackCompletes,
        Succeeds, DropRequest, AbandonGet, testVars, postVars
<1>7. BackChannelKept'
  BY SMT DEF Inv, TypeOK, Stages, Quiet, BackChannelKept, Exhausted, BackCompletes,
        Succeeds, DropRequest, AbandonGet, testVars, postVars
<1>8. DeadTimerHasRequest'
  BY SMT DEF Inv, TypeOK, Stages, Quiet, BackChannelKept, Exhausted,
        DeadTimerHasRequest, BackCompletes, Succeeds, DropRequest, AbandonGet,
        testVars, postVars
<1>9. ClosedIsQuiet'
  BY SMT DEF Inv, TypeOK, Stages, Quiet, ClosedIsQuiet, BackCompletes, Succeeds,
        DropRequest, AbandonGet, testVars, postVars
<1> QED
  BY <1>1, <1>2, <1>3, <1>4, <1>5, <1>6, <1>7, <1>8, <1>9, InvFromParts

\* An empty response counts as a failure.
LEMMA BackEmptyKeepsInv == ASSUME Inv, BackEmpty PROVE Inv'
<1>1. TestPart'
  BY TestKept DEF BackEmpty, Succeeds, RetryOrGiveUp, CanRetry, DropRequest,
        AbandonGet, ScheduleRetry, testVars, postVars, SignalError, CancelRequests
<1>2. Where'
  BY SMT DEF Inv, TypeOK, Stages, Where, BackEmpty, Succeeds, RetryOrGiveUp,
        CanRetry, DropRequest, AbandonGet, ScheduleRetry, testVars, postVars,
        SignalError, CancelRequests
<1>3. Numbers'
  BY SMT DEF Inv, TypeOK, Stages, Numbers, BackEmpty, Succeeds, RetryOrGiveUp,
        CanRetry, DropRequest, AbandonGet, ScheduleRetry, testVars, postVars,
        SignalError, CancelRequests
<1>4. Flags'
  BY Zenon DEF Inv, TypeOK, Flags, BackEmpty, Succeeds, RetryOrGiveUp, CanRetry,
        DropRequest, AbandonGet, ScheduleRetry, testVars, postVars, SignalError,
        CancelRequests
<1>5. Stages'
  BY SMT DEF Inv, TypeOK, Stages, Quiet, BackEmpty, Succeeds, RetryOrGiveUp,
        CanRetry, DropRequest, AbandonGet, ScheduleRetry, testVars, postVars,
        SignalError, CancelRequests
<1>6. NoDataHeldBack'
  BY SMT DEF Inv, TypeOK, TestOrder, Stages, Quiet, NoDataHeldBack, BackEmpty,
        Succeeds, RetryOrGiveUp, CanRetry, DropRequest, AbandonGet, ScheduleRetry,
        testVars, postVars, SignalError, CancelRequests
<1>7. BackChannelKept'
  BY SMT DEF Inv, TypeOK, Stages, Quiet, BackChannelKept, Exhausted, BackEmpty,
        Succeeds, RetryOrGiveUp, CanRetry, DropRequest, AbandonGet, ScheduleRetry,
        testVars, postVars, SignalError, CancelRequests
<1>8. DeadTimerHasRequest'
  BY SMT DEF Inv, TypeOK, Stages, Quiet, BackChannelKept, Exhausted,
        DeadTimerHasRequest, BackEmpty, Succeeds, RetryOrGiveUp, CanRetry,
        DropRequest, AbandonGet, ScheduleRetry, testVars, postVars, SignalError,
        CancelRequests
<1>9. ClosedIsQuiet'
  BY SMT DEF Inv, TypeOK, Stages, Quiet, ClosedIsQuiet, BackEmpty, Succeeds,
        RetryOrGiveUp, CanRetry, DropRequest, AbandonGet, ScheduleRetry, testVars,
        postVars, SignalError, CancelRequests
<1> QED
  BY <1>1, <1>2, <1>3, <1>4, <1>5, <1>6, <1>7, <1>8, <1>9, InvFromParts

\* A broken connection is retried or closes the channel.
LEMMA BackBreaksKeepsInv == ASSUME Inv, BackBreaks PROVE Inv'
<1>1. TestPart'
  BY TestKept DEF BackBreaks, RetryOrGiveUp, CanRetry, DropRequest, AbandonGet,
        ScheduleRetry, testVars, postVars, SignalError, CancelRequests
<1>2. Where'
  BY SMT DEF Inv, TypeOK, Stages, Where, BackBreaks, RetryOrGiveUp, CanRetry,
        DropRequest, AbandonGet, ScheduleRetry, testVars, postVars, SignalError,
        CancelRequests
<1>3. Numbers'
  BY SMT DEF Inv, TypeOK, Stages, Numbers, BackBreaks, RetryOrGiveUp, CanRetry,
        DropRequest, AbandonGet, ScheduleRetry, testVars, postVars, SignalError,
        CancelRequests
<1>4. Flags'
  BY Zenon DEF Inv, TypeOK, Flags, BackBreaks, RetryOrGiveUp, CanRetry, DropRequest,
        AbandonGet, ScheduleRetry, testVars, postVars, SignalError, CancelRequests
<1>5. Stages'
  BY SMT DEF Inv, TypeOK, Stages, Quiet, BackBreaks, RetryOrGiveUp, CanRetry,
        DropRequest, AbandonGet, ScheduleRetry, testVars, postVars, SignalError,
        CancelRequests
<1>6. NoDataHeldBack'
  BY SMT DEF Inv, TypeOK, TestOrder, Stages, Quiet, NoDataHeldBack, BackBreaks,
        RetryOrGiveUp, CanRetry, DropRequest, AbandonGet, ScheduleRetry, testVars,
        postVars, SignalError, CancelRequests
<1>7. BackChannelKept'
  BY SMT DEF Inv, TypeOK, Stages, Quiet, BackChannelKept, Exhausted, BackBreaks,
        RetryOrGiveUp, CanRetry, DropRequest, AbandonGet, ScheduleRetry, testVars,
        postVars, SignalError, CancelRequests
<1>8. DeadTimerHasRequest'
  BY SMT DEF Inv, TypeOK, Stages, Quiet, BackChannelKept, Exhausted,
        DeadTimerHasRequest, BackBreaks, RetryOrGiveUp, CanRetry, DropRequest,
        AbandonGet, ScheduleRetry, testVars, postVars, SignalError, CancelRequests
<1>9. ClosedIsQuiet'
  BY SMT DEF Inv, TypeOK, Stages, Quiet, ClosedIsQuiet, BackBreaks, RetryOrGiveUp,
        CanRetry, DropRequest, AbandonGet, ScheduleRetry, testVars, postVars,
        SignalError, CancelRequests
<1> QED
  BY <1>1, <1>2, <1>3, <1>4, <1>5, <1>6, <1>7, <1>8, <1>9, InvFromParts

\* So does the watchdog.
LEMMA WatchDogKeepsInv == ASSUME Inv, WatchDog PROVE Inv'
<1>1. TestPart'
  BY TestKept DEF WatchDog, RetryOrGiveUp, CanRetry, DropRequest, AbandonGet,
        ScheduleRetry, testVars, postVars, SignalError, CancelRequests
<1>2. Where'
  BY SMT DEF Inv, TypeOK, Stages, Where, WatchDog, RetryOrGiveUp, CanRetry,
        DropRequest, AbandonGet, ScheduleRetry, testVars, postVars, SignalError,
        CancelRequests
<1>3. Numbers'
  BY SMT DEF Inv, TypeOK, Stages, Numbers, WatchDog, RetryOrGiveUp, CanRetry,
        DropRequest, AbandonGet, ScheduleRetry, testVars, postVars, SignalError,
        CancelRequests
<1>4. Flags'
  BY Zenon DEF Inv, TypeOK, Flags, WatchDog, RetryOrGiveUp, CanRetry, DropRequest,
        AbandonGet, ScheduleRetry, testVars, postVars, SignalError, CancelRequests
<1>5. Stages'
  BY SMT DEF Inv, TypeOK, Stages, Quiet, WatchDog, RetryOrGiveUp, CanRetry,
        DropRequest, AbandonGet, ScheduleRetry, testVars, postVars, SignalError,
        CancelRequests
<1>6. NoDataHeldBack'
  BY SMT DEF Inv, TypeOK, TestOrder, Stages, Quiet, NoDataHeldBack, WatchDog,
        RetryOrGiveUp, CanRetry, DropRequest, AbandonGet, ScheduleRetry, testVars,
        postVars, SignalError, CancelRequests
<1>7. BackChannelKept'
  BY SMT DEF Inv, TypeOK, Stages, Quiet, BackChannelKept, Exhausted, WatchDog,
        RetryOrGiveUp, CanRetry, DropRequest, AbandonGet, ScheduleRetry, testVars,
        postVars, SignalError, CancelRequests
<1>8. DeadTimerHasRequest'
  BY SMT DEF Inv, TypeOK, Stages, Quiet, BackChannelKept, Exhausted,
        DeadTimerHasRequest, WatchDog, RetryOrGiveUp, CanRetry, DropRequest,
        AbandonGet, ScheduleRetry, testVars, postVars, SignalError, CancelRequests
<1>9. ClosedIsQuiet'
  BY SMT DEF Inv, TypeOK, Stages, Quiet, ClosedIsQuiet, WatchDog, RetryOrGiveUp,
        CanRetry, DropRequest, AbandonGet, ScheduleRetry, testVars, postVars,
        SignalError, CancelRequests
<1> QED
  BY <1>1, <1>2, <1>3, <1>4, <1>5, <1>6, <1>7, <1>8, <1>9, InvFromParts

\* An unknown session closes the channel.
LEMMA BackUnknownKeepsInv == ASSUME Inv, BackUnknown PROVE Inv'
<1>1. TestPart'
  BY TestKept DEF BackUnknown, SignalError, CancelRequests, AbandonGet, testVars
<1>2. Where'
  BY SMT DEF Inv, TypeOK, Stages, Where, BackUnknown, SignalError, CancelRequests,
        AbandonGet, testVars
<1>3. Numbers'
  BY SMT DEF Inv, TypeOK, Stages, Numbers, BackUnknown, SignalError, CancelRequests,
        AbandonGet, testVars
<1>4. Flags'
  BY Zenon DEF Inv, TypeOK, Flags, BackUnknown, SignalError, CancelRequests,
        AbandonGet, testVars
<1>5. Stages'
  BY SMT DEF Inv, TypeOK, Stages, Quiet, BackUnknown, SignalError, CancelRequests,
        AbandonGet, testVars
<1>6. NoDataHeldBack'
  BY SMT DEF Inv, TypeOK, TestOrder, Stages, Quiet, NoDataHeldBack, BackUnknown,
        SignalError, CancelRequests, AbandonGet, testVars
<1>7. BackChannelKept'
  BY SMT DEF Inv, TypeOK, Stages, Quiet, BackChannelKept, Exhausted, BackUnknown,
        SignalError, CancelRequests, AbandonGet, testVars
<1>8. DeadTimerHasRequest'
  BY SMT DEF Inv, TypeOK, Stages, Quiet, BackChannelKept, Exhausted,
        DeadTimerHasRequest, BackUnknown, SignalError, CancelRequests, AbandonGet,
        testVars
<1>9. ClosedIsQuiet'
  BY SMT DEF Inv, TypeOK, Stages, Quiet, ClosedIsQuiet, BackUnknown, SignalError,
        CancelRequests, AbandonGet, testVars
<1> QED
  BY <1>1, <1>2, <1>3, <1>4, <1>5, <1>6, <1>7, <1>8, <1>9, InvFromParts

\* The request of a closed channel completes: nothing follows.
LEMMA BackCompletesClosedKeepsInv == ASSUME Inv, BackCompletesClosed PROVE Inv'
<1>1. TestPart'
  BY TestKept DEF BackCompletesClosed, Succeeds, DropRequest, AbandonGet, testVars,
        postVars
<1>2. Where'
  BY SMT DEF Inv, TypeOK, Stages, Where, BackCompletesClosed, Succeeds, DropRequest,
        AbandonGet, testVars, postVars
<1>3. Numbers'
  BY SMT DEF Inv, TypeOK, Stages, Numbers, BackCompletesClosed, Succeeds,
        DropRequest, AbandonGet, testVars, postVars
<1>4. Flags'
  BY Zenon DEF Inv, TypeOK, Flags, BackCompletesClosed, Succeeds, DropRequest,
        AbandonGet, testVars, postVars
<1>5. Stages'
  BY SMT DEF Inv, TypeOK, Stages, Quiet, BackCompletesClosed, Succeeds, DropRequest,
        AbandonGet, testVars, postVars
<1>6. NoDataHeldBack'
  BY SMT DEF Inv, TypeOK, TestOrder, Stages, Quiet, NoDataHeldBack,
        BackCompletesClosed, Succeeds, DropRequest, AbandonGet, testVars, postVars
<1>7. BackChannelKept'
  BY SMT DEF Inv, TypeOK, Stages, Quiet, BackChannelKept, Exhausted,
        BackCompletesClosed, Succeeds, DropRequest, AbandonGet, testVars, postVars
<1>8. DeadTimerHasRequest'
  BY SMT DEF Inv, TypeOK, Stages, Quiet, BackChannelKept, Exhausted,
        DeadTimerHasRequest, BackCompletesClosed, Succeeds, DropRequest, AbandonGet,
        testVars, postVars
<1>9. ClosedIsQuiet'
  BY SMT DEF Inv, TypeOK, Stages, Quiet, ClosedIsQuiet, BackCompletesClosed,
        Succeeds, DropRequest, AbandonGet, testVars, postVars
<1> QED
  BY <1>1, <1>2, <1>3, <1>4, <1>5, <1>6, <1>7, <1>8, <1>9, InvFromParts

\* The dead timer drops the request it watched and schedules a retry.
LEMMA BackChannelDeadKeepsInv == ASSUME Inv, BackChannelDead PROVE Inv'
<1>1. TestPart'
  BY TestKept DEF BackChannelDead, DropRequest, AbandonGet, CanRetry, ScheduleRetry,
        testVars, postVars
<1>2. Where'
  BY SMT DEF Inv, TypeOK, Stages, Where, BackChannelDead, DropRequest, AbandonGet,
        CanRetry, ScheduleRetry, testVars, postVars
<1>3. Numbers'
  BY SMT DEF Inv, TypeOK, Stages, Numbers, BackChannelDead, DropRequest, AbandonGet,
        CanRetry, ScheduleRetry, testVars, postVars
<1>4. Flags'
  BY Zenon DEF Inv, TypeOK, Flags, BackChannelDead, DropRequest, AbandonGet,
        CanRetry, ScheduleRetry, testVars, postVars
<1>5. Stages'
  BY SMT DEF Inv, TypeOK, Stages, Quiet, BackChannelDead, DropRequest, AbandonGet,
        CanRetry, ScheduleRetry, testVars, postVars
<1>6. NoDataHeldBack'
  BY SMT DEF Inv, TypeOK, TestOrder, Stages, Quiet, NoDataHeldBack, BackChannelDead,
        DropRequest, AbandonGet, CanRetry, ScheduleRetry, testVars, postVars
<1>7. BackChannelKept'
  BY SMT DEF Inv, TypeOK, Stages, Quiet, BackChannelKept, Exhausted,
        BackChannelDead, DropRequest, AbandonGet, CanRetry, ScheduleRetry, testVars,
        postVars
<1>8. DeadTimerHasRequest'
  BY SMT DEF Inv, TypeOK, Stages, Quiet, BackChannelKept, Exhausted,
        DeadTimerHasRequest, BackChannelDead, DropRequest, AbandonGet, CanRetry,
        ScheduleRetry, testVars, postVars
<1>9. ClosedIsQuiet'
  BY SMT DEF Inv, TypeOK, Stages, Quiet, ClosedIsQuiet, BackChannelDead,
        DropRequest, AbandonGet, CanRetry, ScheduleRetry, testVars, postVars
<1> QED
  BY <1>1, <1>2, <1>3, <1>4, <1>5, <1>6, <1>7, <1>8, <1>9, InvFromParts

\* disconnect closes the channel and leaves it quiet.
LEMMA DisconnectKeepsInv == ASSUME Inv, Disconnect PROVE Inv'
<1>1. TestPart'
  BY TestKept DEF Disconnect, CancelRequests, AbandonGet, testVars
<1>2. Where'
  BY SMT DEF Inv, TypeOK, Stages, Where, Disconnect, CancelRequests, AbandonGet,
        testVars
<1>3. Numbers'
  BY SMT DEF Inv, TypeOK, Stages, Numbers, Disconnect, CancelRequests, AbandonGet,
        testVars
<1>4. Flags'
  BY Zenon DEF Inv, TypeOK, Flags, Disconnect, CancelRequests, AbandonGet, testVars
<1>5. Stages'
  BY SMT DEF Inv, TypeOK, Stages, Quiet, Disconnect, CancelRequests, AbandonGet,
        testVars
<1>6. NoDataHeldBack'
  BY SMT DEF Inv, TypeOK, TestOrder, Stages, Quiet, NoDataHeldBack, Disconnect,
        CancelRequests, AbandonGet, testVars
<1>7. BackChannelKept'
  BY SMT DEF Inv, TypeOK, Stages, Quiet, BackChannelKept, Exhausted, Disconnect,
        CancelRequests, AbandonGet, testVars
<1>8. DeadTimerHasRequest'
  BY SMT DEF Inv, TypeOK, Stages, Quiet, BackChannelKept, Exhausted,
        DeadTimerHasRequest, Disconnect, CancelRequests, AbandonGet, testVars
<1>9. ClosedIsQuiet'
  BY SMT DEF Inv, TypeOK, Stages, Quiet, ClosedIsQuiet, Disconnect, CancelRequests,
        AbandonGet, testVars
<1> QED
  BY <1>1, <1>2, <1>3, <1>4, <1>5, <1>6, <1>7, <1>8, <1>9, InvFromParts

\* A POST starts.
LEMMA PostKeepsInv == ASSUME Inv, Post PROVE Inv'
<1>1. TestPart'
  BY TestKept DEF Post, testVars, backVars, serverVars
<1>2. Where'
  BY SMT DEF Inv, TypeOK, Stages, Where, Post, testVars, backVars, serverVars
<1>3. Numbers'
  BY SMT DEF Inv, TypeOK, Stages, Numbers, Post, testVars, backVars, serverVars
<1>4. Flags'
  BY Zenon DEF Inv, TypeOK, Flags, Post, testVars, backVars, serverVars
<1>5. Stages'
  BY SMT DEF Inv, TypeOK, Stages, Quiet, Post, testVars, backVars, serverVars
<1>6. NoDataHeldBack'
  BY SMT DEF Inv, TypeOK, TestOrder, Stages, Quiet, NoDataHeldBack, Post, testVars,
        backVars, serverVars
<1>7. BackChannelKept'
  BY SMT DEF Inv, TypeOK, Stages, Quiet, BackChannelKept, Exhausted, Post, testVars,
        backVars, serverVars
<1>8. DeadTimerHasRequest'
  BY SMT DEF Inv, TypeOK, Stages, Quiet, BackChannelKept, Exhausted,
        DeadTimerHasRequest, Post, testVars, backVars, serverVars
<1>9. ClosedIsQuiet'
  BY SMT DEF Inv, TypeOK, Stages, Quiet, ClosedIsQuiet, Post, testVars, backVars,
        serverVars
<1> QED
  BY <1>1, <1>2, <1>3, <1>4, <1>5, <1>6, <1>7, <1>8, <1>9, InvFromParts

\* The server answers it.
LEMMA ServerAnswersPostKeepsInv == ASSUME Inv, ServerAnswersPost PROVE Inv'
<1>1. TestPart'
  BY TestKept DEF ServerAnswersPost, testVars, backVars, serverVars
<1>2. Where'
  BY SMT DEF Inv, TypeOK, Stages, Where, ServerAnswersPost, testVars, backVars,
        serverVars
<1>3. Numbers'
  BY SMT DEF Inv, TypeOK, Stages, Numbers, ServerAnswersPost, testVars, backVars,
        serverVars
<1>4. Flags'
  BY Zenon DEF Inv, TypeOK, Flags, ServerAnswersPost, testVars, backVars, serverVars
<1>5. Stages'
  BY SMT DEF Inv, TypeOK, Stages, Quiet, ServerAnswersPost, testVars, backVars,
        serverVars
<1>6. NoDataHeldBack'
  BY SMT DEF Inv, TypeOK, TestOrder, Stages, Quiet, NoDataHeldBack,
        ServerAnswersPost, testVars, backVars, serverVars
<1>7. BackChannelKept'
  BY SMT DEF Inv, TypeOK, Stages, Quiet, BackChannelKept, Exhausted,
        ServerAnswersPost, testVars, backVars, serverVars
<1>8. DeadTimerHasRequest'
  BY SMT DEF Inv, TypeOK, Stages, Quiet, BackChannelKept, Exhausted,
        DeadTimerHasRequest, ServerAnswersPost, testVars, backVars, serverVars
<1>9. ClosedIsQuiet'
  BY SMT DEF Inv, TypeOK, Stages, Quiet, ClosedIsQuiet, ServerAnswersPost, testVars,
        backVars, serverVars
<1> QED
  BY <1>1, <1>2, <1>3, <1>4, <1>5, <1>6, <1>7, <1>8, <1>9, InvFromParts

\* Its answer starts the dead timer, or replaces the request.
LEMMA PostAnsweredKeepsInv == ASSUME Inv, PostAnswered PROVE Inv'
<1>1. TestPart'
  BY TestKept DEF PostAnswered, BackChannelPresent, ShouldRetryBackChannel,
        BackChannelMissing, RetriesAtMissing, AbandonGet, CanRetry, ScheduleRetry,
        PostDone, testVars
<1>2. Where'
  BY SMT DEF Inv, TypeOK, Stages, Where, PostAnswered, BackChannelPresent,
        ShouldRetryBackChannel, BackChannelMissing, RetriesAtMissing, AbandonGet,
        CanRetry, ScheduleRetry, PostDone, testVars
<1>3. Numbers'
  BY SMT DEF Inv, TypeOK, Stages, Numbers, PostAnswered, BackChannelPresent,
        ShouldRetryBackChannel, BackChannelMissing, RetriesAtMissing, AbandonGet,
        CanRetry, ScheduleRetry, PostDone, testVars
<1>4. Flags'
  BY Zenon DEF Inv, TypeOK, Flags, PostAnswered, BackChannelPresent,
        ShouldRetryBackChannel, BackChannelMissing, RetriesAtMissing, AbandonGet,
        CanRetry, ScheduleRetry, PostDone, testVars
<1>5. Stages'
  BY SMT DEF Inv, TypeOK, Stages, Quiet, PostAnswered, BackChannelPresent,
        ShouldRetryBackChannel, BackChannelMissing, RetriesAtMissing, AbandonGet,
        CanRetry, ScheduleRetry, PostDone, testVars
<1>6. NoDataHeldBack'
  BY SMT DEF Inv, TypeOK, TestOrder, Stages, Quiet, NoDataHeldBack, PostAnswered,
        BackChannelPresent, ShouldRetryBackChannel, BackChannelMissing,
        RetriesAtMissing, AbandonGet, CanRetry, ScheduleRetry, PostDone, testVars
<1>7. BackChannelKept'
  BY SMT DEF Inv, TypeOK, Stages, Quiet, BackChannelKept, Exhausted, PostAnswered,
        BackChannelPresent, ShouldRetryBackChannel, BackChannelMissing,
        RetriesAtMissing, AbandonGet, CanRetry, ScheduleRetry, PostDone, testVars
<1>8. DeadTimerHasRequest'
  <2>1. CASE BackChannelPresent
    <3>1. UNCHANGED <<backReq, backTimer, retryCount>>
      BY <2>1 DEF BackChannelPresent
    <3>2. CASE deadTimer
      BY <3>1, <3>2, SMT DEF Inv, DeadTimerHasRequest
    <3>3. CASE ~deadTimer /\ deadTimer'
      <4>1. state = "OPENED" /\ retryCount = 0
        <5>1. state = "OPENED"
          BY <2>1, SMT DEF Inv, Stages, BackChannelPresent
        <5>2. retryCount = 0
          BY <2>1, <3>3, Zenon DEF BackChannelPresent, ShouldRetryBackChannel
        <5> QED
          BY <5>1, <5>2
      <4>2. backReq # "none" \/ backTimer
        BY <4>1, SMT DEF Inv, BackChannelKept, Exhausted
      <4> QED
        BY <3>1, <4>1, <4>2, SMT DEF DeadTimerHasRequest
    <3> QED
      BY <3>2, <3>3 DEF DeadTimerHasRequest
  <2>2. CASE BackChannelMissing
    <3>1. CASE RetriesAtMissing
      <4>1. deadTimer' => deadTimer /\ backReq = "none" /\ ~backTimer
        BY <2>2, <3>1, Zenon DEF BackChannelMissing, RetriesAtMissing
      <4>2. ~(deadTimer /\ backReq = "none" /\ ~backTimer)
        BY Zenon DEF Inv, DeadTimerHasRequest
      <4> QED
        BY <4>1, <4>2, Zenon DEF DeadTimerHasRequest
    <3>2. CASE ~RetriesAtMissing
      <4>1. UNCHANGED <<deadTimer, backReq, backTimer, retryCount>>
        BY <2>2, <3>2, Zenon DEF BackChannelMissing
      <4> QED
        BY <4>1, SMT DEF Inv, DeadTimerHasRequest
    <3> QED
      BY <3>1, <3>2
  <2> QED
    BY <2>1, <2>2 DEF PostAnswered
<1>9. ClosedIsQuiet'
  BY SMT DEF Inv, TypeOK, Stages, Quiet, ClosedIsQuiet, PostAnswered,
        BackChannelPresent, ShouldRetryBackChannel, BackChannelMissing,
        RetriesAtMissing, AbandonGet, CanRetry, ScheduleRetry, PostDone, testVars
<1> QED
  BY <1>1, <1>2, <1>3, <1>4, <1>5, <1>6, <1>7, <1>8, <1>9, InvFromParts

\* It fails and will be posted again.
LEMMA PostFailsKeepsInv == ASSUME Inv, PostFails PROVE Inv'
<1>1. TestPart'
  BY TestKept DEF PostFails, PostDone, testVars, backVars, serverVars
<1>2. Where'
  BY SMT DEF Inv, TypeOK, Stages, Where, PostFails, PostDone, testVars, backVars,
        serverVars
<1>3. Numbers'
  BY SMT DEF Inv, TypeOK, Stages, Numbers, PostFails, PostDone, testVars, backVars,
        serverVars
<1>4. Flags'
  BY Zenon DEF Inv, TypeOK, Flags, PostFails, PostDone, testVars, backVars,
        serverVars
<1>5. Stages'
  BY SMT DEF Inv, TypeOK, Stages, Quiet, PostFails, PostDone, testVars, backVars,
        serverVars
<1>6. NoDataHeldBack'
  BY SMT DEF Inv, TypeOK, TestOrder, Stages, Quiet, NoDataHeldBack, PostFails,
        PostDone, testVars, backVars, serverVars
<1>7. BackChannelKept'
  BY SMT DEF Inv, TypeOK, Stages, Quiet, BackChannelKept, Exhausted, PostFails,
        PostDone, testVars, backVars, serverVars
<1>8. DeadTimerHasRequest'
  BY SMT DEF Inv, TypeOK, Stages, Quiet, BackChannelKept, Exhausted,
        DeadTimerHasRequest, PostFails, PostDone, testVars, backVars, serverVars
<1>9. ClosedIsQuiet'
  BY SMT DEF Inv, TypeOK, Stages, Quiet, ClosedIsQuiet, PostFails, PostDone,
        testVars, backVars, serverVars
<1> QED
  BY <1>1, <1>2, <1>3, <1>4, <1>5, <1>6, <1>7, <1>8, <1>9, InvFromParts

\* It is rejected, and the channel is closed.
LEMMA PostRejectedKeepsInv == ASSUME Inv, PostRejected PROVE Inv'
<1>1. TestPart'
  BY TestKept DEF PostRejected, SignalError, CancelRequests, AbandonGet, testVars
<1>2. Where'
  BY SMT DEF Inv, TypeOK, Stages, Where, PostRejected, SignalError, CancelRequests,
        AbandonGet, testVars
<1>3. Numbers'
  BY SMT DEF Inv, TypeOK, Stages, Numbers, PostRejected, SignalError,
        CancelRequests, AbandonGet, testVars
<1>4. Flags'
  BY Zenon DEF Inv, TypeOK, Flags, PostRejected, SignalError, CancelRequests,
        AbandonGet, testVars
<1>5. Stages'
  BY SMT DEF Inv, TypeOK, Stages, Quiet, PostRejected, SignalError, CancelRequests,
        AbandonGet, testVars
<1>6. NoDataHeldBack'
  BY SMT DEF Inv, TypeOK, TestOrder, Stages, Quiet, NoDataHeldBack, PostRejected,
        SignalError, CancelRequests, AbandonGet, testVars
<1>7. BackChannelKept'
  BY SMT DEF Inv, TypeOK, Stages, Quiet, BackChannelKept, Exhausted, PostRejected,
        SignalError, CancelRequests, AbandonGet, testVars
<1>8. DeadTimerHasRequest'
  BY SMT DEF Inv, TypeOK, Stages, Quiet, BackChannelKept, Exhausted,
        DeadTimerHasRequest, PostRejected, SignalError, CancelRequests, AbandonGet,
        testVars
<1>9. ClosedIsQuiet'
  BY SMT DEF Inv, TypeOK, Stages, Quiet, ClosedIsQuiet, PostRejected, SignalError,
        CancelRequests, AbandonGet, testVars
<1> QED
  BY <1>1, <1>2, <1>3, <1>4, <1>5, <1>6, <1>7, <1>8, <1>9, InvFromParts

\* The server holds the request, or ends it with what it carries.
LEMMA GetSetsBackChannelKeepsInv == ASSUME Inv, GetSetsBackChannel PROVE Inv'
<1>1. TestPart'
  BY TestKept DEF GetSetsBackChannel, Unchanged, testVars, postVars
<1>2. Where'
  BY SMT DEF Inv, TypeOK, Stages, Where, GetSetsBackChannel, Unchanged, testVars,
        postVars
<1>3. Numbers'
  BY SMT DEF Inv, TypeOK, Stages, Numbers, GetSetsBackChannel, Unchanged, testVars,
        postVars
<1>4. Flags'
  BY Zenon DEF Inv, TypeOK, Flags, GetSetsBackChannel, Unchanged, testVars, postVars
<1>5. Stages'
  BY SMT DEF Inv, TypeOK, Stages, Quiet, GetSetsBackChannel, Unchanged, testVars,
        postVars
<1>6. NoDataHeldBack'
  BY SMT DEF Inv, TypeOK, TestOrder, Stages, Quiet, NoDataHeldBack,
        GetSetsBackChannel, Unchanged, testVars, postVars
<1>7. BackChannelKept'
  BY SMT DEF Inv, TypeOK, Stages, Quiet, BackChannelKept, Exhausted,
        GetSetsBackChannel, Unchanged, testVars, postVars
<1>8. DeadTimerHasRequest'
  BY SMT DEF Inv, TypeOK, Stages, Quiet, BackChannelKept, Exhausted,
        DeadTimerHasRequest, GetSetsBackChannel, Unchanged, testVars, postVars
<1>9. ClosedIsQuiet'
  BY SMT DEF Inv, TypeOK, Stages, Quiet, ClosedIsQuiet, GetSetsBackChannel,
        Unchanged, testVars, postVars
<1> QED
  BY <1>1, <1>2, <1>3, <1>4, <1>5, <1>6, <1>7, <1>8, <1>9, InvFromParts

\* The session is over when the request arrives.
LEMMA GetComesTooLateKeepsInv == ASSUME Inv, GetComesTooLate PROVE Inv'
<1>1. TestPart'
  BY TestKept DEF GetComesTooLate, Unchanged, testVars, postVars, serverVars
<1>2. Where'
  BY SMT DEF Inv, TypeOK, Stages, Where, GetComesTooLate, Unchanged, testVars,
        postVars, serverVars
<1>3. Numbers'
  BY SMT DEF Inv, TypeOK, Stages, Numbers, GetComesTooLate, Unchanged, testVars,
        postVars, serverVars
<1>4. Flags'
  BY Zenon DEF Inv, TypeOK, Flags, GetComesTooLate, Unchanged, testVars, postVars,
        serverVars
<1>5. Stages'
  BY SMT DEF Inv, TypeOK, Stages, Quiet, GetComesTooLate, Unchanged, testVars,
        postVars, serverVars
<1>6. NoDataHeldBack'
  BY SMT DEF Inv, TypeOK, TestOrder, Stages, Quiet, NoDataHeldBack, GetComesTooLate,
        Unchanged, testVars, postVars, serverVars
<1>7. BackChannelKept'
  BY SMT DEF Inv, TypeOK, Stages, Quiet, BackChannelKept, Exhausted,
        GetComesTooLate, Unchanged, testVars, postVars, serverVars
<1>8. DeadTimerHasRequest'
  BY SMT DEF Inv, TypeOK, Stages, Quiet, BackChannelKept, Exhausted,
        DeadTimerHasRequest, GetComesTooLate, Unchanged, testVars, postVars,
        serverVars
<1>9. ClosedIsQuiet'
  BY SMT DEF Inv, TypeOK, Stages, Quiet, ClosedIsQuiet, GetComesTooLate, Unchanged,
        testVars, postVars, serverVars
<1> QED
  BY <1>1, <1>2, <1>3, <1>4, <1>5, <1>6, <1>7, <1>8, <1>9, InvFromParts

\* The network loses the request or its response.
LEMMA GetLostKeepsInv == ASSUME Inv, GetLost PROVE Inv'
<1>1. TestPart'
  BY TestKept DEF GetLost, Unchanged, testVars, postVars
<1>2. Where'
  BY SMT DEF Inv, TypeOK, Stages, Where, GetLost, Unchanged, testVars, postVars
<1>3. Numbers'
  BY SMT DEF Inv, TypeOK, Stages, Numbers, GetLost, Unchanged, testVars, postVars
<1>4. Flags'
  BY Zenon DEF Inv, TypeOK, Flags, GetLost, Unchanged, testVars, postVars
<1>5. Stages'
  BY SMT DEF Inv, TypeOK, Stages, Quiet, GetLost, Unchanged, testVars, postVars
<1>6. NoDataHeldBack'
  BY SMT DEF Inv, TypeOK, TestOrder, Stages, Quiet, NoDataHeldBack, GetLost,
        Unchanged, testVars, postVars
<1>7. BackChannelKept'
  BY SMT DEF Inv, TypeOK, Stages, Quiet, BackChannelKept, Exhausted, GetLost,
        Unchanged, testVars, postVars
<1>8. DeadTimerHasRequest'
  BY SMT DEF Inv, TypeOK, Stages, Quiet, BackChannelKept, Exhausted,
        DeadTimerHasRequest, GetLost, Unchanged, testVars, postVars
<1>9. ClosedIsQuiet'
  BY SMT DEF Inv, TypeOK, Stages, Quiet, ClosedIsQuiet, GetLost, Unchanged,
        testVars, postVars
<1> QED
  BY <1>1, <1>2, <1>3, <1>4, <1>5, <1>6, <1>7, <1>8, <1>9, InvFromParts

\* An abandoned request takes the place of a newer one.
LEMMA LateGetKeepsInv == ASSUME Inv, LateGet PROVE Inv'
<1>1. TestPart'
  BY TestKept DEF LateGet, Unchanged, testVars, postVars
<1>2. Where'
  BY SMT DEF Inv, TypeOK, Stages, Where, LateGet, Unchanged, testVars, postVars
<1>3. Numbers'
  BY SMT DEF Inv, TypeOK, Stages, Numbers, LateGet, Unchanged, testVars, postVars
<1>4. Flags'
  BY Zenon DEF Inv, TypeOK, Flags, LateGet, Unchanged, testVars, postVars
<1>5. Stages'
  BY SMT DEF Inv, TypeOK, Stages, Quiet, LateGet, Unchanged, testVars, postVars
<1>6. NoDataHeldBack'
  BY SMT DEF Inv, TypeOK, TestOrder, Stages, Quiet, NoDataHeldBack, LateGet,
        Unchanged, testVars, postVars
<1>7. BackChannelKept'
  BY SMT DEF Inv, TypeOK, Stages, Quiet, BackChannelKept, Exhausted, LateGet,
        Unchanged, testVars, postVars
<1>8. DeadTimerHasRequest'
  BY SMT DEF Inv, TypeOK, Stages, Quiet, BackChannelKept, Exhausted,
        DeadTimerHasRequest, LateGet, Unchanged, testVars, postVars
<1>9. ClosedIsQuiet'
  BY SMT DEF Inv, TypeOK, Stages, Quiet, ClosedIsQuiet, LateGet, Unchanged,
        testVars, postVars
<1> QED
  BY <1>1, <1>2, <1>3, <1>4, <1>5, <1>6, <1>7, <1>8, <1>9, InvFromParts

\* The server sends an array.
LEMMA ServerSendsKeepsInv == ASSUME Inv, ServerSends PROVE Inv'
<1>1. TestPart'
  BY TestKept DEF ServerSends, Written, Unchanged, testVars, postVars
<1>2. Where'
  BY SMT DEF Inv, TypeOK, Stages, Where, ServerSends, Written, Unchanged, testVars,
        postVars
<1>3. Numbers'
  BY SMT DEF Inv, TypeOK, Stages, Numbers, ServerSends, Written, Unchanged,
        testVars, postVars
<1>4. Flags'
  BY Zenon DEF Inv, TypeOK, Flags, ServerSends, Written, Unchanged, testVars,
        postVars
<1>5. Stages'
  BY SMT DEF Inv, TypeOK, Stages, Quiet, ServerSends, Written, Unchanged, testVars,
        postVars
<1>6. NoDataHeldBack'
  BY SMT DEF Inv, TypeOK, TestOrder, Stages, Quiet, NoDataHeldBack, ServerSends,
        Written, Unchanged, testVars, postVars
<1>7. BackChannelKept'
  BY SMT DEF Inv, TypeOK, Stages, Quiet, BackChannelKept, Exhausted, ServerSends,
        Written, Unchanged, testVars, postVars
<1>8. DeadTimerHasRequest'
  BY SMT DEF Inv, TypeOK, Stages, Quiet, BackChannelKept, Exhausted,
        DeadTimerHasRequest, ServerSends, Written, Unchanged, testVars, postVars
<1>9. ClosedIsQuiet'
  BY SMT DEF Inv, TypeOK, Stages, Quiet, ClosedIsQuiet, ServerSends, Written,
        Unchanged, testVars, postVars
<1> QED
  BY <1>1, <1>2, <1>3, <1>4, <1>5, <1>6, <1>7, <1>8, <1>9, InvFromParts

\* The application closes the channel.
LEMMA ServerClosesKeepsInv == ASSUME Inv, ServerCloses PROVE Inv'
<1>1. TestPart'
  BY TestKept DEF ServerCloses, Written, Unchanged, testVars, postVars
<1>2. Where'
  BY SMT DEF Inv, TypeOK, Stages, Where, ServerCloses, Written, Unchanged, testVars,
        postVars
<1>3. Numbers'
  BY SMT DEF Inv, TypeOK, Stages, Numbers, ServerCloses, Written, Unchanged,
        testVars, postVars
<1>4. Flags'
  BY Zenon DEF Inv, TypeOK, Flags, ServerCloses, Written, Unchanged, testVars,
        postVars
<1>5. Stages'
  BY SMT DEF Inv, TypeOK, Stages, Quiet, ServerCloses, Written, Unchanged, testVars,
        postVars
<1>6. NoDataHeldBack'
  BY SMT DEF Inv, TypeOK, TestOrder, Stages, Quiet, NoDataHeldBack, ServerCloses,
        Written, Unchanged, testVars, postVars
<1>7. BackChannelKept'
  BY SMT DEF Inv, TypeOK, Stages, Quiet, BackChannelKept, Exhausted, ServerCloses,
        Written, Unchanged, testVars, postVars
<1>8. DeadTimerHasRequest'
  BY SMT DEF Inv, TypeOK, Stages, Quiet, BackChannelKept, Exhausted,
        DeadTimerHasRequest, ServerCloses, Written, Unchanged, testVars, postVars
<1>9. ClosedIsQuiet'
  BY SMT DEF Inv, TypeOK, Stages, Quiet, ClosedIsQuiet, ServerCloses, Written,
        Unchanged, testVars, postVars
<1> QED
  BY <1>1, <1>2, <1>3, <1>4, <1>5, <1>6, <1>7, <1>8, <1>9, InvFromParts

\* A timer of the server expires.
LEMMA ServerEndsKeepsInv == ASSUME Inv, ServerEnds PROVE Inv'
<1>1. TestPart'
  BY TestKept DEF ServerEnds, Clear, Unchanged, testVars, postVars
<1>2. Where'
  BY SMT DEF Inv, TypeOK, Stages, Where, ServerEnds, Clear, Unchanged, testVars,
        postVars
<1>3. Numbers'
  BY SMT DEF Inv, TypeOK, Stages, Numbers, ServerEnds, Clear, Unchanged, testVars,
        postVars
<1>4. Flags'
  BY Zenon DEF Inv, TypeOK, Flags, ServerEnds, Clear, Unchanged, testVars, postVars
<1>5. Stages'
  BY SMT DEF Inv, TypeOK, Stages, Quiet, ServerEnds, Clear, Unchanged, testVars,
        postVars
<1>6. NoDataHeldBack'
  BY SMT DEF Inv, TypeOK, TestOrder, Stages, Quiet, NoDataHeldBack, ServerEnds,
        Clear, Unchanged, testVars, postVars
<1>7. BackChannelKept'
  BY SMT DEF Inv, TypeOK, Stages, Quiet, BackChannelKept, Exhausted, ServerEnds,
        Clear, Unchanged, testVars, postVars
<1>8. DeadTimerHasRequest'
  BY SMT DEF Inv, TypeOK, Stages, Quiet, BackChannelKept, Exhausted,
        DeadTimerHasRequest, ServerEnds, Clear, Unchanged, testVars, postVars
<1>9. ClosedIsQuiet'
  BY SMT DEF Inv, TypeOK, Stages, Quiet, ClosedIsQuiet, ServerEnds, Clear,
        Unchanged, testVars, postVars
<1> QED
  BY <1>1, <1>2, <1>3, <1>4, <1>5, <1>6, <1>7, <1>8, <1>9, InvFromParts

\* A terminate request arrives.
LEMMA ServerTerminatesKeepsInv == ASSUME Inv, ServerTerminates PROVE Inv'
<1>1. TestPart'
  BY TestKept DEF ServerTerminates, Clear, testVars, postVars
<1>2. Where'
  BY SMT DEF Inv, TypeOK, Stages, Where, ServerTerminates, Clear, testVars, postVars
<1>3. Numbers'
  BY SMT DEF Inv, TypeOK, Stages, Numbers, ServerTerminates, Clear, testVars,
        postVars
<1>4. Flags'
  BY Zenon DEF Inv, TypeOK, Flags, ServerTerminates, Clear, testVars, postVars
<1>5. Stages'
  BY SMT DEF Inv, TypeOK, Stages, Quiet, ServerTerminates, Clear, testVars, postVars
<1>6. NoDataHeldBack'
  BY SMT DEF Inv, TypeOK, TestOrder, Stages, Quiet, NoDataHeldBack,
        ServerTerminates, Clear, testVars, postVars
<1>7. BackChannelKept'
  BY SMT DEF Inv, TypeOK, Stages, Quiet, BackChannelKept, Exhausted,
        ServerTerminates, Clear, testVars, postVars
<1>8. DeadTimerHasRequest'
  BY SMT DEF Inv, TypeOK, Stages, Quiet, BackChannelKept, Exhausted,
        DeadTimerHasRequest, ServerTerminates, Clear, testVars, postVars
<1>9. ClosedIsQuiet'
  BY SMT DEF Inv, TypeOK, Stages, Quiet, ClosedIsQuiet, ServerTerminates, Clear,
        testVars, postVars
<1> QED
  BY <1>1, <1>2, <1>3, <1>4, <1>5, <1>6, <1>7, <1>8, <1>9, InvFromParts

\* The session is collected.
LEMMA ServerRemovesKeepsInv == ASSUME Inv, ServerRemoves PROVE Inv'
<1>1. TestPart'
  BY TestKept DEF ServerRemoves, Unchanged, testVars, postVars
<1>2. Where'
  BY SMT DEF Inv, TypeOK, Stages, Where, ServerRemoves, Unchanged, testVars,
        postVars
<1>3. Numbers'
  BY SMT DEF Inv, TypeOK, Stages, Numbers, ServerRemoves, Unchanged, testVars,
        postVars
<1>4. Flags'
  BY Zenon DEF Inv, TypeOK, Flags, ServerRemoves, Unchanged, testVars, postVars
<1>5. Stages'
  BY SMT DEF Inv, TypeOK, Stages, Quiet, ServerRemoves, Unchanged, testVars,
        postVars
<1>6. NoDataHeldBack'
  BY SMT DEF Inv, TypeOK, TestOrder, Stages, Quiet, NoDataHeldBack, ServerRemoves,
        Unchanged, testVars, postVars
<1>7. BackChannelKept'
  BY SMT DEF Inv, TypeOK, Stages, Quiet, BackChannelKept, Exhausted, ServerRemoves,
        Unchanged, testVars, postVars
<1>8. DeadTimerHasRequest'
  BY SMT DEF Inv, TypeOK, Stages, Quiet, BackChannelKept, Exhausted,
        DeadTimerHasRequest, ServerRemoves, Unchanged, testVars, postVars
<1>9. ClosedIsQuiet'
  BY SMT DEF Inv, TypeOK, Stages, Quiet, ClosedIsQuiet, ServerRemoves, Unchanged,
        testVars, postVars
<1> QED
  BY <1>1, <1>2, <1>3, <1>4, <1>5, <1>6, <1>7, <1>8, <1>9, InvFromParts

\* A step that changes nothing.
LEMMA StutteringKeepsInv == ASSUME Inv, UNCHANGED vars PROVE Inv'
BY DEF vars, testVars, backVars, postVars, serverVars, Inv, TypeOK, TestTypeOK,
        TestOrder, Stages, Quiet, FlushKeepsStreaming, NoDataHeldBack,
        BackChannelKept, Exhausted, DeadTimerHasRequest, ClosedIsQuiet

\* Before anything has happened there is nothing to go wrong.
LEMMA InitEstablishesInv == Init => Inv
<1> SUFFICES ASSUME Init PROVE Inv
  OBVIOUS
<1>1. TestTypeOK /\ TestOrder /\ FlushKeepsStreaming
  <2>1. useChunked = FALSE /\ written = 0 /\ test = "stage1"
    BY Zenon DEF Init, TestInit
  <2>2. browser \in {"xhr", "trident"} /\ buffered \in BOOLEAN
    BY Zenon DEF Init, TestInit
  <2>3. useChunked \in BOOLEAN /\ ~useChunked
    BY <2>1, Zenon
  <2>4. TestTypeOK
    BY <2>1, <2>2, <2>3 DEF TestTypeOK
  <2>5. TestOrder /\ FlushKeepsStreaming
    BY <2>1, <2>3, SMT DEF TestOrder, FlushKeepsStreaming
  <2> QED
    BY <2>4, <2>5
<1>2. Where /\ Flags
  <2>1. Where
    BY SMT DEF Init, Where
  <2>2. Flags
    BY Zenon DEF Init, Flags
  <2> QED
    BY <2>1, <2>2
<1>3. Numbers
  BY SMT DEF Init, Numbers
<1>4. Stages /\ NoDataHeldBack /\ BackChannelKept
  BY SMT DEF Init, Stages, Quiet, NoDataHeldBack, BackChannelKept
<1>5. DeadTimerHasRequest /\ ClosedIsQuiet
  BY SMT DEF Init, DeadTimerHasRequest, ClosedIsQuiet
<1> QED
  BY <1>1, <1>2, <1>3, <1>4, <1>5 DEF Inv, TypeOK, Where, Numbers, Flags

\* Every step keeps the invariant.
LEMMA StepKeepsInv == Inv /\ [Next]_vars => Inv'
<1> SUFFICES ASSUME Inv, [Next]_vars PROVE Inv'
  OBVIOUS
<1>1. CASE \/ Connect \/ Test \/ ConnectFails \/ ServerOpens \/ StartBackChannel
           \/ \E disconnect \in BOOLEAN : Opened(disconnect)
  BY <1>1, ConnectKeepsInv, TestKeepsInv, ConnectFailsKeepsInv, ServerOpensKeepsInv,
     StartBackChannelKeepsInv, OpenedKeepsInv
<1>2. CASE BackDone \/ BackBreaks \/ WatchDog \/ BackCompletesClosed
  BY <1>2, BackDataKeepsInv, BackStopKeepsInv, BackCompletesKeepsInv,
     BackEmptyKeepsInv, BackUnknownKeepsInv, BackBreaksKeepsInv, WatchDogKeepsInv,
     BackCompletesClosedKeepsInv DEF BackDone
<1>3. CASE \/ BackChannelDead \/ Disconnect \/ Post \/ ServerAnswersPost
           \/ PostAnswered \/ PostFails \/ PostRejected
  BY <1>3, BackChannelDeadKeepsInv, DisconnectKeepsInv, PostKeepsInv,
     ServerAnswersPostKeepsInv, PostAnsweredKeepsInv, PostFailsKeepsInv,
     PostRejectedKeepsInv
<1>4. CASE GetSetsBackChannel \/ GetComesTooLate \/ GetLost \/ LateGet
  BY <1>4, GetSetsBackChannelKeepsInv, GetComesTooLateKeepsInv, GetLostKeepsInv,
     LateGetKeepsInv
<1>5. CASE ServerSends \/ ServerCloses \/ ServerEnds \/ ServerTerminates \/ ServerRemoves
  BY <1>5, ServerSendsKeepsInv, ServerClosesKeepsInv, ServerEndsKeepsInv,
     ServerTerminatesKeepsInv, ServerRemovesKeepsInv
<1>6. CASE UNCHANGED vars
  BY <1>6, StutteringKeepsInv
<1> QED
  BY <1>1, <1>2, <1>3, <1>4, <1>5, <1>6 DEF Next

\* The inductive invariant holds in every behaviour of the client.
THEOREM ClientInvariance == Spec => []Inv
BY InitEstablishesInv, StepKeepsInv, PTL DEF Spec

\* Every variable keeps its type; the server holds the request of the client exactly
\* when the client waits for it.
THEOREM ClientTypeCorrect == Spec => []TypeOK
<1>1. Inv => TypeOK
  BY DEF Inv
<1> QED
  BY <1>1, ClientInvariance, PTL

\* A test that ends behind a network that does not buffer makes the client stream.
THEOREM StreamingIsFound == Spec => []FlushKeepsStreaming
<1>1. Inv => FlushKeepsStreaming
  BY DEF Inv
<1> QED
  BY <1>1, ClientInvariance, PTL

\* Behind a network that buffers no response with data stays open.
THEOREM NothingIsHeldBack == Spec => []NoDataHeldBack
<1>1. Inv => NoDataHeldBack
  BY DEF Inv
<1> QED
  BY <1>1, ClientInvariance, PTL

\* An open channel has a request, a timer, or has used up its retries.
THEOREM BackChannelIsKept == Spec => []BackChannelKept
<1>1. Inv => BackChannelKept
  BY DEF Inv
<1> QED
  BY <1>1, ClientInvariance, PTL

\* onBackChannelDead_ always finds the request it cancels.
THEOREM DeadTimerIsSafe == Spec => []DeadTimerHasRequest
<1>1. Inv => DeadTimerHasRequest
  BY DEF Inv
<1> QED
  BY <1>1, ClientInvariance, PTL

\* A closed channel has no request and no timer, but for disconnect in channelOpened.
THEOREM ClosedChannelIsQuiet == Spec => []ClosedIsQuiet
<1>1. Inv => ClosedIsQuiet
  BY DEF Inv
<1> QED
  BY <1>1, ClientInvariance, PTL
-----------------------------------------------------------------------------
(***************************************************************************)
(* The server as a session.  What the client does leaves the session as it *)
(* is; what the server does is a step of it.  The step that could go wrong *)
(* is the back channel that a session closed for writing gets: it must end *)
(* it, and it does because the client cannot have 'stop' by then.          *)
(***************************************************************************)

\* The arrays at the server, in a response and at the client.
ServerOrder ==
  /\ server = "none" => sent = 0 /\ ~stopped
  /\ server # "none" => sent >= 1
  /\ server = "open" => ~stopped
  /\ server = "writeClosed" => stopped /\ bc = "none"
  /\ stopped => lastArrayId < sent /\ 1 < sent
  /\ up <= sent
  /\ lastArrayId <= sent

SessionInv == Inv /\ ServerOrder

\* What a step that is not the server's leaves alone.
SessionKept ==
  /\ UNCHANGED <<server, sent, stopped>>
  /\ bc' # "none" <=> bc # "none"
  /\ up' \in {up, 0}

\* The session of such a step stutters.
LEMMA KeptIsStuttering ==
  ASSUME SessionKept
  PROVE  UNCHANGED SessionLife!vars
BY DEF SessionKept, SessionLife!vars

LEMMA KeptOrder ==
  ASSUME SessionInv, SessionKept, lastArrayId' = lastArrayId
  PROVE  ServerOrder'
BY DEF SessionInv, Inv, TypeOK, ServerOrder, SessionKept

\* A request that is given up does not change whether the server has a back channel.
LEMMA AbandonKeeps ==
  ASSUME Inv, AbandonGet
  PROVE  bc' # "none" <=> bc # "none"
BY DEF Inv, TypeOK, AbandonGet

LEMMA CancelKeeps ==
  ASSUME Inv, CancelRequests, UNCHANGED <<server, sent, stopped>>
  PROVE  SessionKept
BY AbandonKeeps DEF CancelRequests, SessionKept

LEMMA DropKeeps ==
  ASSUME Inv, DropRequest, UNCHANGED <<server, sent, stopped>>
  PROVE  SessionKept
BY AbandonKeeps DEF DropRequest, SessionKept

LEMMA RetryKeeps ==
  ASSUME Inv, RetryOrGiveUp
  PROVE  SessionKept /\ lastArrayId' = lastArrayId
<1>1. CASE DropRequest /\ UNCHANGED <<lastArrayId, server, sent, stopped>>
  BY <1>1, DropKeeps
<1>2. CASE SignalError /\ UNCHANGED <<server, sent, stopped>>
  BY <1>2, CancelKeeps DEF SignalError
<1> QED
  BY <1>1, <1>2 DEF RetryOrGiveUp

\* The opening of the client.
LEMMA OpeningKeeps ==
  ASSUME Inv, Connect \/ Test \/ ConnectFails
  PROVE  SessionKept /\ lastArrayId' = lastArrayId
<1>1. CASE Connect
  BY <1>1 DEF Connect, SessionKept, serverVars
<1>2. CASE Test
  BY <1>2 DEF Test, SessionKept, backVars, serverVars
<1>3. CASE ConnectFails
  BY <1>3, CancelKeeps DEF ConnectFails, SignalError
<1> QED
  BY <1>1, <1>2, <1>3

\* The array 'c' is the first one: what the client has of a session that is closed is
\* still less than 'stop'.
LEMMA OpenedKeeps ==
  ASSUME SessionInv, NEW disconnect \in BOOLEAN, Opened(disconnect)
  PROVE  SessionKept /\ ServerOrder'
<1>1. SessionKept
  BY DEF Opened, SessionKept, serverVars
<1>2. ServerOrder'
  BY DEF SessionInv, Inv, TypeOK, ServerOrder, Opened, serverVars
<1> QED
  BY <1>1, <1>2

\* What a response carries is not more than was sent; 'stop' is not taken here.
LEMMA BackDataKeeps ==
  ASSUME SessionInv, BackData
  PROVE  SessionKept /\ ServerOrder'
<1>1. SessionKept
  BY DEF BackData, SessionKept, serverVars
<1>2. ServerOrder'
  BY DEF SessionInv, Inv, TypeOK, ServerOrder, BackData, serverVars
<1> QED
  BY <1>1, <1>2

\* The other actions of the back channel.
LEMMA BackChannelKeeps ==
  ASSUME Inv,
         \/ StartBackChannel \/ BackStop \/ BackCompletes \/ BackEmpty \/ BackUnknown
         \/ BackBreaks \/ WatchDog \/ BackCompletesClosed \/ BackChannelDead
  PROVE  SessionKept /\ lastArrayId' = lastArrayId
<1>1. CASE StartBackChannel
  BY <1>1 DEF StartBackChannel, SessionKept, serverVars
<1>2. CASE BackStop \/ BackUnknown
  <2>1. SignalError /\ UNCHANGED <<server, sent, stopped>>
    BY <1>2 DEF BackStop, BackUnknown
  <2> QED
    BY <2>1, CancelKeeps DEF SignalError
<1>3. CASE BackCompletes \/ BackCompletesClosed \/ BackChannelDead
  <2>1. DropRequest /\ UNCHANGED <<lastArrayId, server, sent, stopped>>
    BY <1>3, Zenon DEF BackCompletes, BackCompletesClosed, BackChannelDead
  <2> QED
    BY <2>1, DropKeeps
<1>4. CASE BackEmpty \/ BackBreaks \/ WatchDog
  BY <1>4, RetryKeeps DEF BackEmpty, BackBreaks, WatchDog
<1> QED
  BY <1>1, <1>2, <1>3, <1>4

\* A POST and its answer.
LEMMA PostKeeps ==
  ASSUME Inv,
         Post \/ ServerAnswersPost \/ PostAnswered \/ PostFails \/ PostRejected
  PROVE  SessionKept /\ lastArrayId' = lastArrayId
<1>1. CASE Post \/ ServerAnswersPost \/ PostFails
  BY <1>1 DEF Post, ServerAnswersPost, PostFails, SessionKept, backVars, serverVars
<1>2. CASE PostAnswered
  <2>1. UNCHANGED <<lastArrayId, server, sent, stopped>>
    BY <1>2 DEF PostAnswered
  <2>2. CASE BackChannelPresent
    BY <2>1, <2>2 DEF BackChannelPresent, SessionKept
  <2>3. CASE BackChannelMissing
    <3>1. UNCHANGED <<bc, up>> \/ (AbandonGet /\ up' = 0)
      BY <2>3, Zenon DEF BackChannelMissing
    <3> QED
      BY <2>1, <3>1, AbandonKeeps DEF SessionKept
  <2> QED
    BY <1>2, <2>2, <2>3 DEF PostAnswered
<1>3. CASE PostRejected
  BY <1>3, CancelKeeps DEF PostRejected, SignalError
<1> QED
  BY <1>1, <1>2, <1>3

\* Disconnect, and a GET that the server does not get or does not take.
LEMMA OtherKeeps ==
  ASSUME Inv, Disconnect \/ GetComesTooLate \/ GetLost
  PROVE  SessionKept /\ lastArrayId' = lastArrayId
<1>1. CASE Disconnect
  BY <1>1, CancelKeeps DEF Disconnect
<1>2. CASE GetComesTooLate
  BY <1>2 DEF GetComesTooLate, SessionKept, Unchanged, serverVars
<1>3. CASE GetLost
  BY <1>3 DEF GetLost, SessionKept, Unchanged, Inv, TypeOK
<1> QED
  BY <1>1, <1>2, <1>3

-----------------------------------------------------------------------------
(***************************************************************************)
(* The steps of the server.                                                *)
(***************************************************************************)

SessionStep == SessionLife!Next \/ UNCHANGED SessionLife!vars

LEMMA ServerOpensLife ==
  ASSUME SessionInv, ServerOpens
  PROVE  SessionStep /\ ServerOrder'
<1>1. SessionLife!Open
  BY DEF SessionInv, ServerOrder, ServerOpens, SessionLife!Open
<1>2. ServerOrder'
  BY DEF SessionInv, Inv, TypeOK, ServerOrder, ServerOpens, backVars
<1> QED
  BY <1>1, <1>2 DEF SessionStep, SessionLife!Next

\* A session closed for writing has an array that the client lacks, so the response
\* carries 'stop' and ends.
LEMMA GetSetsBackChannelLife ==
  ASSUME SessionInv, GetSetsBackChannel
  PROVE  SessionStep /\ ServerOrder'
<1>1. lastArrayId' = lastArrayId /\ UNCHANGED <<sent, stopped>>
  BY DEF GetSetsBackChannel, Unchanged
<1>2. ServerOrder'
  <2>1. CASE server = "open"
    BY <1>1, <2>1 DEF SessionInv, Inv, TypeOK, ServerOrder, GetSetsBackChannel
  <2>2. CASE server = "writeClosed"
    BY <1>1, <2>2 DEF SessionInv, Inv, TypeOK, ServerOrder, GetSetsBackChannel
  <2> QED
    BY <2>1, <2>2 DEF GetSetsBackChannel
<1>3. CASE server = "open"
  <2>1. server' = "open"
    BY <1>3 DEF SessionInv, ServerOrder, GetSetsBackChannel
  <2>2. SessionLife!ChangeBackChannel \/ UNCHANGED SessionLife!vars
    BY <1>1, <1>3, <2>1 DEF SessionLife!ChangeBackChannel, SessionLife!vars
  <2> QED
    BY <1>2, <2>2 DEF SessionStep, SessionLife!Next
<1>4. CASE server = "writeClosed"
  <2>1. stopped /\ lastArrayId < sent
    BY <1>4 DEF SessionInv, ServerOrder
  <2>2. up' > 0
    BY <2>1 DEF SessionInv, Inv, TypeOK, ServerOrder, GetSetsBackChannel
  <2>3. bc' = "none" /\ server' = "closed"
    BY <2>1, <2>2 DEF GetSetsBackChannel
  <2>4. SessionLife!End
    BY <1>1, <1>4, <2>3 DEF SessionLife!End
  <2> QED
    BY <1>2, <2>4 DEF SessionStep, SessionLife!Next
<1> QED
  BY <1>3, <1>4 DEF GetSetsBackChannel

LEMMA LateGetLife ==
  ASSUME SessionInv, LateGet
  PROVE  SessionStep /\ ServerOrder'
<1>1. UNCHANGED <<lastArrayId, up, sent, stopped>>
  BY DEF LateGet, Unchanged
<1>2. CASE server \notin {"open", "writeClosed"}
  <2>1. UNCHANGED <<server, bc>>
    BY <1>2 DEF LateGet
  <2>2. SessionKept
    BY <1>1, <2>1 DEF SessionKept
  <2> QED
    BY <1>1, <2>2, KeptIsStuttering, KeptOrder DEF SessionStep
<1>3. CASE server = "open"
  <2>1. server' = "open"
    BY <1>3 DEF SessionInv, ServerOrder, LateGet
  <2>2. SessionLife!ChangeBackChannel \/ UNCHANGED SessionLife!vars
    BY <1>1, <1>3, <2>1 DEF SessionLife!ChangeBackChannel, SessionLife!vars
  <2>3. ServerOrder'
    BY <1>1, <1>3, <2>1 DEF SessionInv, ServerOrder
  <2> QED
    BY <2>2, <2>3 DEF SessionStep, SessionLife!Next
<1>4. CASE server = "writeClosed"
  <2>1. server' = "closed" /\ bc' = "none"
    BY <1>4 DEF SessionInv, ServerOrder, LateGet
  <2>2. SessionLife!End
    BY <1>1, <1>4, <2>1 DEF SessionLife!End
  <2>3. ServerOrder'
    BY <1>1, <1>4, <2>1 DEF SessionInv, ServerOrder
  <2> QED
    BY <2>2, <2>3 DEF SessionStep, SessionLife!Next
<1> QED
  BY <1>2, <1>3, <1>4

LEMMA ServerSendsLife ==
  ASSUME SessionInv, ServerSends
  PROVE  SessionStep /\ ServerOrder'
<1>1. /\ server = "open" /\ server' = "open"
      /\ sent' = sent + 1
      /\ UNCHANGED <<lastArrayId, stopped>>
  BY DEF ServerSends, Unchanged
<1>2. bc' \in {"none", bc} /\ up' \in {up, sent'}
  BY DEF ServerSends, Written
<1>3. SessionLife!SendArray
  BY <1>1, <1>2 DEF SessionLife!SendArray
<1>4. ServerOrder'
  BY <1>1, <1>2 DEF SessionInv, Inv, TypeOK, ServerOrder
<1> QED
  BY <1>3, <1>4 DEF SessionStep, SessionLife!Next

\* What the client has was sent before 'stop'.
LEMMA ServerClosesLife ==
  ASSUME SessionInv, ServerCloses
  PROVE  SessionStep /\ ServerOrder'
<1>1. /\ server = "open" /\ stopped'
      /\ sent' = sent + 1
      /\ UNCHANGED lastArrayId
  BY DEF ServerCloses, Unchanged
<1>2. bc' = "none" /\ up' \in {up, sent'}
  BY DEF ServerCloses, Written
<1>3. server' = "writeClosed" \/ (bc # "none" /\ server' = "closed")
  BY DEF ServerCloses
<1>4. SessionLife!Close
  BY <1>1, <1>2, <1>3 DEF SessionLife!Close
<1>5. ServerOrder'
  BY <1>1, <1>2, <1>3 DEF SessionInv, Inv, TypeOK, ServerOrder
<1> QED
  BY <1>4, <1>5 DEF SessionStep, SessionLife!Next

LEMMA ServerEndsLife ==
  ASSUME SessionInv, ServerEnds
  PROVE  SessionStep /\ ServerOrder'
<1>1. /\ server \in {"open", "writeClosed"} /\ bc' = "none"
      /\ server' = IF bc = "none" THEN "closed" ELSE server
      /\ UNCHANGED <<lastArrayId, up, sent, stopped>>
  BY DEF ServerEnds, Clear, Unchanged
<1>2. ServerOrder'
  BY <1>1 DEF SessionInv, ServerOrder
<1>3. CASE bc = "none"
  BY <1>1, <1>2, <1>3 DEF SessionStep, SessionLife!Next, SessionLife!End
<1>4. CASE bc # "none"
  <2>1. server = "open"
    BY <1>1, <1>4 DEF SessionInv, ServerOrder
  <2> QED
    BY <1>1, <1>2, <1>4, <2>1
       DEF SessionStep, SessionLife!Next, SessionLife!ChangeBackChannel
<1> QED
  BY <1>3, <1>4

LEMMA ServerTerminatesLife ==
  ASSUME SessionInv, ServerTerminates
  PROVE  SessionStep /\ ServerOrder'
<1>1. UNCHANGED <<lastArrayId, up, sent, stopped>>
  BY DEF ServerTerminates
<1>2. CASE server \in {"open", "writeClosed"}
  <2>1. server' = "closed" /\ bc' = "none"
    BY <1>2 DEF ServerTerminates, Clear
  <2> QED
    BY <1>1, <1>2, <2>1
       DEF SessionInv, ServerOrder, SessionStep, SessionLife!Next, SessionLife!End
<1>3. CASE server \notin {"open", "writeClosed"}
  <2>1. UNCHANGED <<server, bc>>
    BY <1>3 DEF ServerTerminates
  <2>2. SessionKept
    BY <1>1, <2>1 DEF SessionKept
  <2> QED
    BY <1>1, <2>2, KeptIsStuttering, KeptOrder DEF SessionStep
<1> QED
  BY <1>2, <1>3

LEMMA ServerRemovesLife ==
  ASSUME SessionInv, ServerRemoves
  PROVE  SessionStep /\ ServerOrder'
<1>1. /\ server = "closed" /\ server' = "unknown"
      /\ UNCHANGED <<lastArrayId, up, bc, sent, stopped>>
  BY DEF ServerRemoves, Unchanged
<1> QED
  BY <1>1 DEF SessionInv, ServerOrder, SessionStep, SessionLife!Next, SessionLife!Forget

\* Every step is one of the session or none of its business.
LEMMA StepLife ==
  ASSUME SessionInv, [Next]_vars
  PROVE  SessionStep /\ ServerOrder'
<1> USE DEF SessionInv
<1>1. CASE SessionKept /\ lastArrayId' = lastArrayId
  BY <1>1, KeptIsStuttering, KeptOrder DEF SessionStep
<1>2. CASE Connect \/ Test \/ ConnectFails
  BY <1>1, <1>2, OpeningKeeps
<1>3. CASE \E disconnect \in BOOLEAN : Opened(disconnect)
  BY <1>3, OpenedKeeps, KeptIsStuttering DEF SessionStep
<1>4. CASE BackData
  BY <1>4, BackDataKeeps, KeptIsStuttering DEF SessionStep
<1>5. CASE \/ StartBackChannel \/ BackStop \/ BackCompletes \/ BackEmpty \/ BackUnknown
           \/ BackBreaks \/ WatchDog \/ BackCompletesClosed \/ BackChannelDead
  BY <1>1, <1>5, BackChannelKeeps
<1>6. CASE Post \/ ServerAnswersPost \/ PostAnswered \/ PostFails \/ PostRejected
  BY <1>1, <1>6, PostKeeps
<1>7. CASE Disconnect \/ GetComesTooLate \/ GetLost
  BY <1>1, <1>7, OtherKeeps
<1>8. CASE ServerOpens \/ GetSetsBackChannel \/ LateGet
  BY <1>8, ServerOpensLife, GetSetsBackChannelLife, LateGetLife
<1>9. CASE ServerSends \/ ServerCloses \/ ServerEnds \/ ServerTerminates \/ ServerRemoves
  BY <1>9, ServerSendsLife, ServerClosesLife, ServerEndsLife, ServerTerminatesLife,
     ServerRemovesLife
<1>10. CASE UNCHANGED vars
  <2>1. SessionKept /\ lastArrayId' = lastArrayId
    BY <1>10 DEF vars, backVars, serverVars, SessionKept
  <2> QED
    BY <1>1, <2>1
<1> QED
  BY <1>2, <1>3, <1>4, <1>5, <1>6, <1>7, <1>8, <1>9, <1>10 DEF Next, BackDone

LEMMA InitLife ==
  ASSUME Init
  PROVE  SessionLife!Init /\ ServerOrder
BY DEF Init, SessionLife!Init, ServerOrder

\* The server that the client is modelled against is a session, whatever requests are
\* lost, given up or late: the same specification that Channel and Handler implement.
THEOREM ClientServerIsASession == Spec => ImplementsSession
<1>1. Init => SessionLife!Init /\ SessionInv
  BY InitLife, InitEstablishesInv DEF SessionInv
<1>2. SessionInv /\ [Next]_vars => SessionInv' /\ [SessionLife!Next]_(SessionLife!vars)
  BY StepLife, StepKeepsInv DEF SessionInv, SessionStep
<1> QED
  BY <1>1, <1>2, PTL DEF Spec, ImplementsSession, SessionLife!Spec
=============================================================================
