---------------------------- MODULE TestChannel ----------------------------
(***************************************************************************)
(* The connection test a client makes before it opens a channel            *)
(* (goog.net.BrowserTestChannel) and the handler that answers it           *)
(* (handleTestRequest in handler.go).  It finds out whether the network    *)
(* passes on a response in parts or holds it back until it ends: the       *)
(* server writes '11111', flushes, and writes '2' two seconds later.       *)
(*                                                                         *)
(* Two seconds are long: a network that does not buffer delivers the first *)
(* part before the second is written, and parts that arrive apart do so by *)
(* more than the 200 ms the client asks for.  The server never names a     *)
(* blocked prefix, so that the client never checks for one.                *)
(***************************************************************************)
EXTENDS Integers

VARIABLES
  browser,     \* "xhr" or "trident": whether supportsXhrStreaming
  buffered,    \* TRUE if the network holds responses back
  test,        \* where the client is with its test
  written,     \* parts of the answer that have left the server
  useChunked   \* useChunked_ of the client

testVars == <<browser, buffered, test, written, useChunked>>

TestTypeOK ==
  /\ browser \in {"xhr", "trident"}
  /\ buffered \in BOOLEAN
  /\ test \in {"stage1", "stage2", "intermediate", "finished", "failed"}
  /\ written \in 0..2
  /\ useChunked \in BOOLEAN

TestInit ==
  /\ browser \in {"xhr", "trident"}
  /\ buffered \in BOOLEAN
  /\ test = "stage1"
  /\ written = 0
  /\ useChunked = FALSE

\* onRequestComplete of the first request, then connectStage2_.
StageOneComplete ==
  /\ test = "stage1"
  /\ test' = "stage2"
  /\ UNCHANGED <<browser, buffered, written, useChunked>>

\* Mutant: the first part is not flushed.
WriteWithoutFlush ==
  /\ test = "stage2"
  /\ written = 0
  /\ written' = 2
  /\ UNCHANGED <<browser, buffered, test, useChunked>>

\* handleTestRequest: one part after the other, the first one flushed.
HandleTestRequest ==
  /\ test \in {"stage2", "intermediate"}
  /\ written < 2
  /\ written = 1 /\ ~buffered => test = "intermediate"
  /\ written' = written + 1
  /\ UNCHANGED <<browser, buffered, test, useChunked>>

\* testConnectionFinished.
TestFinished(good) ==
  /\ test' = "finished"
  /\ useChunked' = good
  /\ UNCHANGED <<browser, buffered, written>>

\* onRequestData with '11111' alone.  checkForEarlyNonBuffered_ is content at
\* once, unless Trident got it more than 500 ms after the test began.
TestIntermediate ==
  /\ test = "stage2"
  /\ written = 1
  /\ ~buffered
  /\ test' = "intermediate"
  /\ UNCHANGED <<browser, buffered, written, useChunked>>

TestEarly ==
  /\ test = "stage2"
  /\ written = 1
  /\ ~buffered
  /\ TestFinished(TRUE)

\* Mutant: a complete answer will do.
CompleteInAnyCase ==
  /\ test \in {"stage2", "intermediate"}
  /\ written = 2
  /\ TestFinished(TRUE)

\* onRequestComplete of the second request.
TestComplete ==
  /\ test \in {"stage2", "intermediate"}
  /\ written = 2
  /\ TestFinished(test = "intermediate")

TestFails ==
  /\ test \in {"stage1", "stage2", "intermediate"}
  /\ test' = "failed"
  /\ UNCHANGED <<browser, buffered, written, useChunked>>
=============================================================================
