------------------------------ MODULE Session ------------------------------
(***************************************************************************)
(* What a session is to the rest of the system, whatever its requests,     *)
(* timers and goroutines do.  It opens with its first back channel and     *)
(* queues arrays while it is ready; only a ready session has a back        *)
(* channel.  Once the server has closed it for writing, the next back      *)
(* channel that it is given ends it.  A session that is closed stays       *)
(* closed, and only a closed one is forgotten.  What it does not survive   *)
(* is a Close after the end, which takes the process with it.              *)
(*                                                                         *)
(* Channel and Handler implement it with their methods and goroutines; the *)
(* server that Client is modelled against is an implementation too.        *)
(***************************************************************************)
EXTENDS Naturals

VARIABLES
  status,      \* state, "unknown" out of the session map, "crashed" after a panic
  streaming,   \* TRUE if a back channel is set
  sent         \* the id of the last array

vars == <<status, streaming, sent>>

Init ==
  /\ status = "init"
  /\ streaming = FALSE
  /\ sent = 0

\* The first back channel, which 'c' may use up.
Open ==
  /\ status = "init"
  /\ status' = "ready"
  /\ streaming' \in BOOLEAN
  /\ sent' = sent + 1

\* Back channels come, go and replace each other.
ChangeBackChannel ==
  /\ status = "ready"
  /\ streaming' = ~streaming
  /\ UNCHANGED <<status, sent>>

SendArray ==
  /\ status = "ready"
  /\ sent' = sent + 1
  /\ streaming' => streaming
  /\ streaming' \in BOOLEAN
  /\ UNCHANGED status

\* 'stop' is the last array; a back channel that takes it ends the session.
Close ==
  /\ status \in {"init", "ready"}
  /\ status' = "writeClosed" \/ (streaming /\ status' = "closed")
  /\ streaming' = FALSE
  /\ sent' = sent + 1

\* A request to terminate, a timeout, or a back channel for what was left.
End ==
  /\ status \in {"init", "ready", "writeClosed"}
  /\ status' = "closed"
  /\ streaming' = FALSE
  /\ UNCHANGED sent

Forget ==
  /\ status = "closed"
  /\ status' = "unknown"
  /\ UNCHANGED <<streaming, sent>>

\* close of a closed mapChan.
CloseAgain ==
  /\ status \in {"writeClosed", "closed", "unknown"}
  /\ status' = "crashed"
  /\ sent' = sent + 1
  /\ UNCHANGED streaming

Next ==
  \/ Open \/ ChangeBackChannel \/ SendArray \/ Close \/ End \/ Forget
  \/ CloseAgain

Spec == Init /\ [][Next]_vars
=============================================================================
