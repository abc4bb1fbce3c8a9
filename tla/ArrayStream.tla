---------------------------- MODULE ArrayStream ----------------------------
(***************************************************************************)
(* What a browser channel promises to the client: the arrays 1, 2, 3, ...  *)
(* that the server queues arrive in this order, each exactly once up to    *)
(* any point, and the server keeps each until it has arrived.  Several may *)
(* arrive, or be released, in one step.                                    *)
(***************************************************************************)
EXTENDS Naturals, Sequences

VARIABLES
  queued,     \* how many arrays the server has queued
  kept,       \* those it could still send again
  received    \* the arrays the client got

vars == <<queued, kept, received>>

Init ==
  /\ queued = 0
  /\ kept = <<>>
  /\ received = <<>>

QueueArray ==
  /\ queued' = queued + 1
  /\ kept' = Append(kept, queued + 1)
  /\ UNCHANGED received

ReceiveArrays ==
  \E n \in 1..(queued - Len(received)) :
    /\ received' = received \o [i \in 1..n |-> Len(received) + i]
    /\ UNCHANGED <<queued, kept>>

ReleaseArrays ==
  \E n \in 1..Len(kept) :
    /\ kept[n] <= Len(received)
    /\ kept' = SubSeq(kept, n + 1, Len(kept))
    /\ UNCHANGED <<queued, received>>

Next == QueueArray \/ ReceiveArrays \/ ReleaseArrays

Spec == Init /\ [][Next]_vars
=============================================================================
