------------------------------ MODULE MapQueue ------------------------------
(***************************************************************************)
(* The reordering queue of the maps posted by the client (map.go).  A map  *)
(* is identified by its id: the maps of one request are offset, offset+1,  *)
(* ..., so the Go map from ids to maps is the set of the ids it holds.     *)
(***************************************************************************)
EXTENDS Integers, FiniteSets

CONSTANT MapCapacity

ASSUME MapCapacityAssumption == MapCapacity \in Nat

MapQueueRecord == [next : Nat, maps : SUBSET Nat]

NewMapQueue == [next |-> 0, maps |-> {}]

\* The ids of a request of n maps that starts at offset.
Batch(offset, n) == offset .. (offset + n - 1)

\* Mutant: a batch that fills the queue is rejected.
EnqueueFailsAtCapacity(q, offset, n) ==
  /\ offset >= q.next
  /\ Cardinality(q.maps) + n >= MapCapacity

\* enqueue returns errCapacityExceeded.  Ids already queued count twice.
EnqueueFails(q, offset, n) ==
  /\ offset >= q.next
  /\ Cardinality(q.maps) + n > MapCapacity

\* Mutant: maps that were delivered are enqueued again.
EnqueueAgain(q, offset, n) ==
  IF Cardinality(q.maps) + n > MapCapacity
    THEN q
    ELSE [q EXCEPT !.maps = @ \union Batch(offset, n)]

\* A request that starts before the next map is taken for a retry.
Enqueue(q, offset, n) ==
  IF offset < q.next \/ EnqueueFails(q, offset, n)
    THEN q
    ELSE [q EXCEPT !.maps = @ \union Batch(offset, n)]

CanDequeue(q) == q.next \in q.maps

Dequeue(q) == [next |-> q.next + 1, maps |-> q.maps \ {q.next}]
=============================================================================
