----------------------------- MODULE MapStream -----------------------------
(***************************************************************************)
(* What the forward channel promises to the application: the maps that the *)
(* page numbers 0, 1, 2, ... arrive in this order, each at most once, and  *)
(* none before it was sent.  Several may arrive in one step.               *)
(***************************************************************************)
EXTENDS Naturals, Sequences

VARIABLES
  sent,       \* how many maps the page has sent
  delivered   \* the maps the application got

vars == <<sent, delivered>>

Init ==
  /\ sent = 0
  /\ delivered = <<>>

SendMap ==
  /\ sent' = sent + 1
  /\ UNCHANGED delivered

DeliverMaps ==
  \E n \in 1..(sent - Len(delivered)) :
    /\ delivered' = delivered \o [i \in 1..n |-> Len(delivered) + i - 1]
    /\ UNCHANGED sent

Next == SendMap \/ DeliverMaps

Spec == Init /\ [][Next]_vars
=============================================================================
