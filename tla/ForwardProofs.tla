--------------------------- MODULE ForwardProofs ---------------------------
(***************************************************************************)
(* Proofs about ForwardChannel: its invariants hold, and it implements     *)
(* MapStream, whatever the number of maps and of retries, and whatever the *)
(* capacity of the queue.  The conjuncts of Inv come first, then lemmas    *)
(* about numbered sequences and about the first gap of the queue, then one *)
(* lemma per action, then the theorems.                                    *)
(***************************************************************************)
EXTENDS ForwardChannel, SequenceTheorems, FiniteSetTheorems,
        WellFoundedInduction, TLAPS

Consecutive(s, first) == \A i \in 1..Len(s) : s[i] = first + i - 1

Numbers(first, n) == [i \in 1..n |-> first + i - 1]

\* The maps below Posted were in a request; those from FirstPending on were
\* in the last one.
Posted == nextMapId - Len(outgoingMaps)
FirstPending == Posted - Len(pendingMaps)

\* Pending and waiting maps are numbered one after the other up to the last.
Numbered ==
  /\ 0 <= FirstPending
  /\ Consecutive(pendingMaps, FirstPending)
  /\ Consecutive(outgoingMaps, Posted)

\* Pending maps fit in a request, and go first in the next one.
Batched ==
  /\ Len(pendingMaps) <= MaxMapsPerRequest
  /\ request # 0 => request = requests /\ timer = "none"
  /\ state = "INIT" =>
       /\ pendingMaps = <<>>
       /\ timer = "none"
       /\ request = 0
  /\ state = "OPENED" /\ request = 0 /\ pendingMaps # <<>> => timer = "retry"

PostOK(p) ==
  /\ p.id <= requests
  /\ Consecutive(p.maps, p.offset)
  /\ p.offset + Len(p.maps) <= Posted
  /\ Len(p.maps) <= MaxMapsPerRequest

Network ==
  /\ \A p \in posts : PostOK(p)
  /\ \A r \in responses : r.id <= requests

\* The queue holds maps beyond a gap, mapChan those before it.
QueueInOrder ==
  /\ IsFiniteSet(maps.maps)
  /\ \A id \in maps.maps : queued[id] = id /\ maps.next < id /\ id < Posted
  /\ maps.next <= Posted
  /\ Len(mapChan) = maps.next
  /\ Consecutive(mapChan, 0)

\* The requests of a careful page.  A request repeats the pending maps and
\* nothing else, so that the server has all of them or none.
CarefulClient ==
  /\ state = "INIT" => nextMapId = 0
  /\ state = "OPENED" => ready
  /\ pendingMaps # <<>> =>
       outgoingMaps = <<>> \/ Len(pendingMaps) = MaxMapsPerRequest

CarefulPost(p) ==
  /\ p.id = request => p.maps = pendingMaps
  /\ p.maps # <<>> =>
       /\ ready
       /\ \/ p.offset < FirstPending
          \/ p.offset = FirstPending /\ Len(p.maps) = Len(pendingMaps)

CarefulServer ==
  /\ maps.maps = {}
  /\ maps.next \in {FirstPending, Posted}
  /\ responses # {} => ready
  /\ [id |-> request, ok |-> TRUE] \in responses => maps.next = Posted
  /\ \A id \in delivered : id < maps.next

Careful ==
  page = "careful" =>
    /\ CarefulClient
    /\ CarefulServer
    /\ \A p \in posts : CarefulPost(p)

Inv ==
  /\ TypeOK
  /\ Numbered
  /\ Batched
  /\ Network
  /\ QueueInOrder
  /\ Careful

-----------------------------------------------------------------------------
(***************************************************************************)
(* Numbered sequences.                                                     *)
(***************************************************************************)

LEMMA ConsecutiveConcat ==
  ASSUME NEW s \in Seq(Nat), NEW t \in Seq(Nat), NEW a \in Int,
         Consecutive(s, a), Consecutive(t, a + Len(s))
  PROVE  /\ s \o t \in Seq(Nat)
         /\ Len(s \o t) = Len(s) + Len(t)
         /\ Consecutive(s \o t, a)
<1>1. /\ s \o t \in Seq(Nat)
      /\ Len(s \o t) = Len(s) + Len(t)
      /\ \A i \in 1..(Len(s) + Len(t)) :
           (s \o t)[i] = IF i <= Len(s) THEN s[i] ELSE t[i - Len(s)]
  BY ConcatProperties
<1>2. Len(s) \in Nat /\ Len(t) \in Nat
  BY LenProperties
<1>3. ASSUME NEW i \in 1..Len(s \o t) PROVE (s \o t)[i] = a + i - 1
  <2>1. CASE i <= Len(s)
    BY <1>1, <1>2, <1>3, <2>1 DEF Consecutive
  <2>2. CASE ~(i <= Len(s))
    <3>1. i - Len(s) \in 1..Len(t)
      BY <1>1, <1>2, <1>3, <2>2
    <3>2. t[i - Len(s)] = a + Len(s) + (i - Len(s)) - 1
      BY <3>1 DEF Consecutive
    <3> QED
      BY <1>1, <1>2, <1>3, <2>2, <3>2
  <2> QED
    BY <2>1, <2>2
<1> QED
  BY <1>1, <1>3 DEF Consecutive

LEMMA ConsecutiveSplit ==
  ASSUME NEW s \in Seq(Nat), NEW a \in Int, Consecutive(s, a),
         NEW k \in 0..Len(s)
  PROVE  /\ SubSeq(s, 1, k) \in Seq(Nat)
         /\ Len(SubSeq(s, 1, k)) = k
         /\ Consecutive(SubSeq(s, 1, k), a)
         /\ SubSeq(s, k + 1, Len(s)) \in Seq(Nat)
         /\ Len(SubSeq(s, k + 1, Len(s))) = Len(s) - k
         /\ Consecutive(SubSeq(s, k + 1, Len(s)), a + k)
<1>1. Len(s) \in Nat /\ \A i \in 1..Len(s) : s[i] \in Nat
  BY LenProperties, ElementOfSeq
<1>2. /\ SubSeq(s, 1, k) \in Seq(Nat)
      /\ Len(SubSeq(s, 1, k)) = k
      /\ \A i \in 1..k : SubSeq(s, 1, k)[i] = s[1 + i - 1]
  <2>1. \A i \in 1..k : s[i] \in Nat
    BY <1>1
  <2>2. k \in Int /\ 1 \in Int
    BY <1>1
  <2>3. /\ SubSeq(s, 1, k) \in Seq(Nat)
        /\ Len(SubSeq(s, 1, k)) = IF 1 <= k THEN k - 1 + 1 ELSE 0
        /\ \A i \in 1..(k - 1 + 1) : SubSeq(s, 1, k)[i] = s[1 + i - 1]
    BY <2>1, <2>2, SubSeqProperties
  <2> QED
    BY <1>1, <2>3
<1>3. /\ SubSeq(s, k + 1, Len(s)) \in Seq(Nat)
      /\ Len(SubSeq(s, k + 1, Len(s))) = Len(s) - k
      /\ \A i \in 1..(Len(s) - k) : SubSeq(s, k + 1, Len(s))[i] = s[k + 1 + i - 1]
  <2>1. \A i \in (k + 1)..Len(s) : s[i] \in Nat
    BY <1>1
  <2>2. k + 1 \in Int /\ Len(s) \in Int
    BY <1>1
  <2>3. /\ SubSeq(s, k + 1, Len(s)) \in Seq(Nat)
        /\ Len(SubSeq(s, k + 1, Len(s))) =
             IF k + 1 <= Len(s) THEN Len(s) - (k + 1) + 1 ELSE 0
        /\ \A i \in 1..(Len(s) - (k + 1) + 1) :
             SubSeq(s, k + 1, Len(s))[i] = s[k + 1 + i - 1]
    BY <2>1, <2>2, SubSeqProperties
  <2> QED
    BY <1>1, <2>3
<1>4. Consecutive(SubSeq(s, 1, k), a)
  <2>1. \A i \in 1..k : SubSeq(s, 1, k)[i] = a + i - 1
    BY <1>1, <1>2 DEF Consecutive
  <2> QED
    BY <1>2, <2>1 DEF Consecutive
<1>5. Consecutive(SubSeq(s, k + 1, Len(s)), a + k)
  <2>1. ASSUME NEW i \in 1..(Len(s) - k)
        PROVE  SubSeq(s, k + 1, Len(s))[i] = a + k + i - 1
    <3>1. k + i \in 1..Len(s) /\ k + 1 + i - 1 = k + i
      BY <1>1
    <3>2. s[k + i] = a + (k + i) - 1
      BY <3>1 DEF Consecutive
    <3> QED
      BY <1>1, <1>3, <3>1, <3>2
  <2> QED
    BY <1>3, <2>1 DEF Consecutive
<1> QED
  BY <1>2, <1>3, <1>4, <1>5

LEMMA ConsecutiveAppend ==
  ASSUME NEW s \in Seq(Nat), NEW a \in Int, NEW n \in Nat,
         Consecutive(s, a), n = a + Len(s)
  PROVE  /\ Append(s, n) \in Seq(Nat)
         /\ Len(Append(s, n)) = Len(s) + 1
         /\ Consecutive(Append(s, n), a)
<1>1. /\ Append(s, n) \in Seq(Nat)
      /\ Len(Append(s, n)) = Len(s) + 1
      /\ \A i \in 1..Len(s) : Append(s, n)[i] = s[i]
      /\ Append(s, n)[Len(s) + 1] = n
  BY AppendProperties
<1>2. Len(s) \in Nat
  BY LenProperties
<1> QED
  BY <1>1, <1>2 DEF Consecutive

LEMMA ConsecutiveEqual ==
  ASSUME NEW s \in Seq(Nat), NEW t \in Seq(Nat), NEW a \in Int,
         Consecutive(s, a), Consecutive(t, a), Len(s) = Len(t)
  PROVE  s = t
<1>1. \A i \in 1..Len(s) : s[i] = t[i]
  BY DEF Consecutive
<1> QED
  BY <1>1, SeqEqual

LEMMA EmptyIsConsecutive ==
  /\ <<>> \in Seq(Nat)
  /\ Len(<<>>) = 0
  /\ \A a : Consecutive(<<>>, a)
<1>1. <<>> \in Seq(Nat) /\ Len(<<>>) = 0
  BY EmptySeq
<1> QED
  BY <1>1 DEF Consecutive

LEMMA NumbersAreConsecutive ==
  ASSUME NEW first \in Nat, NEW n \in Nat
  PROVE  /\ Numbers(first, n) \in Seq(Nat)
         /\ Len(Numbers(first, n)) = n
         /\ Consecutive(Numbers(first, n), first)
         /\ n = 0 => Numbers(first, n) = <<>>
<1>1. Numbers(first, n) \in [1..n -> Nat]
  BY DEF Numbers
<1>2. Numbers(first, n) \in Seq(Nat)
  BY <1>1, SeqDef
<1>3. Len(Numbers(first, n)) = n
  BY <1>2, LenProperties DEF Numbers
<1>4. \A i \in 1..n : Numbers(first, n)[i] = first + i - 1
  BY DEF Numbers
<1> QED
  BY <1>2, <1>3, <1>4, EmptySeq DEF Consecutive

-----------------------------------------------------------------------------
(***************************************************************************)
(* Least elements, and the first gap of the queue.                         *)
(***************************************************************************)

LEMMA MinProperties ==
  ASSUME NEW S \in SUBSET Nat, S # {}
  PROVE  Min(S) \in S /\ \A x \in S : Min(S) <= x
<1>1. \E x \in S : \A y \in S : ~(<<y, x>> \in OpToRel(<, Nat))
  BY NatLessThanWellFounded, WFMin
<1>2. \E x \in S : \A y \in S : x <= y
  <2>1. PICK x \in S : \A y \in S : ~(<<y, x>> \in OpToRel(<, Nat))
    BY <1>1
  <2>2. ASSUME NEW y \in S PROVE x <= y
    <3>1. y < x => <<y, x>> \in OpToRel(<, Nat)
      BY DEF OpToRel
    <3>2. ~(y < x)
      BY <2>1, <3>1
    <3>3. x \in Nat /\ y \in Nat
      OBVIOUS
    <3> QED
      BY <3>2, <3>3
  <2> QED
    BY <2>2
<1> QED
  BY <1>2 DEF Min

LEMMA MinOfTwo ==
  ASSUME NEW m \in Nat, NEW n \in Nat
  PROVE  Min({m, n}) = IF m <= n THEN m ELSE n
<1>1. Min({m, n}) \in {m, n} /\ \A x \in {m, n} : Min({m, n}) <= x
  BY MinProperties
<1> QED
  BY <1>1

LEMMA FirstGap ==
  ASSUME NEW q \in MapQueueRecord, IsFiniteSet(q.maps)
  PROVE  \E gap \in Nat :
           /\ gap >= q.next
           /\ gap \notin q.maps
           /\ UpToGap(q) = q.next..(gap - 1)
           /\ UpToGap(q) \subseteq q.maps
           /\ Cardinality(UpToGap(q)) = gap - q.next
<1> DEFINE N == Cardinality(q.maps)
           Ids == q.next..(q.next + N)
           Gaps == {i \in Ids : i \notin q.maps}
           gap == Min(Gaps)
<1>1. N \in Nat /\ q.next \in Nat /\ q.maps \in SUBSET Nat
  BY FS_CardinalityType DEF MapQueueRecord
<1>2. Gaps # {}
  <2>1. SUFFICES ASSUME Ids \subseteq q.maps PROVE FALSE
    OBVIOUS
  <2>2. Cardinality(Ids) = N + 1
    <3>1. q.next \in Int /\ q.next + N \in Int
      BY <1>1
    <3> HIDE DEF N
    <3>2. Cardinality(Ids) = IF q.next > q.next + N THEN 0
                               ELSE (q.next + N) - q.next + 1
      BY <3>1, FS_Interval
    <3> QED
      BY <1>1, <3>2
  <2>3. Cardinality(Ids) <= N
    BY <2>1, FS_Subset
  <2> QED
    BY <1>1, <2>2, <2>3
<1>3. gap \in Gaps /\ \A i \in Gaps : gap <= i
  <2>1. Gaps \in SUBSET Nat
    BY <1>1
  <2> QED
    BY <1>2, <2>1, MinProperties
<1> HIDE DEF gap, N
<1>4. gap \in Nat /\ gap >= q.next /\ gap <= q.next + N /\ gap \notin q.maps
  BY <1>1, <1>3
<1>5. UpToGap(q) = q.next..(gap - 1)
  BY DEF UpToGap, gap, N
<1>6. UpToGap(q) \subseteq q.maps
  <2>1. SUFFICES ASSUME NEW i \in q.next..(gap - 1), i \notin q.maps PROVE FALSE
    BY <1>5
  <2>2. i \in Gaps
    BY <1>1, <1>4, <2>1
  <2> QED
    BY <1>1, <1>3, <1>4, <2>1, <2>2
<1>7. Cardinality(UpToGap(q)) = gap - q.next
  <2>1. Cardinality(q.next..(gap - 1)) =
          IF q.next > gap - 1 THEN 0 ELSE (gap - 1) - q.next + 1
    <3>1. q.next \in Int /\ gap - 1 \in Int
      BY <1>1, <1>4
    <3> QED
      BY <3>1, FS_Interval
  <2> QED
    BY <1>1, <1>4, <1>5, <2>1
<1> QED
  BY <1>4, <1>5, <1>6, <1>7

-----------------------------------------------------------------------------
(***************************************************************************)
(* The client keeps Inv.                                                   *)
(***************************************************************************)

LEMMA Lengths ==
  ASSUME TypeOK
  PROVE  /\ Len(outgoingMaps) \in Nat /\ Len(pendingMaps) \in Nat
         /\ nextMapId \in Nat /\ Posted \in Int /\ FirstPending \in Int
         /\ (outgoingMaps = <<>> <=> Len(outgoingMaps) = 0)
         /\ (pendingMaps = <<>> <=> Len(pendingMaps) = 0)
<1>1. outgoingMaps \in Seq(Nat) /\ pendingMaps \in Seq(Nat) /\ nextMapId \in Nat
  BY DEF TypeOK
<1>2. Len(outgoingMaps) \in Nat /\ Len(pendingMaps) \in Nat
  BY <1>1, LenProperties
<1> QED
  BY <1>1, <1>2, EmptySeq DEF Posted, FirstPending

\* The request of a retry is that of a start too, where no map is pending: it
\* takes the pending maps first, and all of them.
LEMMA NextRequest ==
  ASSUME Inv, MakeRequest(pendingMaps \o outgoingMaps, <<>>), UNCHANGED nextMapId
  PROVE  \E p \in Posts :
           /\ requests' = requests + 1 /\ request' = requests'
           /\ posts' = posts \union {p}
           /\ p.id = requests + 1
           /\ Consecutive(p.maps, p.offset)
           /\ p.maps # <<>> => p.offset = FirstPending
           /\ p.maps = <<>> => p.offset = 0
           /\ Len(pendingMaps) <= Len(p.maps)
           /\ Len(p.maps) <= MaxMapsPerRequest
           /\ pendingMaps' = p.maps
           /\ Consecutive(p.maps, FirstPending)
           /\ outgoingMaps' \in Seq(Nat)
           /\ Consecutive(outgoingMaps', Posted')
           /\ Posted' = FirstPending + Len(p.maps)
           /\ Len(p.maps) <= Len(pendingMaps) + Len(outgoingMaps)
           /\ outgoingMaps' = <<>> \/ Len(p.maps) = MaxMapsPerRequest
<1> DEFINE all == pendingMaps \o outgoingMaps
           count == Min({Len(all), MaxMapsPerRequest})
           offset == IF count > 0 THEN all[1] ELSE 0
           p == [id |-> requests + 1, offset |-> offset, maps |-> SubSeq(all, 1, count)]
<1>1. TypeOK /\ Numbered /\ Batched
  BY DEF Inv
<1>2. /\ Len(outgoingMaps) \in Nat /\ Len(pendingMaps) \in Nat
      /\ nextMapId \in Nat /\ FirstPending \in Int /\ Posted \in Int
  BY <1>1, Lengths
<1>3. /\ all \in Seq(Nat)
      /\ Len(all) = Len(pendingMaps) + Len(outgoingMaps)
      /\ Consecutive(all, FirstPending)
  <2>1. outgoingMaps \in Seq(Nat) /\ pendingMaps \in Seq(Nat)
    BY <1>1 DEF TypeOK
  <2>2. Consecutive(outgoingMaps, FirstPending + Len(pendingMaps))
    <3>1. FirstPending + Len(pendingMaps) = Posted
      BY <1>2 DEF FirstPending
    <3> QED
      BY <1>1, <3>1 DEF Numbered
  <2> QED
    BY <1>1, <1>2, <2>1, <2>2, ConsecutiveConcat DEF Numbered
<1>4. count = IF Len(all) <= MaxMapsPerRequest THEN Len(all) ELSE MaxMapsPerRequest
  <2>1. Len(all) \in Nat /\ MaxMapsPerRequest \in Nat
    BY <1>2, <1>3, RequestAssumption
  <2> QED
    BY <2>1, MinOfTwo
<1>5. /\ requests' = requests + 1 /\ request' = requests'
      /\ posts' = posts \union {p}
      /\ pendingMaps' = <<>> \o SubSeq(all, 1, count)
      /\ outgoingMaps' = SubSeq(all, count + 1, Len(all))
  BY DEF MakeRequest
<1> HIDE DEF all, count
<1>6. /\ count \in 0..Len(all) /\ count <= MaxMapsPerRequest
      /\ Len(pendingMaps) <= count
      /\ count = Len(all) \/ count = MaxMapsPerRequest
  BY <1>1, <1>2, <1>3, <1>4, RequestAssumption DEF Batched
<1>7. /\ SubSeq(all, 1, count) \in Seq(Nat)
      /\ Len(SubSeq(all, 1, count)) = count
      /\ Consecutive(SubSeq(all, 1, count), FirstPending)
      /\ SubSeq(all, count + 1, Len(all)) \in Seq(Nat)
      /\ Len(SubSeq(all, count + 1, Len(all))) = Len(all) - count
      /\ Consecutive(SubSeq(all, count + 1, Len(all)), FirstPending + count)
  BY <1>2, <1>3, <1>6, ConsecutiveSplit
<1>8. pendingMaps' = p.maps
  BY <1>5, <1>7, ConcatEmptySeq
<1>9. count > 0 => all[1] = FirstPending
  BY <1>2, <1>3, <1>6 DEF Consecutive
<1>10. offset = IF count > 0 THEN FirstPending ELSE 0
  BY <1>9
<1>11. p \in Posts
  <2>1. offset \in Nat
    BY <1>1, <1>2, <1>10 DEF Numbered
  <2>2. requests + 1 \in Nat \ {0}
    BY <1>1 DEF TypeOK
  <2> QED
    BY <1>7, <2>1, <2>2 DEF Posts
<1>12. p.maps = <<>> <=> count = 0
  BY <1>7, EmptySeq
<1>13. Consecutive(p.maps, p.offset)
  <2>1. CASE count > 0
    BY <1>7, <1>10, <2>1
  <2>2. CASE ~(count > 0)
    <3>1. p.maps = <<>>
      BY <1>2, <1>3, <1>6, <1>12, <2>2
    <3> QED
      BY <3>1, EmptyIsConsecutive
  <2> QED
    BY <2>1, <2>2
<1>14. Posted' = FirstPending + count
  <2>1. Posted' = nextMapId - Len(outgoingMaps')
    BY DEF Posted
  <2>2. Len(outgoingMaps') = Len(all) - count
    BY <1>5, <1>7
  <2> QED
    BY <1>2, <1>3, <1>6, <2>1, <2>2 DEF FirstPending, Posted
<1>15. outgoingMaps' = <<>> \/ count = MaxMapsPerRequest
  <2>1. count = Len(all) => Len(outgoingMaps') = 0
    BY <1>2, <1>3, <1>5, <1>7
  <2>2. outgoingMaps' \in Seq(Nat)
    BY <1>5, <1>7
  <2> QED
    BY <1>6, <2>1, <2>2, EmptySeq
<1>16. p.maps # <<>> => p.offset = FirstPending
  BY <1>2, <1>3, <1>6, <1>10, <1>12
<1>17. p.maps = <<>> => p.offset = 0
  BY <1>10, <1>12
<1>18. /\ Len(p.maps) = count /\ p.id = requests + 1
       /\ Consecutive(p.maps, FirstPending)
  BY <1>7
<1>19. outgoingMaps' \in Seq(Nat) /\ Consecutive(outgoingMaps', Posted')
  BY <1>5, <1>7, <1>14
<1>20. /\ Len(pendingMaps) <= Len(p.maps)
       /\ Len(p.maps) <= MaxMapsPerRequest
       /\ Posted' = FirstPending + Len(p.maps)
       /\ Len(p.maps) <= Len(pendingMaps) + Len(outgoingMaps)
       /\ outgoingMaps' = <<>> \/ Len(p.maps) = MaxMapsPerRequest
  BY <1>2, <1>3, <1>6, <1>14, <1>15, <1>18
<1> HIDE DEF p
<1> QED
  BY <1>5, <1>8, <1>11, <1>13, <1>16, <1>17, <1>18, <1>19, <1>20

LEMMA RequestMade ==
  ASSUME Inv, MakeRequest(pendingMaps \o outgoingMaps, <<>>), request = 0,
         \/ state = "INIT" /\ state' = "OPENING"
         \/ state = "OPENED" /\ state' = "OPENED",
         timer' = "none",
         UNCHANGED <<page, nextMapId, retryCount, delivered, responses, serverVars>>
  PROVE  Inv'
<1>1. TypeOK /\ Numbered /\ Batched /\ Network /\ QueueInOrder /\ Careful
  BY DEF Inv
<1>2. nextMapId' = nextMapId /\ page' = page /\ delivered' = delivered
      /\ responses' = responses /\ ready' = ready /\ maps' = maps
      /\ queued' = queued /\ mapChan' = mapChan /\ retryCount' = retryCount
  BY DEF serverVars
<1>3. PICK p \in Posts :
        /\ requests' = requests + 1 /\ request' = requests'
        /\ posts' = posts \union {p}
        /\ p.id = requests + 1
        /\ Consecutive(p.maps, p.offset)
        /\ p.maps # <<>> => p.offset = FirstPending
        /\ p.maps = <<>> => p.offset = 0
        /\ Len(pendingMaps) <= Len(p.maps)
        /\ Len(p.maps) <= MaxMapsPerRequest
        /\ pendingMaps' = p.maps
        /\ Consecutive(p.maps, FirstPending)
        /\ outgoingMaps' \in Seq(Nat)
        /\ Consecutive(outgoingMaps', Posted')
        /\ Posted' = FirstPending + Len(p.maps)
        /\ Len(p.maps) <= Len(pendingMaps) + Len(outgoingMaps)
        /\ outgoingMaps' = <<>> \/ Len(p.maps) = MaxMapsPerRequest
  BY <1>2, NextRequest
<1>4. /\ Len(outgoingMaps) \in Nat /\ Len(pendingMaps) \in Nat
      /\ nextMapId \in Nat /\ FirstPending \in Int /\ Posted \in Int
      /\ (outgoingMaps = <<>> <=> Len(outgoingMaps) = 0)
      /\ (pendingMaps = <<>> <=> Len(pendingMaps) = 0)
      /\ 0 <= FirstPending
      /\ FirstPending = Posted - Len(pendingMaps)
  BY <1>1, Lengths DEF Numbered, FirstPending
<1>5. /\ p.maps \in Seq(Nat) /\ p.offset \in Nat
      /\ Len(p.maps) \in Nat /\ (p.maps = <<>> <=> Len(p.maps) = 0)
  <2>1. p.maps \in Seq(Nat) /\ p.offset \in Nat
    BY DEF Posts
  <2> QED
    BY <2>1, EmptySeq, LenProperties
<1>6. FirstPending' = FirstPending /\ Posted <= Posted' /\ Posted' \in Int
  <2>1. FirstPending' = Posted' - Len(p.maps)
    BY <1>3 DEF FirstPending
  <2> QED
    BY <1>3, <1>4, <1>5, <2>1
<1>7. requests \in Nat /\ requests' \in Nat /\ requests < requests'
  BY <1>1, <1>3 DEF TypeOK
<1>8. TypeOK'
  <2>1. request' \in 0..requests'
    BY <1>3, <1>7
  <2>2. posts' \in SUBSET Posts
    BY <1>1, <1>3 DEF TypeOK
  <2> QED
    BY <1>1, <1>2, <1>3, <1>5, <1>7, <2>1, <2>2 DEF TypeOK
<1>9. Numbered'
  <2>1. 0 <= FirstPending'
    BY <1>4, <1>6
  <2>2. Consecutive(pendingMaps', FirstPending')
    BY <1>3, <1>6
  <2> QED
    BY <1>3, <2>1, <2>2 DEF Numbered, Consecutive
<1>10. Batched'
  BY <1>3, <1>7 DEF Batched
<1>11. Network'
  <2>1. ASSUME NEW o \in posts' PROVE PostOK(o)'
    <3>1. CASE o \in posts
      <4>1. /\ o.id <= requests /\ Consecutive(o.maps, o.offset)
            /\ o.offset + Len(o.maps) <= Posted
            /\ Len(o.maps) <= MaxMapsPerRequest
        BY <1>1, <3>1 DEF Network, PostOK
      <4>2. o.id \in Nat /\ o.offset \in Nat /\ o.maps \in Seq(Nat)
        BY <1>1, <3>1 DEF TypeOK, Posts
      <4>3. Len(o.maps) \in Nat
        BY <4>2, LenProperties
      <4>4. o.id <= requests' /\ o.offset + Len(o.maps) <= Posted'
        BY <1>4, <1>6, <1>7, <4>1, <4>2, <4>3
      <4> QED
        BY <4>1, <4>4 DEF PostOK, Consecutive
    <3>2. CASE o = p
      <4>1. p.offset + Len(p.maps) <= Posted'
        BY <1>3, <1>4, <1>5, <1>6
      <4> QED
        BY <1>3, <1>7, <3>2, <4>1 DEF PostOK, Consecutive
    <3> QED
      BY <1>3, <2>1, <3>1, <3>2
  <2>2. \A r \in responses' : r.id <= requests'
    <3>1. \A r \in responses : r.id \in Nat /\ r.id <= requests
      BY <1>1 DEF TypeOK, Responses, Network
    <3> QED
      BY <1>2, <1>7, <3>1
  <2> QED
    BY <2>1, <2>2 DEF Network
<1>12. QueueInOrder'
  <2>1. \A id \in maps.maps : id \in Nat /\ id < Posted
    BY <1>1 DEF TypeOK, MapQueueRecord, QueueInOrder
  <2>2. \A id \in maps.maps : id < Posted'
    BY <1>4, <1>6, <2>1
  <2>3. maps.next \in Nat /\ maps.next <= Posted
    BY <1>1 DEF TypeOK, MapQueueRecord, QueueInOrder
  <2>4. maps.next <= Posted'
    BY <1>4, <1>6, <2>3
  <2> QED
    BY <1>1, <1>2, <2>2, <2>4 DEF QueueInOrder, Consecutive
<1>13. Careful'
  <2>1. SUFFICES ASSUME page = "careful"
                 PROVE  /\ CarefulClient' /\ CarefulServer'
                        /\ \A o \in posts' : CarefulPost(o)'
    BY <1>2 DEF Careful
  <2>2. /\ CarefulClient /\ CarefulServer /\ \A o \in posts : CarefulPost(o)
    BY <1>1, <2>1 DEF Careful
  <2>3. pendingMaps # <<>> => Len(p.maps) = Len(pendingMaps)
    BY <1>1, <1>3, <1>4, <1>5, <2>2, RequestAssumption DEF CarefulClient, Batched
  <2>4. state = "INIT" => p.maps = <<>>
    <3>1. state = "INIT" => Len(outgoingMaps) = 0 /\ Len(pendingMaps) = 0
      BY <1>4, <2>2 DEF CarefulClient, Posted
    <3> QED
      BY <1>3, <1>5, <3>1
  <2>5. CarefulClient'
    <3>1. pendingMaps' # <<>> =>
            outgoingMaps' = <<>> \/ Len(pendingMaps') = MaxMapsPerRequest
      BY <1>3
    <3> QED
      BY <1>2, <2>2, <3>1 DEF CarefulClient
  <2>6. CarefulServer'
    <3>1. maps.next \in {FirstPending', Posted'}
      BY <1>3, <1>4, <1>6, <2>2, <2>3 DEF CarefulServer
    <3>2. ~([id |-> request', ok |-> TRUE] \in responses)
      <4>1. \A r \in responses : r.id <= requests
        BY <1>1 DEF Network
      <4> QED
        BY <1>3, <1>7, <4>1
    <3> QED
      BY <1>2, <2>2, <3>1, <3>2 DEF CarefulServer
  <2>7. ASSUME NEW o \in posts' PROVE CarefulPost(o)'
    <3>1. CASE o \in posts
      <4>1. CarefulPost(o) /\ o.id \in Nat /\ o.offset \in Nat /\ o.id <= requests
            /\ o.maps \in Seq(Nat)
        BY <1>1, <2>2, <3>1 DEF TypeOK, Posts, Network, PostOK
      <4>2. o.id # request'
        BY <1>3, <1>7, <4>1
      <4>3. ASSUME o.maps # <<>>
            PROVE  /\ ready
                   /\ \/ o.offset < FirstPending'
                      \/ /\ o.offset = FirstPending'
                         /\ Len(o.maps) = Len(pendingMaps')
        <5>1. Len(o.maps) # 0
          BY <4>1, <4>3, EmptySeq
        <5>2. /\ ready
              /\ \/ o.offset < FirstPending
                 \/ o.offset = FirstPending /\ Len(o.maps) = Len(pendingMaps)
          BY <4>1, <4>3 DEF CarefulPost
        <5> QED
          BY <1>3, <1>4, <1>6, <2>3, <5>1, <5>2
      <4> QED
        BY <1>2, <4>2, <4>3 DEF CarefulPost
    <3>2. CASE o = p
      <4>1. p.maps # <<>> => ready
        BY <2>2, <2>4 DEF CarefulClient
      <4> QED
        BY <1>2, <1>3, <1>6, <3>2, <4>1 DEF CarefulPost
    <3> QED
      BY <1>3, <2>7, <3>1, <3>2
  <2> QED
    BY <2>5, <2>6, <2>7
<1> QED
  BY <1>8, <1>9, <1>10, <1>11, <1>12, <1>13 DEF Inv

LEMMA OpenInv ==
  ASSUME Inv, Open
  PROVE  Inv'
<1>1. TypeOK /\ Batched
  BY DEF Inv
<1>2. pendingMaps = <<>> /\ timer = "none" /\ request = 0
  BY <1>1 DEF Open, Batched
<1>3. MakeRequest(pendingMaps \o outgoingMaps, <<>>)
  <2>1. pendingMaps \o outgoingMaps = outgoingMaps
    BY <1>1, <1>2, ConcatEmptySeq DEF TypeOK
  <2> QED
    BY <1>2, <2>1 DEF Open
<1> QED
  BY <1>2, <1>3, RequestMade DEF Open

LEMMA StartForwardChannelInv ==
  ASSUME Inv, StartForwardChannel
  PROVE  Inv'
<1>1. TypeOK /\ Batched
  BY DEF Inv
<1>2. timer' = "none" /\ UNCHANGED <<page, state, nextMapId, retryCount,
                                     delivered, responses, serverVars>>
  BY DEF StartForwardChannel
<1>3. CASE Retry
  <2>1. request = 0 /\ state = "OPENED"
    BY <1>1, <1>3 DEF Retry, Batched
  <2> QED
    BY <1>2, <1>3, <2>1, RequestMade DEF Retry
<1>4. CASE StartRequest
  <2>1. request = 0 /\ state = "OPENED" /\ pendingMaps = <<>>
    BY <1>1, <1>4 DEF StartRequest, Batched
  <2>2. pendingMaps \o outgoingMaps = outgoingMaps
    BY <1>1, <2>1, ConcatEmptySeq DEF TypeOK
  <2> QED
    BY <1>2, <1>4, <2>1, <2>2, RequestMade DEF StartRequest
<1>5. CASE StartNothing
  <2>1. ~(state = "OPENED" /\ request = 0 /\ pendingMaps # <<>>)
    BY <1>1, <1>5 DEF StartNothing, Batched
  <2> QED
    BY <1>2, <1>5, <2>1
       DEF StartNothing, serverVars, Inv, TypeOK, Numbered, Batched, Network,
           PostOK, QueueInOrder, Careful, CarefulClient, CarefulServer,
           CarefulPost, FirstPending, Posted, Consecutive
<1> QED
  BY <1>3, <1>4, <1>5 DEF StartForwardChannel

LEMMA SendMapInv ==
  ASSUME Inv, SendMap
  PROVE  Inv'
<1>1. TypeOK /\ Numbered /\ Batched /\ Network /\ QueueInOrder /\ Careful
  BY DEF Inv
<1>2. /\ nextMapId' = nextMapId + 1
      /\ outgoingMaps' = Append(outgoingMaps, nextMapId)
      /\ UNCHANGED <<page, state, pendingMaps, request, requests, delivered,
                     posts, responses, ready, maps, queued, mapChan>>
  BY DEF SendMap, networkVars, serverVars
<1>3. /\ Len(outgoingMaps) \in Nat /\ Len(pendingMaps) \in Nat
      /\ nextMapId \in Nat /\ Posted \in Int
      /\ outgoingMaps \in Seq(Nat)
  BY <1>1, Lengths DEF TypeOK
<1>4. /\ outgoingMaps' \in Seq(Nat)
      /\ Len(outgoingMaps') = Len(outgoingMaps) + 1
      /\ Consecutive(outgoingMaps', Posted)
  <2>1. nextMapId = Posted + Len(outgoingMaps)
    BY <1>3 DEF Posted
  <2> QED
    BY <1>1, <1>2, <1>3, <2>1, ConsecutiveAppend DEF Numbered
<1>5. Posted' = Posted /\ FirstPending' = FirstPending
  <2>1. Posted' = Posted
    BY <1>2, <1>3, <1>4 DEF Posted
  <2> QED
    BY <1>2, <2>1 DEF FirstPending
<1>6. \/ timer' = timer /\ retryCount' = retryCount
      \/ request = 0 /\ timer = "none" /\ timer' = "start" /\ retryCount' = 0
         /\ state \in {"OPENING", "OPENED"}
  BY DEF SendMap, EnsureForwardChannel
<1>7. TypeOK'
  BY <1>1, <1>2, <1>3, <1>4, <1>6, RequestAssumption DEF TypeOK
<1>8. Numbered'
  BY <1>1, <1>2, <1>4, <1>5 DEF Numbered, Consecutive
<1>9. Batched'
  BY <1>1, <1>2, <1>6 DEF Batched
<1>10. Network' /\ QueueInOrder'
  BY <1>1, <1>2, <1>5 DEF Network, PostOK, QueueInOrder, Consecutive
<1>11. Careful'
  <2>1. SUFFICES ASSUME page = "careful"
                 PROVE  /\ CarefulClient' /\ CarefulServer'
                        /\ \A p \in posts' : CarefulPost(p)'
    BY <1>2 DEF Careful
  <2>2. /\ CarefulClient /\ CarefulServer /\ \A p \in posts : CarefulPost(p)
    BY <1>1, <2>1 DEF Careful
  <2>3. state # "INIT" /\ pendingMaps = <<>>
    BY <2>1 DEF SendMap
  <2>4. CarefulClient'
    BY <1>2, <2>2, <2>3 DEF CarefulClient
  <2> QED
    BY <1>2, <1>5, <2>2, <2>4 DEF CarefulServer, CarefulPost
<1> QED
  BY <1>7, <1>8, <1>9, <1>10, <1>11 DEF Inv

LEMMA OpenedInv ==
  ASSUME Inv, Opened
  PROVE  Inv'
<1>1. TypeOK /\ Numbered /\ Batched /\ Network /\ QueueInOrder /\ Careful
  BY DEF Inv
<1>2. /\ state = "OPENING" /\ state' = "OPENED" /\ request = 1 /\ responses # {}
      /\ UNCHANGED <<page, nextMapId, outgoingMaps, pendingMaps, timer, retryCount,
                     request, requests, delivered, posts, responses, ready, maps,
                     queued, mapChan>>
  BY DEF Opened, networkVars, serverVars
<1>3. Posted' = Posted /\ FirstPending' = FirstPending
  BY <1>2 DEF Posted, FirstPending
<1>4. TypeOK'
  BY <1>1, <1>2 DEF TypeOK
<1>5. Batched'
  BY <1>1, <1>2 DEF Batched
<1>6. Numbered' /\ Network' /\ QueueInOrder'
  BY <1>1, <1>2, <1>3
     DEF Numbered, Network, PostOK, QueueInOrder, Consecutive
<1>7. Careful'
  BY <1>1, <1>2, <1>3 DEF Careful, CarefulClient, CarefulServer, CarefulPost
<1> QED
  BY <1>4, <1>5, <1>6, <1>7 DEF Inv

LEMMA RequestSucceedsInv ==
  ASSUME Inv, RequestSucceeds
  PROVE  Inv'
<1>1. TypeOK /\ Numbered /\ Batched /\ Network /\ QueueInOrder /\ Careful
  BY DEF Inv
<1> DEFINE r == [id |-> request, ok |-> TRUE]
<1>2. /\ r \in responses /\ responses' = responses \ {r}
      /\ state = "OPENED" /\ request' = 0
      /\ delivered' = delivered \union SetOf(pendingMaps)
      /\ pendingMaps' = <<>>
      /\ UNCHANGED <<page, state, nextMapId, outgoingMaps, requests, posts,
                     ready, maps, queued, mapChan>>
  BY DEF RequestSucceeds, serverVars
<1>3. timer = "none" /\ request \in Nat \ {0}
  <2>1. request # 0
    <3>1. r \in Responses
      BY <1>1, <1>2 DEF TypeOK
    <3> QED
      BY <3>1 DEF Responses
  <2> QED
    BY <1>1, <2>1 DEF Batched, TypeOK
<1>4. timer' = "start" /\ retryCount' = 0
  BY <1>3 DEF RequestSucceeds, EnsureForwardChannel
<1>5. /\ Len(outgoingMaps) \in Nat /\ Len(pendingMaps) \in Nat
      /\ nextMapId \in Nat /\ Posted \in Int /\ FirstPending \in Int
      /\ (pendingMaps = <<>> <=> Len(pendingMaps) = 0)
      /\ pendingMaps \in Seq(Nat)
  BY <1>1, Lengths DEF TypeOK
<1>6. Posted' = Posted /\ FirstPending' = Posted
  <2>1. Posted' = Posted
    BY <1>2 DEF Posted
  <2>2. Len(pendingMaps') = 0
    BY <1>2, EmptySeq
  <2> QED
    BY <1>5, <2>1, <2>2 DEF FirstPending
<1>7. FirstPending = Posted - Len(pendingMaps) /\ 0 <= FirstPending
  BY <1>1 DEF FirstPending, Numbered
<1>8. \A id \in SetOf(pendingMaps) : id \in Nat /\ id < Posted
  <2>1. ASSUME NEW i \in 1..Len(pendingMaps)
        PROVE  pendingMaps[i] \in Nat /\ pendingMaps[i] < Posted
    <3>1. pendingMaps[i] = FirstPending + i - 1
      BY <1>1 DEF Numbered, Consecutive
    <3> QED
      BY <1>5, <1>7, <3>1
  <2> QED
    BY <2>1 DEF SetOf
<1>9. TypeOK'
  <2>1. <<>> \in Seq(Nat)
    BY EmptySeq
  <2>2. delivered' \in SUBSET Nat
    BY <1>1, <1>2, <1>8 DEF TypeOK
  <2> QED
    BY <1>1, <1>2, <1>4, <2>1, <2>2, RequestAssumption DEF TypeOK
<1>10. Numbered'
  <2>1. 0 <= FirstPending' /\ Consecutive(pendingMaps, FirstPending)'
    BY <1>2, <1>5, <1>6, <1>7, EmptyIsConsecutive DEF Consecutive
  <2> QED
    BY <1>1, <1>2, <1>6, <2>1 DEF Numbered, Consecutive
<1>11. Batched'
  <2>1. Len(pendingMaps') <= MaxMapsPerRequest
    BY <1>2, EmptySeq, RequestAssumption
  <2> QED
    BY <1>2, <2>1 DEF Batched
<1>12. Network' /\ QueueInOrder'
  BY <1>1, <1>2, <1>6 DEF Network, PostOK, QueueInOrder, Consecutive
<1>13. Careful'
  <2>1. SUFFICES ASSUME page = "careful"
                 PROVE  /\ CarefulClient' /\ CarefulServer'
                        /\ \A p \in posts' : CarefulPost(p)'
    BY <1>2 DEF Careful
  <2>2. /\ CarefulClient /\ CarefulServer /\ \A p \in posts : CarefulPost(p)
    BY <1>1, <2>1 DEF Careful
  <2>3. CarefulClient'
    BY <1>2, <2>2 DEF CarefulClient
  <2>4. maps.next = Posted
    BY <1>2, <2>2 DEF CarefulServer
  <2>5. CarefulServer'
    <3>1. ~([id |-> request', ok |-> TRUE] \in responses')
      <4>1. \A o \in responses' : o.id # 0
        BY <1>1, <1>2 DEF TypeOK, Responses
      <4> QED
        BY <1>2, <4>1
    <3>2. \A id \in delivered' : id < maps.next
      BY <1>2, <1>8, <2>2, <2>4 DEF CarefulServer
    <3>3. maps.maps = {} /\ maps.next = Posted' /\ ready
      BY <1>2, <1>6, <2>2, <2>4 DEF CarefulServer
    <3> QED
      BY <1>2, <3>1, <3>2, <3>3 DEF CarefulServer
  <2>6. ASSUME NEW p \in posts' PROVE CarefulPost(p)'
    <3>1. CarefulPost(p) /\ p.id # 0 /\ p.offset \in Nat /\ p.maps \in Seq(Nat)
      BY <1>1, <1>2, <2>2, <2>6 DEF TypeOK, Posts
    <3>2. ASSUME p.maps # <<>> PROVE ready /\ p.offset < FirstPending'
      <4>1. Len(p.maps) # 0 /\ Len(p.maps) \in Nat
        BY <3>1, <3>2, EmptySeq
      <4>2. /\ ready
            /\ \/ p.offset < FirstPending
               \/ p.offset = FirstPending /\ Len(p.maps) = Len(pendingMaps)
        BY <3>1, <3>2 DEF CarefulPost
      <4> QED
        BY <1>5, <1>6, <1>7, <3>1, <4>1, <4>2
    <3> QED
      BY <1>2, <3>1, <3>2 DEF CarefulPost
  <2> QED
    BY <2>3, <2>5, <2>6
<1> QED
  BY <1>9, <1>10, <1>11, <1>12, <1>13 DEF Inv

\* What a failure changes: the client has no request, and may be closed.
LEMMA Failure ==
  ASSUME Inv, request' = 0,
         \/ state' = "CLOSED" /\ timer' = "none" /\ retryCount' = retryCount
         \/ /\ state' = state /\ timer' = "retry"
            /\ retryCount < MaxRetries /\ retryCount' = retryCount + 1
            /\ request # 0,
         UNCHANGED <<page, nextMapId, outgoingMaps, pendingMaps, requests, delivered,
                     networkVars, serverVars>>
  PROVE  Inv'
<1>1. TypeOK /\ Numbered /\ Batched /\ Network /\ QueueInOrder /\ Careful
  BY DEF Inv
<1>2. UNCHANGED <<page, nextMapId, outgoingMaps, pendingMaps, requests, delivered,
                  posts, responses, ready, maps, queued, mapChan>>
  BY DEF networkVars, serverVars
<1>3. Posted' = Posted /\ FirstPending' = FirstPending
  BY <1>2 DEF Posted, FirstPending
<1>4. requests \in Nat /\ retryCount \in Nat
  BY <1>1, RequestAssumption DEF TypeOK
<1>5. TypeOK'
  BY <1>1, <1>2, <1>4, RequestAssumption DEF TypeOK
<1>6. Batched'
  BY <1>1, <1>2 DEF Batched
<1>7. Numbered' /\ Network' /\ QueueInOrder'
  BY <1>1, <1>2, <1>3
     DEF Numbered, Network, PostOK, QueueInOrder, Consecutive
<1>8. Careful'
  <2>1. \A p \in posts : p.id # 0
    BY <1>1 DEF TypeOK, Posts
  <2>2. \A r \in responses : r.id # 0
    BY <1>1 DEF TypeOK, Responses
  <2>3. ~([id |-> request', ok |-> TRUE] \in responses)
    BY <2>2
  <2>4. CarefulClient => CarefulClient'
    BY <1>2 DEF CarefulClient
  <2>5. CarefulServer => CarefulServer'
    BY <1>2, <1>3, <2>3 DEF CarefulServer
  <2>6. ASSUME NEW p \in posts, CarefulPost(p) PROVE CarefulPost(p)'
    BY <1>2, <1>3, <2>1, <2>6 DEF CarefulPost
  <2> QED
    BY <1>1, <1>2, <2>4, <2>5, <2>6 DEF Careful
<1> QED
  BY <1>5, <1>6, <1>7, <1>8 DEF Inv

LEMMA RequestFailsInv ==
  ASSUME Inv, RequestFails
  PROVE  Inv'
BY Failure DEF RequestFails, Fail

LEMMA RequestRejectedInv ==
  ASSUME Inv, RequestRejected
  PROVE  Inv'
BY Failure DEF RequestRejected, Fail

-----------------------------------------------------------------------------
(***************************************************************************)
(* The server and the network keep Inv.                                    *)
(***************************************************************************)

LEMMA LosePostInv ==
  ASSUME Inv, NEW p \in posts, LosePost(p)
  PROVE  Inv'
<1>1. /\ posts' \subseteq posts
      /\ UNCHANGED <<page, state, nextMapId, outgoingMaps, pendingMaps, timer,
                     retryCount, request, requests, delivered, responses, ready, maps,
                     queued, mapChan>>
  BY DEF LosePost, clientVars, serverVars
<1>2. Posted' = Posted /\ FirstPending' = FirstPending
  BY <1>1 DEF Posted, FirstPending
<1>3. TypeOK' /\ Batched'
  BY <1>1 DEF Inv, TypeOK, Batched
<1>4. Numbered' /\ Network' /\ QueueInOrder'
  BY <1>1, <1>2
     DEF Inv, Numbered, Network, PostOK, QueueInOrder, Consecutive
<1>5. Careful'
  BY <1>1, <1>2 DEF Inv, Careful, CarefulClient, CarefulServer, CarefulPost
<1> QED
  BY <1>3, <1>4, <1>5 DEF Inv

LEMMA LoseResponseInv ==
  ASSUME Inv, NEW r \in responses, LoseResponse(r)
  PROVE  Inv'
<1>1. /\ responses' \subseteq responses
      /\ UNCHANGED <<page, state, nextMapId, outgoingMaps, pendingMaps, timer,
                     retryCount, request, requests, delivered, posts, ready, maps,
                     queued, mapChan>>
  BY DEF LoseResponse, clientVars, serverVars
<1>2. Posted' = Posted /\ FirstPending' = FirstPending
  BY <1>1 DEF Posted, FirstPending
<1>3. TypeOK' /\ Batched'
  BY <1>1 DEF Inv, TypeOK, Batched
<1>4. Numbered' /\ Network' /\ QueueInOrder'
  BY <1>1, <1>2
     DEF Inv, Numbered, Network, PostOK, QueueInOrder, Consecutive
<1>5. Careful'
  BY <1>1, <1>2 DEF Inv, Careful, CarefulClient, CarefulServer, CarefulPost
<1> QED
  BY <1>3, <1>4, <1>5 DEF Inv

\* The queue once a post has been enqueued, or not: the maps it holds are
\* those of the page under their ids.
LEMMA Enqueued ==
  ASSUME Inv, NEW p \in posts,
         NEW q, q = Enqueue(maps, p.offset, Len(p.maps)),
         NEW held, held = [i \in q.maps |->
           IF q = maps \/ i \notin Batch(p.offset, Len(p.maps))
             THEN queued[i] ELSE p.maps[i - p.offset + 1]]
  PROVE  /\ q \in MapQueueRecord /\ IsFiniteSet(q.maps) /\ q.next = maps.next
         /\ \A id \in q.maps :
              held[id] = id /\ id \in Nat /\ maps.next <= id /\ id < Posted
         /\ q = maps \/ (q.maps = maps.maps \union Batch(p.offset, Len(p.maps))
                         /\ p.offset >= maps.next)
<1> DEFINE n == Len(p.maps)
           batch == Batch(p.offset, n)
<1>1. TypeOK /\ QueueInOrder /\ PostOK(p)
  BY DEF Inv, Network
<1>2. p.offset \in Nat /\ p.maps \in Seq(Nat) /\ n \in Nat
      /\ maps.next \in Nat /\ maps.maps \in SUBSET Nat /\ maps \in MapQueueRecord
      /\ Posted \in Int
  <2>1. p.offset \in Nat /\ p.maps \in Seq(Nat)
    BY <1>1 DEF TypeOK, Posts
  <2> QED
    BY <1>1, <2>1, LenProperties, Lengths DEF TypeOK, MapQueueRecord
<1>3. \A i \in batch : i \in Nat /\ p.offset <= i /\ i < Posted
                       /\ p.maps[i - p.offset + 1] = i
  <2>1. ASSUME NEW i \in batch
        PROVE  i \in Nat /\ p.offset <= i /\ i < Posted /\ p.maps[i - p.offset + 1] = i
    <3>1. i \in Int /\ p.offset <= i /\ i <= p.offset + n - 1
      BY <1>2, <2>1 DEF Batch
    <3>2. i - p.offset + 1 \in 1..n
      BY <1>2, <3>1
    <3>3. p.maps[i - p.offset + 1] = p.offset + (i - p.offset + 1) - 1
      BY <1>1, <3>2 DEF PostOK, Consecutive
    <3>4. p.offset + n <= Posted
      BY <1>1 DEF PostOK
    <3> HIDE DEF n
    <3> QED
      BY <1>2, <3>1, <3>3, <3>4
  <2> QED
    BY <2>1
<1>4. IsFiniteSet(batch)
  <2>1. p.offset \in Int /\ p.offset + n - 1 \in Int
    BY <1>2
  <2> QED
    BY <2>1, FS_Interval DEF Batch
<1> HIDE DEF batch
<1>5. \/ q = maps
      \/ /\ q = [maps EXCEPT !.maps = @ \union batch]
         /\ p.offset >= maps.next
  BY <1>2 DEF Enqueue, batch
<1>6. CASE q = maps
  <2>1. \A id \in maps.maps : held[id] = queued[id]
    BY <1>6
  <2> QED
    BY <1>1, <1>2, <1>6, <2>1 DEF QueueInOrder
<1>7. CASE q # maps
  <2>1. /\ q.next = maps.next /\ q.maps = maps.maps \union batch
        /\ q \in MapQueueRecord /\ p.offset >= maps.next
    BY <1>2, <1>3, <1>5, <1>7 DEF MapQueueRecord
  <2>2. IsFiniteSet(q.maps)
    <3>1. IsFiniteSet(maps.maps)
      BY <1>1 DEF QueueInOrder
    <3>2. IsFiniteSet(maps.maps \union batch)
      BY <1>4, <3>1, FS_Union
    <3> QED
      BY <2>1, <3>2
  <2>3. ASSUME NEW id \in q.maps
        PROVE  held[id] = id /\ id \in Nat /\ maps.next <= id /\ id < Posted
    <3>1. CASE id \in batch
      <4>1. held[id] = p.maps[id - p.offset + 1]
        BY <1>7, <2>3, <3>1 DEF batch
      <4> QED
        BY <1>2, <1>3, <2>1, <3>1, <4>1
    <3>2. CASE id \notin batch
      <4>1. held[id] = queued[id] /\ id \in maps.maps
        BY <2>1, <2>3, <3>2 DEF batch
      <4> QED
        BY <1>1, <1>2, <4>1 DEF QueueInOrder
    <3> QED
      BY <3>1, <3>2
  <2> QED
    BY <2>1, <2>2, <2>3 DEF batch
<1> QED
  BY <1>6, <1>7

\* What receiveMaps does: the stream grows to the first gap, by the maps that
\* come next, and the queue keeps those beyond the gap.
LEMMA MapsReceived ==
  ASSUME Inv, NEW p \in posts, ReceiveMaps(p)
  PROVE  /\ maps' \in MapQueueRecord /\ IsFiniteSet(maps'.maps)
         /\ queued' \in [maps'.maps -> Nat]
         /\ \A id \in maps'.maps :
              queued'[id] = id /\ maps'.next < id /\ id < Posted
         /\ maps.next <= maps'.next /\ maps'.next <= Posted
         /\ mapChan' = mapChan \o Numbers(maps.next, maps'.next - maps.next)
         /\ maps.maps = {} /\ p.offset <= maps.next =>
              /\ maps'.maps = {}
              /\ maps'.next =
                   IF p.offset = maps.next
                      /\ ~EnqueueFails(maps, p.offset, Len(p.maps))
                     THEN maps.next + Len(p.maps) ELSE maps.next
<1> DEFINE n == Len(p.maps)
           q == Enqueue(maps, p.offset, n)
           held == [i \in q.maps |-> IF q = maps \/ i \notin Batch(p.offset, n)
                                       THEN queued[i] ELSE p.maps[i - p.offset + 1]]
           out == UpToGap(q)
<1>1. TypeOK /\ QueueInOrder /\ p.offset \in Nat /\ n \in Nat
      /\ maps.next \in Nat /\ maps.maps \in SUBSET Nat /\ Posted \in Int
      /\ maps.next <= Posted
  <2>1. TypeOK /\ QueueInOrder
    BY DEF Inv
  <2>2. p.offset \in Nat /\ p.maps \in Seq(Nat)
    BY <2>1 DEF TypeOK, Posts
  <2> QED
    BY <2>1, <2>2, LenProperties, Lengths DEF TypeOK, MapQueueRecord, QueueInOrder
<1>2. /\ maps' = [next |-> q.next + Cardinality(out), maps |-> q.maps \ out]
      /\ queued' = [i \in q.maps \ out |-> held[i]]
      /\ mapChan' = mapChan \o [i \in 1..Cardinality(out) |-> held[q.next + i - 1]]
  BY DEF ReceiveMaps
<1>3. /\ q \in MapQueueRecord /\ IsFiniteSet(q.maps) /\ q.next = maps.next
      /\ \A id \in q.maps :
           held[id] = id /\ id \in Nat /\ maps.next <= id /\ id < Posted
      /\ q = maps \/ (q.maps = maps.maps \union Batch(p.offset, n)
                      /\ p.offset >= maps.next)
  BY Enqueued
<1>4. maps.maps = {} /\ p.offset <= maps.next =>
        q = IF p.offset = maps.next /\ ~EnqueueFails(maps, p.offset, n)
              THEN [maps EXCEPT !.maps = Batch(p.offset, n)] ELSE maps
  BY <1>1 DEF Enqueue, EnqueueFails
<1> HIDE DEF q, held
<1>5. PICK gap \in Nat :
        /\ gap >= maps.next
        /\ gap \notin q.maps
        /\ out = maps.next..(gap - 1)
        /\ out \subseteq q.maps
        /\ Cardinality(out) = gap - maps.next
  BY <1>3, FirstGap
<1> HIDE DEF out
<1>6. maps'.next = gap /\ maps'.maps = q.maps \ out
  BY <1>1, <1>2, <1>3, <1>5
<1>7. maps' \in MapQueueRecord
  BY <1>1, <1>2, <1>3, <1>5 DEF MapQueueRecord
<1>8. IsFiniteSet(maps'.maps)
  <2>1. IsFiniteSet(q.maps \ out)
    BY <1>3, FS_Difference
  <2> QED
    BY <1>6, <2>1
<1>9. queued' \in [maps'.maps -> Nat]
      /\ \A id \in maps'.maps : queued'[id] = id
  BY <1>2, <1>3, <1>6
<1>10. ASSUME NEW id \in maps'.maps
       PROVE  maps'.next < id /\ id < Posted
  <2>1. id \in q.maps /\ id \notin out
    BY <1>6, <1>10
  <2>2. id \in Nat /\ maps.next <= id /\ id < Posted
    BY <1>3, <2>1
  <2>3. id # gap /\ ~(id <= gap - 1)
    BY <1>1, <1>5, <2>1, <2>2
  <2> QED
    BY <1>5, <1>6, <2>2, <2>3
<1>11. gap <= Posted
  <2>1. CASE gap = maps.next
    BY <1>1, <2>1
  <2>2. CASE gap # maps.next
    <3>1. gap - 1 \in out
      BY <1>1, <1>5, <2>2
    <3> QED
      BY <1>1, <1>3, <1>5, <3>1
  <2> QED
    BY <2>1, <2>2
<1>12. [i \in 1..Cardinality(out) |-> held[q.next + i - 1]] =
         Numbers(maps.next, gap - maps.next)
  <2>1. ASSUME NEW i \in 1..(gap - maps.next)
        PROVE  held[q.next + i - 1] = maps.next + i - 1
    <3>1. q.next + i - 1 \in out
      BY <1>1, <1>3, <1>5
    <3> QED
      BY <1>3, <1>5, <3>1
  <2> QED
    BY <1>5, <2>1 DEF Numbers
<1>13. ASSUME maps.maps = {}, p.offset <= maps.next
       PROVE  /\ maps'.maps = {}
              /\ maps'.next =
                   IF p.offset = maps.next /\ ~EnqueueFails(maps, p.offset, n)
                     THEN maps.next + n ELSE maps.next
  <2>1. CASE p.offset = maps.next /\ ~EnqueueFails(maps, p.offset, n)
    <3>1. q.maps = maps.next..(maps.next + n - 1)
      <4>1. q = [maps EXCEPT !.maps = Batch(p.offset, n)]
        BY <1>4, <1>13, <2>1
      <4> QED
        BY <1>1, <2>1, <4>1 DEF Batch, TypeOK, MapQueueRecord
    <3> HIDE DEF n
    <3>2. gap = maps.next + n
      <4>1. gap >= maps.next + n
        BY <1>1, <1>5, <3>1
      <4>2. gap > maps.next + n => maps.next + n \in out
        BY <1>1, <1>5
      <4> QED
        BY <1>1, <1>5, <3>1, <4>1, <4>2
    <3>3. maps'.maps = {}
      <4>1. gap - 1 = maps.next + n - 1
        BY <1>1, <3>2
      <4>2. out = q.maps
        BY <1>5, <3>1, <4>1, Zenon
      <4> QED
        BY <1>6, <4>2
    <3> QED
      BY <1>6, <2>1, <3>2, <3>3 DEF n
  <2>2. CASE ~(p.offset = maps.next /\ ~EnqueueFails(maps, p.offset, n))
    <3>1. q.maps = {}
      BY <1>4, <1>13, <2>2
    <3>2. gap = maps.next
      <4>1. gap # maps.next => maps.next \in out
        BY <1>1, <1>5
      <4> QED
        BY <1>5, <3>1, <4>1
    <3> QED
      BY <1>6, <2>2, <3>1, <3>2
  <2> QED
    BY <2>1, <2>2
<1> QED
  BY <1>2, <1>5, <1>6, <1>7, <1>8, <1>9, <1>10, <1>11, <1>12, <1>13

LEMMA ReceivePostInv ==
  ASSUME Inv, NEW p \in posts, ReceivePost(p)
  PROVE  Inv'
<1> DEFINE n == Len(p.maps)
           enqueued == ready /\ p.maps # <<>>
           r == [id |-> p.id, ok |-> ~(enqueued /\ EnqueueFails(maps, p.offset, n))]
<1>1. TypeOK /\ Numbered /\ Batched /\ Network /\ QueueInOrder /\ Careful
  BY DEF Inv
<1>2. /\ posts' = posts \ {p} /\ responses' = responses \union {r} /\ ready' = TRUE
      /\ UNCHANGED <<page, state, nextMapId, outgoingMaps, pendingMaps, timer,
                     retryCount, request, requests, delivered>>
      /\ IF enqueued THEN ReceiveMaps(p) ELSE UNCHANGED <<maps, queued, mapChan>>
  BY DEF ReceivePost, clientVars
<1>3. /\ p \in Posts /\ p.id \in Nat \ {0} /\ p.offset \in Nat /\ p.maps \in Seq(Nat)
      /\ n \in Nat /\ PostOK(p)
      /\ maps.next \in Nat /\ maps.next <= Posted
      /\ Posted \in Int /\ FirstPending \in Int /\ Len(pendingMaps) \in Nat
      /\ Posted = FirstPending + Len(pendingMaps)
      /\ (pendingMaps = <<>> <=> Len(pendingMaps) = 0)
  <2>1. p \in Posts /\ p.id \in Nat \ {0} /\ p.offset \in Nat /\ p.maps \in Seq(Nat)
    BY <1>1 DEF TypeOK, Posts
  <2>2. Posted = FirstPending + Len(pendingMaps)
    BY <1>1, Lengths DEF FirstPending
  <2> QED
    BY <1>1, <2>1, <2>2, LenProperties, Lengths
       DEF TypeOK, MapQueueRecord, QueueInOrder, Network
<1>4. Posted' = Posted /\ FirstPending' = FirstPending
  BY <1>2 DEF Posted, FirstPending
<1>5. /\ maps' \in MapQueueRecord /\ IsFiniteSet(maps'.maps)
      /\ queued' \in [maps'.maps -> Nat]
      /\ \A id \in maps'.maps : queued'[id] = id /\ maps'.next < id /\ id < Posted
      /\ maps.next <= maps'.next /\ maps'.next <= Posted
      /\ mapChan' = mapChan \o Numbers(maps.next, maps'.next - maps.next)
  <2>1. CASE enqueued
    BY <1>2, <2>1, MapsReceived
  <2>2. CASE ~enqueued
    <3>1. maps' = maps /\ queued' = queued /\ mapChan' = mapChan
      BY <1>2, <2>2
    <3>2. mapChan \o <<>> = mapChan
      BY <1>1, ConcatEmptySeq DEF TypeOK
    <3>3. Numbers(maps.next, maps.next - maps.next) = <<>>
      BY <1>3, NumbersAreConsecutive
    <3> QED
      BY <1>1, <1>3, <3>1, <3>2, <3>3 DEF TypeOK, QueueInOrder
  <2> QED
    BY <2>1, <2>2
<1>6. /\ mapChan' \in Seq(Nat)
      /\ Len(mapChan') = maps'.next
      /\ Consecutive(mapChan', 0)
      /\ maps'.next \in Nat
  <2> DEFINE k == maps'.next - maps.next
  <2>1. k \in Nat /\ maps'.next \in Nat
    BY <1>3, <1>5 DEF MapQueueRecord
  <2>2. /\ Numbers(maps.next, k) \in Seq(Nat)
        /\ Len(Numbers(maps.next, k)) = k
        /\ Consecutive(Numbers(maps.next, k), maps.next)
    BY <1>3, <2>1, NumbersAreConsecutive
  <2>3. mapChan \in Seq(Nat) /\ Len(mapChan) = maps.next /\ Consecutive(mapChan, 0)
    BY <1>1 DEF TypeOK, QueueInOrder
  <2>4. 0 + Len(mapChan) = maps.next
    BY <1>3, <2>3
  <2> HIDE DEF k
  <2>5. /\ mapChan \o Numbers(maps.next, k) \in Seq(Nat)
        /\ Len(mapChan \o Numbers(maps.next, k)) = maps.next + k
        /\ Consecutive(mapChan \o Numbers(maps.next, k), 0)
    <3>1. Consecutive(Numbers(maps.next, k), 0 + Len(mapChan))
      BY <2>2, <2>4
    <3>2. /\ mapChan \o Numbers(maps.next, k) \in Seq(Nat)
          /\ Len(mapChan \o Numbers(maps.next, k)) =
               Len(mapChan) + Len(Numbers(maps.next, k))
          /\ Consecutive(mapChan \o Numbers(maps.next, k), 0)
      <4>1. 0 \in Int
        OBVIOUS
      <4> QED
        BY <2>2, <2>3, <3>1, <4>1, ConsecutiveConcat, Zenon
    <3> QED
      BY <2>2, <2>3, <3>2
  <2>6. maps.next + k = maps'.next
    BY <1>3, <2>1 DEF k
  <2>7. mapChan' = mapChan \o Numbers(maps.next, k)
    BY <1>5 DEF k
  <2> QED
    BY <2>1, <2>5, <2>6, <2>7
<1>7. TypeOK'
  <2>1. r \in Responses
    BY <1>3 DEF Responses
  <2> QED
    BY <1>1, <1>2, <1>5, <1>6, <2>1 DEF TypeOK
<1>8. Numbered' /\ Batched'
  BY <1>1, <1>2, <1>4 DEF Numbered, Batched, Consecutive
<1>9. Network'
  <2>1. r.id <= requests
    BY <1>3 DEF PostOK
  <2> QED
    BY <1>1, <1>2, <1>4, <2>1 DEF Network, PostOK, Consecutive
<1>10. QueueInOrder'
  BY <1>4, <1>5, <1>6 DEF QueueInOrder, Consecutive
<1>11. Careful'
  <2>1. SUFFICES ASSUME page = "careful"
                 PROVE  /\ CarefulClient' /\ CarefulServer'
                        /\ \A o \in posts' : CarefulPost(o)'
    BY <1>2 DEF Careful
  <2>2. /\ CarefulClient /\ CarefulServer /\ \A o \in posts : CarefulPost(o)
    BY <1>1, <2>1 DEF Careful
  <2>3. CarefulClient'
    BY <1>2, <2>2 DEF CarefulClient
  <2>4. ASSUME NEW o \in posts' PROVE CarefulPost(o)'
    BY <1>2, <1>4, <2>2, <2>4 DEF CarefulPost
  <2>5. p.maps # <<>> =>
          /\ ready
          /\ n # 0
          /\ p.offset <= maps.next
          /\ p.offset = maps.next => maps.next = FirstPending /\ n = Len(pendingMaps)
    <3>1. p.maps # <<>> =>
            /\ ready
            /\ \/ p.offset < FirstPending
               \/ p.offset = FirstPending /\ n = Len(pendingMaps)
      BY <2>2 DEF CarefulPost
    <3>2. maps.next \in {FirstPending, Posted}
      BY <2>2 DEF CarefulServer
    <3>3. p.maps # <<>> => n # 0
      BY <1>3, EmptySeq
    <3> HIDE DEF n
    <3> QED
      BY <1>3, <3>1, <3>2, <3>3
  <2>6. /\ maps'.maps = {}
        /\ maps'.next =
             IF enqueued /\ p.offset = maps.next /\ ~EnqueueFails(maps, p.offset, n)
               THEN maps.next + n ELSE maps.next
    <3>1. maps.maps = {}
      BY <2>2 DEF CarefulServer
    <3>2. CASE enqueued
      BY <1>2, <2>5, <3>1, <3>2, MapsReceived
    <3>3. CASE ~enqueued
      BY <1>2, <3>1, <3>3
    <3> QED
      BY <3>2, <3>3
  <2>7. maps'.next \in {FirstPending, Posted} /\ maps.next <= maps'.next
    BY <1>3, <1>5, <2>2, <2>5, <2>6 DEF CarefulServer
  <2>8. ASSUME [id |-> request, ok |-> TRUE] \in responses' PROVE maps'.next = Posted
    <3>1. CASE [id |-> request, ok |-> TRUE] \in responses
      BY <1>3, <2>2, <2>7, <3>1, <1>5 DEF CarefulServer
    <3>2. CASE r = [id |-> request, ok |-> TRUE]
      <4>1. p.id = request /\ ~(enqueued /\ EnqueueFails(maps, p.offset, n))
        BY <3>2
      <4>2. p.maps = pendingMaps
        BY <2>2, <4>1 DEF CarefulPost
      <4>3. CASE pendingMaps = <<>>
        BY <1>3, <2>7, <4>3
      <4>4. CASE pendingMaps # <<>> /\ p.offset = maps.next
        BY <1>3, <2>5, <2>6, <4>1, <4>2, <4>4
      <4>5. CASE pendingMaps # <<>> /\ p.offset # maps.next
        <5>1. p.offset = FirstPending
          <6>1. Consecutive(p.maps, p.offset) /\ Consecutive(p.maps, FirstPending)
            BY <1>1, <1>3, <4>2 DEF PostOK, Numbered
          <6>2. 1 \in 1..n
            BY <1>3, <4>2, <4>5
          <6> QED
            BY <1>3, <6>1, <6>2 DEF Consecutive
        <5> QED
          BY <1>3, <2>2, <2>6, <4>5, <5>1 DEF CarefulServer
      <4> QED
        BY <4>3, <4>4, <4>5
    <3> QED
      BY <1>2, <2>8, <3>1, <3>2
  <2>9. \A id \in delivered : id < maps'.next
    <3>1. \A id \in delivered : id \in Nat /\ id < maps.next
      BY <1>1, <2>2 DEF TypeOK, CarefulServer
    <3> QED
      BY <1>3, <1>5, <1>6, <3>1
  <2>10. CarefulServer'
    BY <1>2, <1>4, <2>6, <2>7, <2>8, <2>9 DEF CarefulServer
  <2> QED
    BY <2>3, <2>4, <2>10
<1> QED
  BY <1>7, <1>8, <1>9, <1>10, <1>11 DEF Inv

-----------------------------------------------------------------------------
(***************************************************************************)
(* Theorems.                                                               *)
(***************************************************************************)

LEMMA InitInv ==
  ASSUME Init
  PROVE  Inv
<1>1. <<>> \in Seq(Nat) /\ Len(<<>>) = 0
  BY EmptySeq
<1>2. TypeOK
  <2>1. queued \in [maps.maps -> Nat]
    <3>1. <<>> \in [1..0 -> Nat]
      BY <1>1, LenProperties
    <3>2. 1..0 = {}
      OBVIOUS
    <3>3. maps.maps = {} /\ queued = <<>>
      BY DEF Init, NewMapQueue
    <3> QED
      BY <3>1, <3>2, <3>3, Zenon
  <2>2. maps \in MapQueueRecord
    BY DEF Init, NewMapQueue, MapQueueRecord
  <2>3. retryCount \in 0..MaxRetries /\ request \in 0..requests
    BY RequestAssumption DEF Init
  <2>4. outgoingMaps \in Seq(Nat) /\ pendingMaps \in Seq(Nat) /\ mapChan \in Seq(Nat)
    BY <1>1 DEF Init
  <2> QED
    BY <2>1, <2>2, <2>3, <2>4 DEF Init, TypeOK
<1>3. Posted = 0 /\ FirstPending = 0
  <2>1. nextMapId = 0 /\ Len(outgoingMaps) = 0 /\ Len(pendingMaps) = 0
    BY <1>1 DEF Init
  <2> QED
    BY <2>1 DEF Posted, FirstPending
<1>4. Numbered /\ Batched /\ Network
  BY <1>1, <1>3, EmptyIsConsecutive, RequestAssumption
     DEF Init, Numbered, Batched, Network
<1>5. QueueInOrder
  BY <1>1, <1>3, EmptyIsConsecutive, FS_EmptySet
     DEF Init, QueueInOrder, NewMapQueue
<1>6. Careful
  BY <1>3 DEF Init, Careful, CarefulClient, CarefulServer, CarefulPost, NewMapQueue
<1> QED
  BY <1>2, <1>4, <1>5, <1>6 DEF Inv

LEMMA NextInv ==
  ASSUME Inv, [Next]_vars
  PROVE  Inv'
<1>1. CASE Next
  <2>1. CASE \E p \in posts : ReceivePost(p) \/ LosePost(p)
    BY <2>1, ReceivePostInv, LosePostInv
  <2>2. CASE \E r \in responses : LoseResponse(r)
    BY <2>2, LoseResponseInv
  <2> QED
    BY <1>1, <2>1, <2>2, SendMapInv, OpenInv, StartForwardChannelInv, OpenedInv,
       RequestSucceedsInv, RequestFailsInv, RequestRejectedInv DEF Next
<1>2. CASE UNCHANGED vars
  BY <1>2 DEF vars, clientVars, networkVars, serverVars, Inv, TypeOK, Numbered,
              Batched, Network, PostOK, QueueInOrder, Careful, CarefulClient,
              CarefulServer, CarefulPost, FirstPending, Posted, Consecutive
<1> QED
  BY <1>1, <1>2

\* The inductive invariant: how maps are numbered in the client, on the
\* network and in the server, and what holds of a careful page.
THEOREM ForwardInvariance == Spec => []Inv
<1>1. Init => Inv
  BY InitInv
<1>2. Inv /\ [Next]_vars => Inv'
  BY NextInv
<1> QED
  BY <1>1, <1>2, PTL DEF Spec

\* Type correctness; the retry count stays within its limit.
THEOREM ForwardTypeCorrect == Spec => []TypeOK
<1>1. Inv => TypeOK
  BY DEF Inv
<1> QED
  BY <1>1, ForwardInvariance, PTL

\* The queue keeps no map whose turn is over or has come.
THEOREM QueueKeepsNoStaleMaps == Spec => []NoStaleMaps
<1>1. Inv => NoStaleMaps
  <2>1. SUFFICES ASSUME Inv PROVE NoStaleMaps
    OBVIOUS
  <2>2. \A id \in maps.maps : id \in Nat /\ maps.next \in Nat /\ maps.next < id
    BY <2>1 DEF Inv, TypeOK, MapQueueRecord, QueueInOrder
  <2> QED
    BY <2>2 DEF NoStaleMaps
<1> QED
  BY <1>1, ForwardInvariance, PTL

\* Maps that wait for a request have not reached the server in another one.
THEOREM WaitingMapsAreUndelivered == Spec => []UndeliveredMaps
<1>1. Inv => UndeliveredMaps
  <2>1. SUFFICES ASSUME Inv, NEW id \in SetOf(outgoingMaps)
                 PROVE  /\ id \notin SetOf(mapChan)
                        /\ \A i \in maps.maps : queued[i] # id
    BY DEF UndeliveredMaps
  <2>2. /\ Len(outgoingMaps) \in Nat /\ Posted \in Int /\ Len(mapChan) \in Nat
        /\ maps.next \in Nat /\ maps.maps \in SUBSET Nat
    BY <2>1, Lengths, LenProperties DEF Inv, TypeOK, MapQueueRecord
  <2>3. id \in Int /\ Posted <= id
    <3>1. PICK i \in 1..Len(outgoingMaps) : id = outgoingMaps[i]
      BY DEF SetOf
    <3>2. outgoingMaps[i] = Posted + i - 1
      BY <2>1 DEF Inv, Numbered, Consecutive
    <3> QED
      BY <2>2, <3>1, <3>2
  <2>4. ASSUME id \in SetOf(mapChan) PROVE FALSE
    <3>1. PICK i \in 1..Len(mapChan) : id = mapChan[i]
      BY <2>4 DEF SetOf
    <3>2. mapChan[i] = 0 + i - 1 /\ Len(mapChan) = maps.next /\ maps.next <= Posted
      BY <2>1 DEF Inv, QueueInOrder, Consecutive
    <3> QED
      BY <2>2, <2>3, <3>1, <3>2
  <2>5. \A i \in maps.maps : queued[i] # id
    <3>1. \A i \in maps.maps : queued[i] = i /\ i < Posted
      BY <2>1 DEF Inv, QueueInOrder
    <3> QED
      BY <2>2, <2>3, <3>1
  <2> QED
    BY <2>4, <2>5
<1> QED
  BY <1>1, ForwardInvariance, PTL

\* What the client of a careful page reports as delivered has been delivered.
THEOREM CarefulPagesAreTold == Spec => []CarefulDelivered
<1>1. Inv => CarefulDelivered
  <2>1. SUFFICES ASSUME Inv, page = "careful", NEW id \in delivered
                 PROVE  \E i \in 1..Len(mapChan) : mapChan[i] = id
    BY DEF CarefulDelivered, DeliveredMaps
  <2>2. id \in Nat /\ id < maps.next /\ Len(mapChan) = maps.next /\ maps.next \in Nat
    BY <2>1 DEF Inv, TypeOK, MapQueueRecord, QueueInOrder, Careful, CarefulServer
  <2>3. id + 1 \in 1..Len(mapChan)
    BY <2>2
  <2>4. mapChan[id + 1] = 0 + (id + 1) - 1
    BY <2>1, <2>3 DEF Inv, QueueInOrder, Consecutive
  <2> QED
    BY <2>2, <2>3, <2>4
<1> QED
  BY <1>1, ForwardInvariance, PTL

\* No map of a careful page waits in the queue, since no other is missing
\* before it (enqueue and dequeue of map.go, startForwardChannel_).
THEOREM CarefulPagesHaveNoGap == Spec => []CarefulHasNoGap
<1>1. Inv => CarefulHasNoGap
  BY DEF Inv, Careful, CarefulServer, CarefulHasNoGap
<1> QED
  BY <1>1, ForwardInvariance, PTL

\* The only POST of a careful page that enqueue rejects is one that carries
\* more maps than the queue has room for when it is empty.
THEOREM OnlyLongPostsAreRejected == Spec => CarefulRejections
<1> DEFINE OnlyLong == page = "careful" =>
             \A p \in posts \ posts', r \in responses' \ responses :
               ~r.ok => Len(p.maps) > MapCapacity
<1>1. Inv /\ [Next]_vars => [OnlyLong]_vars
  <2>1. SUFFICES ASSUME Inv, Next, page = "careful",
                        NEW p \in posts \ posts', NEW r \in responses' \ responses,
                        ~r.ok
                 PROVE  Len(p.maps) > MapCapacity
    OBVIOUS
  <2>2. PICK q \in posts : ReceivePost(q)
    BY <2>1
       DEF Next, SendMap, Open, StartForwardChannel, Opened, RequestSucceeds,
           RequestFails, RequestRejected, LosePost, LoseResponse, networkVars
  <2>3. p = q
    BY <2>1, <2>2 DEF ReceivePost
  <2>4. EnqueueFails(maps, p.offset, Len(p.maps))
    <3>1. r = [id |-> p.id,
               ok |-> ~((ready /\ p.maps # <<>>)
                        /\ EnqueueFails(maps, p.offset, Len(p.maps)))]
      BY <2>1, <2>2, <2>3 DEF ReceivePost
    <3> QED
      BY <2>1, <3>1
  <2>5. Cardinality(maps.maps) = 0
    BY <2>1, FS_EmptySet DEF Inv, Careful, CarefulServer
  <2>6. p.maps \in Seq(Nat) /\ Len(p.maps) \in Nat
    BY <2>1, LenProperties DEF Inv, TypeOK, Posts
  <2> QED
    BY <2>4, <2>5, <2>6, MapCapacityAssumption DEF EnqueueFails
<1> QED
  BY <1>1, ForwardInvariance, PTL DEF Spec, CarefulRejections

\* Every step maps to a step of the stream or leaves it alone.
LEMMA StreamStep ==
  ASSUME Inv, [Next]_vars
  PROVE  [Stream!Next]_(Stream!vars)
<1>1. CASE SendMap
  BY <1>1 DEF SendMap, serverVars, Stream!Next, Stream!SendMap
<1>2. ASSUME NEW p \in posts, ReceivePost(p)
      PROVE  [Stream!Next]_(Stream!vars)
  <2>1. nextMapId' = nextMapId
    BY <1>2 DEF ReceivePost, clientVars
  <2>2. CASE mapChan' = mapChan
    BY <2>1, <2>2 DEF Stream!vars
  <2>3. CASE mapChan' # mapChan
    <3>1. ReceiveMaps(p)
      BY <1>2, <2>3 DEF ReceivePost
    <3> DEFINE k == maps'.next - maps.next
    <3>2. /\ maps.next <= maps'.next /\ maps'.next <= Posted
          /\ mapChan' = mapChan \o Numbers(maps.next, k)
          /\ maps' \in MapQueueRecord
      BY <3>1, MapsReceived
    <3>3. /\ maps.next \in Nat /\ maps'.next \in Nat /\ Len(mapChan) = maps.next
          /\ mapChan \in Seq(Nat)
      BY <3>2 DEF Inv, TypeOK, QueueInOrder, MapQueueRecord
    <3>4. Posted <= nextMapId /\ Posted \in Int /\ nextMapId \in Nat
      BY Lengths DEF Inv, Posted
    <3>5. k # 0
      <4>1. ASSUME k = 0 PROVE mapChan' = mapChan
        BY <3>2, <3>3, <4>1, NumbersAreConsecutive, ConcatEmptySeq
      <4> QED
        BY <2>3, <4>1
    <3>6. k \in 1..(nextMapId - Len(mapChan))
      BY <3>2, <3>3, <3>4, <3>5
    <3>7. mapChan' = mapChan \o [i \in 1..k |-> Len(mapChan) + i - 1]
      BY <3>2, <3>3 DEF Numbers
    <3> HIDE DEF k
    <3>8. Stream!DeliverMaps
      BY <2>1, <3>6, <3>7 DEF Stream!DeliverMaps
    <3> QED
      BY <3>8 DEF Stream!Next
  <2> QED
    BY <2>2, <2>3
<1>3. CASE UNCHANGED <<nextMapId, mapChan>>
  BY <1>3 DEF Stream!vars
<1> QED
  BY <1>1, <1>2, <1>3
     DEF Next, Open, StartForwardChannel, Opened, RequestSucceeds, RequestFails,
         RequestRejected, LosePost, LoseResponse, vars, clientVars, serverVars

\* The forward channel implements a stream of maps: whatever is lost, delayed,
\* retried or split into requests, the application gets each map at most once,
\* in order, and none that was not sent.
THEOREM StreamIsImplemented == Spec => ImplementsMapStream
<1>1. Init => Stream!Init
  BY DEF Init, Stream!Init
<1>2. Inv /\ [Next]_vars => [Stream!Next]_(Stream!vars)
  BY StreamStep
<1> QED
  BY <1>1, <1>2, ForwardInvariance, PTL DEF Spec, ImplementsMapStream, Stream!Spec
=============================================================================
