--------------------------- MODULE ParsingProofs ---------------------------
(***************************************************************************)
(* Proofs about Parsing: what the parser accepts it has read in full, and  *)
(* it reads what the client wrote, whatever the names, the values and the  *)
(* bounds, and in whatever order range visits the entries.                 *)
(***************************************************************************)
EXTENDS Parsing, TLAPS

USE NameAssumption, BoundAssumption

Slots == 0..(body.count - 1)

\* The values visited so far for the key n of the map at slot i.
Visited(i, n) ==
  {e.value : e \in {x \in body.entries \ todo :
                      x.slot = i /\ x.name = n /\ ~Skipped(x)}}

\* What maps holds once the entries outside todo were visited.
Parsed ==
  /\ DOMAIN maps = Slots
  /\ \A e \in body.entries \ todo : ~Skipped(e) => e.slot \in Slots
  /\ \A i \in Slots, n \in Names :
       IF n \in DOMAIN maps[i]
         THEN maps[i][n] \in Visited(i, n)
         ELSE Visited(i, n) = {}

\* A body the client wrote is what dequeueOutgoingMaps_ makes of its maps.
FromClient ==
  sent # <<>> =>
    /\ sent \in Seq(ClientMaps)
    /\ body = DequeueOutgoingMaps(sent)
    /\ outcome \notin {"badMap", "panic"}

Inv ==
  /\ TypeOK
  /\ outcome = "start" => todo = body.entries
  /\ outcome = "entries" => Parsed
  /\ outcome = "ok" /\ body.count # 0 => todo = {} /\ Parsed
  /\ FromClient

-----------------------------------------------------------------------------
\* The fields of an entry.
LEMMA EntryFields ==
  ASSUME Inv, NEW e \in body.entries
  PROVE  /\ e.slot \in -1..(MaxCount + 1)
         /\ e.name \in Names
         /\ e.value \in Values \union {"_badmap"}
BY DEF Inv, TypeOK, Bodies, Entries

\* A map stays a map when an entry is put in it.
LEMMA PutInMap ==
  ASSUME NEW m \in Maps, NEW n \in Names, NEW v \in Values
  PROVE  Put(m, n, v) \in Maps
<1>1. PICK ns \in SUBSET Names : m \in [ns -> Values]
  BY DEF Maps
<1>2. Put(m, n, v) \in [ns \union {n} -> Values]
  BY <1>1 DEF Put
<1>3. ns \union {n} \in SUBSET Names
  BY <1>1
<1> QED
  BY <1>2, <1>3 DEF Maps

\* The entries the client writes for its i-th map are in the slot i - 1.
LEMMA ClientEntries ==
  ASSUME NEW ms \in Seq(ClientMaps), ms # <<>>
  PROVE  /\ DequeueOutgoingMaps(ms).count = Len(ms)
         /\ DequeueOutgoingMaps(ms).ofsIsNumber
         /\ DequeueOutgoingMaps(ms).entries =
              UNION {MapEntries(ms[i], i - 1) : i \in 1..Len(ms)}
<1>1. \A i \in 1..Len(ms) : MapId(i) - MapId(1) = i - 1
  BY DEF MapId
<1>2. DOMAIN ms = 1..Len(ms)
  OBVIOUS
<1>3. UNION {MapEntries(ms[i], MapId(i) - MapId(1)) : i \in DOMAIN ms}
        = UNION {MapEntries(ms[i], i - 1) : i \in 1..Len(ms)}
  BY <1>1, <1>2, Zenon
<1>4. /\ DequeueOutgoingMaps(ms).count = Len(ms)
      /\ DequeueOutgoingMaps(ms).ofsIsNumber = (ms # <<>>)
      /\ DequeueOutgoingMaps(ms).entries =
           UNION {MapEntries(ms[i], MapId(i) - MapId(1)) : i \in DOMAIN ms}
  BY Zenon DEF DequeueOutgoingMaps
<1> QED
  BY <1>3, <1>4, Zenon

\* A single map.
LEMMA ClientEntry ==
  ASSUME NEW ms \in Seq(ClientMaps), ms # <<>>, NEW i \in 1..Len(ms),
         NEW e \in DequeueOutgoingMaps(ms).entries, e.slot = i - 1
  PROVE  \/ /\ e.name \in DOMAIN ms[i].written
            /\ e.value = ms[i].written[e.name]
         \/ e.value = "_badmap"
<1>1. PICK j \in 1..Len(ms) : e \in MapEntries(ms[j], j - 1)
  BY ClientEntries
<1>2. e.slot = j - 1
  BY <1>1 DEF MapEntries
<1>3. j = i
  BY <1>2
<1> QED
  BY <1>1, <1>3 DEF MapEntries

-----------------------------------------------------------------------------
\* What the client writes is a body.
LEMMA ClientBodyOK == ASSUME ClientBody PROVE sent \in Seq(ClientMaps) /\ body \in Bodies
<1>1. PICK n \in 0..MaxCount : sent \in [1..n -> ClientMaps]
  BY DEF ClientBody
<1>2. sent \in Seq(ClientMaps) /\ Len(sent) = n /\ DOMAIN sent = 1..n
  BY <1>1
<1>3. \A i \in DOMAIN sent : MapEntries(sent[i], MapId(i) - MapId(1)) \subseteq Entries
  <2> SUFFICES ASSUME NEW i \in 1..n, NEW e \in MapEntries(sent[i], MapId(i) - MapId(1))
               PROVE  e \in Entries
    BY <1>2
  <2>1. MapId(i) - MapId(1) \in -1..(MaxCount + 1)
    BY DEF MapId
  <2>2. PICK m \in Maps, t \in BOOLEAN : sent[i] = [written |-> m, thrown |-> t]
    BY <1>1 DEF ClientMaps
  <2>3. PICK ns \in SUBSET Names : m \in [ns -> Values]
    BY DEF Maps
  <2>4. sent[i].written = m
    BY <2>2
  <2>5. /\ e.slot = MapId(i) - MapId(1)
        /\ e = [slot |-> e.slot, name |-> e.name, value |-> e.value]
        /\ \/ e.name \in DOMAIN m /\ e.value = m[e.name]
           \/ e.name = "type" /\ e.value = "_badmap"
    BY <2>4 DEF MapEntries
  <2>6. e.name \in Names /\ e.value \in Values \union {"_badmap"}
    BY <2>3, <2>5
  <2> QED
    BY <2>1, <2>5, <2>6 DEF Entries
<1>4. UNION {MapEntries(sent[i], MapId(i) - MapId(1)) : i \in DOMAIN sent} \in SUBSET Entries
  BY <1>3
<1>5. Len(sent) \in -1..MaxCount /\ (IF sent = <<>> THEN 0 ELSE MapId(1)) \in Nat
  BY <1>2 DEF MapId
<1> QED
  BY <1>2, <1>4, <1>5 DEF ClientBody, DequeueOutgoingMaps, Bodies

LEMMA OtherBodyOK == ASSUME OtherBody PROVE body \in Bodies
<1>1. ASSUME NEW f \in [1..MaxEntries -> Entries] PROVE Range(f) \in SUBSET Entries
  BY DEF Range
<1>2. body.entries \in {Range(f) : f \in [1..MaxEntries -> Entries]} \union {{}}
  BY DEF OtherBody
<1>3. body.entries \in SUBSET Entries
  BY <1>1, <1>2
<1>4. /\ body = [count |-> body.count, ofs |-> body.ofs,
                ofsIsNumber |-> body.ofsIsNumber, entries |-> body.entries]
      /\ body.count \in -1..MaxCount /\ body.ofs \in Nat /\ body.ofsIsNumber \in BOOLEAN
  BY DEF OtherBody
<1> QED
  BY <1>3, <1>4 DEF Bodies

\* Nothing is parsed before the loop starts.
LEMMA InitEstablishesInv == Init => Inv
<1> SUFFICES ASSUME Init PROVE Inv
  OBVIOUS
<1>1. outcome = "start" /\ todo = body.entries /\ maps = <<>>
  BY DEF Init
<1>2. body \in Bodies
  BY ClientBodyOK, OtherBodyOK DEF Init
<1>3. TypeOK
  BY <1>1, <1>2 DEF TypeOK
<1>4. FromClient
  BY <1>1, ClientBodyOK DEF Init, FromClient, ClientBody, OtherBody
<1> QED
  BY <1>1, <1>3, <1>4 DEF Inv

\* The loop starts with maps that are empty.
LEMMA StartKeepsInv == ASSUME Inv, Start PROVE Inv'
<1>1. UNCHANGED <<sent, body, todo>> /\ body.count \in Int
  BY DEF Start, Inv, TypeOK, Bodies
<1>2. outcome' \in {"ok", "badMap", "panic", "entries"}
  BY DEF Start
<1>3. maps' = IF outcome' = "entries" THEN [i \in Slots |-> <<>>] ELSE <<>>
  BY DEF Start, Slots
<1>4. <<>> \in Maps /\ DOMAIN <<>> = {}
  BY DEF Maps
<1>5. TypeOK'
  BY <1>1, <1>2, <1>3, <1>4 DEF Inv, TypeOK, Slots
<1>6. outcome' = "ok" => body.count = 0
  BY DEF Start
<1>7. ASSUME outcome' = "entries" PROVE Parsed'
  <2>1. todo = body.entries
    BY DEF Inv, Start
  <2>2. maps' = [i \in Slots' |-> <<>>]
    BY <1>1, <1>3, <1>7 DEF Slots
  <2>3. \A i, n : Visited(i, n)' = {}
    BY <2>1, <1>1 DEF Visited
  <2> QED
    BY <2>1, <2>2, <2>3, <1>1, <1>4 DEF Parsed
<1>8. FromClient'
  BY <1>1, ClientEntries DEF Inv, FromClient, Start
<1> QED
  BY <1>1, <1>2, <1>5, <1>6, <1>7, <1>8 DEF Inv

\* An entry is skipped, or put where it belongs, or ends the loop.
LEMMA ParseMapEntryKeepsInv ==
  ASSUME Inv, NEW e \in todo, ParseMapEntry(e) PROVE Inv'
<1>1. /\ UNCHANGED <<sent, body>> /\ todo' = todo \ {e}
      /\ outcome = "entries" /\ Parsed
  BY DEF ParseMapEntry, Inv
<1>2. e \in body.entries /\ e.slot \in Int /\ e.name \in Names /\ body.count \in Int
  BY EntryFields DEF Inv, TypeOK, Bodies
<1>3. body.entries \ todo' = (body.entries \ todo) \union {e}
  BY <1>1, <1>2
<1>4. ASSUME NEW i, NEW n
      PROVE  Visited(i, n)' = Visited(i, n) \union
               {x.value : x \in {y \in {e} : y.slot = i /\ y.name = n /\ ~Skipped(y)}}
  <2>1. {x \in (body.entries \ todo) \union {e} :
           x.slot = i /\ x.name = n /\ ~Skipped(x)}
        = {x \in body.entries \ todo : x.slot = i /\ x.name = n /\ ~Skipped(x)}
            \union {y \in {e} : y.slot = i /\ y.name = n /\ ~Skipped(y)}
    OBVIOUS
  <2>2. Visited(i, n)' = {x.value : x \in {x \in (body.entries \ todo) \union {e} :
                           x.slot = i /\ x.name = n /\ ~Skipped(x)}}
    BY <1>1, <1>3, Zenon DEF Visited, Skipped
  <2> QED
    BY <2>1, <2>2 DEF Visited
<1>5. CASE Skipped(e)
  <2>1. UNCHANGED <<maps, outcome>>
    BY <1>5 DEF ParseMapEntry
  <2>2. \A i, n : Visited(i, n)' = Visited(i, n)
    BY <1>4, <1>5
  <2>3. Parsed'
    BY <1>1, <1>3, <1>5, <2>1, <2>2, Zenon DEF Parsed, Slots, Skipped
  <2> QED
    BY <1>1, <2>1, <2>3 DEF Inv, TypeOK, FromClient
<1>6. CASE ~Skipped(e) /\ outcome' = "entries"
  <2>1. e.slot \in Slots /\ maps' = [maps EXCEPT ![e.slot] = Put(@, e.name, e.value)]
    BY <1>2, <1>6 DEF ParseMapEntry, EntryOutcome, Slots
  <2>2. e.value \in Values
    BY <1>2, <1>6, EntryFields DEF Skipped
  <2>3. DOMAIN maps = Slots /\ \A i \in Slots : maps[i] \in Maps
    BY <1>1 DEF Parsed, Inv, TypeOK
  <2>4. DOMAIN maps' = Slots /\ \A i \in Slots : maps'[i] \in Maps
    BY <2>1, <2>2, <2>3, <1>2, PutInMap
  <2>5. TypeOK'
    BY <1>1, <1>6, <2>4 DEF Inv, TypeOK, Slots
  <2>6. /\ DOMAIN maps'[e.slot] = DOMAIN maps[e.slot] \union {e.name}
        /\ maps'[e.slot][e.name] = e.value
        /\ \A k \in DOMAIN maps[e.slot] : k # e.name => maps'[e.slot][k] = maps[e.slot][k]
    <3>1. maps'[e.slot] = Put(maps[e.slot], e.name, e.value)
      BY <2>1, <2>3
    <3> QED
      BY <3>1 DEF Put
  <2>7. \A i \in Slots : i # e.slot => maps'[i] = maps[i]
    BY <2>1, <2>3
  <2>8. ASSUME NEW i \in Slots, NEW n \in Names
        PROVE  IF n \in DOMAIN maps'[i]
                 THEN maps'[i][n] \in Visited(i, n)'
                 ELSE Visited(i, n)' = {}
    <3>1. CASE i = e.slot /\ n = e.name
      <4>1. n \in DOMAIN maps'[i] /\ maps'[i][n] = e.value
        BY <2>6, <3>1
      <4>2. e.value \in Visited(i, n)'
        BY <1>4, <1>6, <3>1
      <4> QED
        BY <4>1, <4>2
    <3>2. CASE i # e.slot \/ n # e.name
      <4>1. Visited(i, n)' = Visited(i, n)
        BY <1>4, <3>2
      <4>2. n \in DOMAIN maps'[i] <=> n \in DOMAIN maps[i]
        BY <2>6, <2>7, <3>2
      <4>3. n \in DOMAIN maps[i] => maps'[i][n] = maps[i][n]
        BY <2>6, <2>7, <3>2
      <4> QED
        BY <4>1, <4>2, <4>3, <1>1 DEF Parsed
    <3> QED
      BY <3>1, <3>2
  <2>9. Parsed'
    BY <1>1, <1>3, <2>1, <2>4, <2>8 DEF Parsed, Slots, Skipped
  <2> QED
    BY <1>1, <1>6, <2>5, <2>9 DEF Inv, FromClient
<1>7. CASE ~Skipped(e) /\ outcome' # "entries"
  <2>1. outcome' \in {"badMap", "panic"} /\ maps' = <<>> /\ ~(e.slot \in Slots)
    BY <1>2, <1>7 DEF ParseMapEntry, EntryOutcome, Slots
  <2>2. TypeOK'
    BY <1>1, <2>1 DEF Inv, TypeOK
  <2>3. sent = <<>>
    <3> SUFFICES ASSUME sent # <<>> PROVE FALSE
      OBVIOUS
    <3>1. sent \in Seq(ClientMaps) /\ body = DequeueOutgoingMaps(sent)
      BY DEF Inv, FromClient
    <3>2. PICK i \in 1..Len(sent) : e \in MapEntries(sent[i], i - 1)
      BY <1>2, <3>1, ClientEntries
    <3>3. e.slot = i - 1 /\ body.count = Len(sent)
      BY <3>1, <3>2, ClientEntries DEF MapEntries
    <3> QED
      BY <2>1, <3>1, <3>3 DEF Slots
  <2> QED
    BY <1>1, <2>1, <2>2, <2>3 DEF Inv, FromClient
<1> QED
  BY <1>5, <1>6, <1>7

\* The loop ends when every entry was visited.
LEMMA FinishKeepsInv == ASSUME Inv, Finish PROVE Inv'
<1>1. UNCHANGED <<sent, body, todo, maps>> /\ outcome' = "ok" /\ todo = {} /\ Parsed
  BY DEF Inv, Finish
<1>2. Parsed'
  BY <1>1 DEF Parsed, Visited, Slots, Skipped
<1> QED
  BY <1>1, <1>2 DEF Inv, TypeOK, FromClient

\* Every step keeps the invariant.
LEMMA StepKeepsInv == Inv /\ [Next]_vars => Inv'
<1> SUFFICES ASSUME Inv, [Next]_vars PROVE Inv'
  OBVIOUS
<1>1. CASE UNCHANGED vars
  BY <1>1 DEF vars, Inv, TypeOK, FromClient, Parsed, Visited, Slots, Skipped
<1> QED
  BY <1>1, StartKeepsInv, ParseMapEntryKeepsInv, FinishKeepsInv DEF Next

\* The inductive invariant: what the entries visited so far have left in maps.
THEOREM ParsingInvariance == Spec => []Inv
BY InitEstablishesInv, StepKeepsInv, PTL DEF Spec

\* The parser stays within the maps it made, whatever the body.
THEOREM ParsingTypeCorrect == Spec => []TypeOK
<1>1. Inv => TypeOK
  BY DEF Inv
<1> QED
  BY <1>1, ParsingInvariance, PTL

\* What parseIncomingMaps accepts it has read in full: no entry that is out of
\* range goes unnoticed, and no value is lost or made up.
THEOREM AcceptedBodiesAreWhole == Spec => []AcceptedWhole
<1>1. Inv => AcceptedWhole
  <2> SUFFICES ASSUME Inv, outcome = "ok", body.count # 0 PROVE AcceptedWhole
    BY DEF AcceptedWhole
  <2>1. todo = {} /\ Parsed
    BY DEF Inv
  <2>2. \A i, n : Candidates(i, n) = Visited(i, n)
    BY <2>1 DEF Candidates, Visited
  <2> QED
    BY <2>1, <2>2 DEF AcceptedWhole, Parsed, Slots
<1> QED
  BY <1>1, ParsingInvariance, PTL

\* What the visited entries of a client say of a key is what the client wrote.
LEMMA ClientValues ==
  ASSUME sent # <<>>, sent \in Seq(ClientMaps), body = DequeueOutgoingMaps(sent),
         todo = {}, NEW i \in 1..Len(sent), NEW n \in Names
  PROVE  Visited(i - 1, n) = IF n \in DOMAIN Kept(sent[i]) THEN {Kept(sent[i])[n]} ELSE {}
<1> DEFINE m == sent[i].written
<1>1. ASSUME NEW e \in body.entries, e.slot = i - 1, e.name = n, ~Skipped(e)
      PROVE  n \in DOMAIN Kept(sent[i]) /\ e.value = Kept(sent[i])[n]
  <2>1. n \in DOMAIN m /\ e.value = m[n]
    BY <1>1, ClientEntry DEF Skipped
  <2> QED
    BY <2>1, <1>1 DEF Kept, Skipped
<1>2. ASSUME n \in DOMAIN Kept(sent[i])
      PROVE  \E e \in body.entries :
               e.slot = i - 1 /\ e.name = n /\ ~Skipped(e) /\ e.value = Kept(sent[i])[n]
  <2> DEFINE e == [slot |-> i - 1, name |-> n, value |-> m[n]]
  <2>1. n \in DOMAIN m /\ n \notin Underscored /\ m[n] # "_badmap" /\ Kept(sent[i])[n] = m[n]
    BY <1>2 DEF Kept
  <2>2. e \in MapEntries(sent[i], i - 1)
    BY <2>1 DEF MapEntries
  <2>3. e \in body.entries
    BY <2>2, ClientEntries
  <2> QED
    BY <2>1, <2>3 DEF Skipped
<1> HIDE DEF m
<1>3. Visited(i - 1, n) =
        {e.value : e \in {x \in body.entries : x.slot = i - 1 /\ x.name = n /\ ~Skipped(x)}}
  BY DEF Visited
<1>4. CASE n \in DOMAIN Kept(sent[i])
  <2>1. \A v \in Visited(i - 1, n) : v = Kept(sent[i])[n]
    BY <1>1, <1>3
  <2>2. Kept(sent[i])[n] \in Visited(i - 1, n)
    BY <1>2, <1>3, <1>4
  <2> QED
    BY <1>4, <2>1, <2>2
<1>5. CASE n \notin DOMAIN Kept(sent[i])
  <2>1. \A v \in Visited(i - 1, n) : FALSE
    BY <1>1, <1>3, <1>5
  <2> QED
    BY <1>5, <2>1
<1> QED
  BY <1>4, <1>5

\* Every body the client writes is parsed into its maps, whatever their keys and
\* values, and whatever the order in which range visits the entries.
THEOREM ClientBodiesAreParsed == Spec => []ClientMapsParsed
<1>1. Inv => ClientMapsParsed
  <2> SUFFICES ASSUME Inv, sent # <<>>, outcome = "ok"
               PROVE  /\ DOMAIN maps = 0..(Len(sent) - 1)
                      /\ \A i \in DOMAIN sent : maps[i - 1] = Kept(sent[i])
    BY DEF ClientMapsParsed, Inv, FromClient
  <2>1. sent \in Seq(ClientMaps) /\ body = DequeueOutgoingMaps(sent)
    BY DEF Inv, FromClient
  <2>2. body.count = Len(sent) /\ Len(sent) # 0
    BY <2>1, ClientEntries
  <2>3. todo = {} /\ Parsed /\ TypeOK
    BY <2>2 DEF Inv
  <2>4. DOMAIN maps = 0..(Len(sent) - 1)
    BY <2>2, <2>3 DEF Parsed, Slots
  <2>5. ASSUME NEW i \in 1..Len(sent) PROVE maps[i - 1] = Kept(sent[i])
    <3>1. i - 1 \in Slots
      BY <2>1, <2>2 DEF Slots
    <3>2. PICK ns \in SUBSET Names : maps[i - 1] \in [ns -> Values]
      BY <2>3, <2>4, <3>1, <2>2 DEF TypeOK, Slots, Maps
    <3>3. \A n \in Names :
            IF n \in ns
              THEN maps[i - 1][n] \in Visited(i - 1, n)
              ELSE Visited(i - 1, n) = {}
      BY <2>3, <3>1, <3>2 DEF Parsed
    <3>4. \A n \in Names :
            Visited(i - 1, n) = IF n \in DOMAIN Kept(sent[i])
                                  THEN {Kept(sent[i])[n]} ELSE {}
      BY <2>1, <2>3, ClientValues
    <3>5. DOMAIN Kept(sent[i]) \subseteq Names
      <4>1. PICK m \in Maps, t \in BOOLEAN : sent[i] = [written |-> m, thrown |-> t]
        BY <2>1 DEF ClientMaps
      <4> QED
        BY <4>1 DEF Kept, Maps
    <3>6. \A n \in Names : n \in ns <=> n \in DOMAIN Kept(sent[i])
      BY <3>3, <3>4
    <3>7. ns = DOMAIN Kept(sent[i])
      BY <3>5, <3>6
    <3>8. \A n \in ns : maps[i - 1][n] = Kept(sent[i])[n]
      BY <3>3, <3>4, <3>6
    <3>9. Kept(sent[i]) = [n \in DOMAIN Kept(sent[i]) |-> Kept(sent[i])[n]]
      BY DEF Kept
    <3> QED
      BY <3>2, <3>7, <3>8, <3>9
  <2>6. DOMAIN sent = 1..Len(sent)
    BY <2>1
  <2> QED
    BY <2>4, <2>5, <2>6
<1> QED
  BY <1>1, ParsingInvariance, PTL
=============================================================================
