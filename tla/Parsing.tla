------------------------------ MODULE Parsing ------------------------------
(***************************************************************************)
(* The body of a forward channel request: how the client writes it         *)
(* (dequeueOutgoingMaps_, browserchannel.js) and how the server reads it   *)
(* (parseIncomingMaps and parseMapEntry, utils.go).  The entries of a body *)
(* are the values of a Go map, which range visits in an unspecified order. *)
(*                                                                         *)
(* An entry is a parameter 'req<slot>_<name>=<value>'.  The slot of a key  *)
(* that is no number is one beyond every count: both are bad maps.         *)
(* Different spellings of a key (req0_x, req00_x) are different entries of *)
(* the same slot and name.  A parameter without '_' is skipped and left    *)
(* out.                                                                    *)
(***************************************************************************)
EXTENDS Integers, Sequences, Functions

CONSTANTS
  Names,        \* the keys of a map; "type" is one of them
  Underscored,  \* those that contain '_'
  Values,       \* the values of a map; "_badmap" may be one of them
  \* Bounds of the model.
  FirstMapId,   \* the id of the first map the client posts
  MaxCount,     \* maps of a request
  MaxEntries    \* entries of a request that is not the client's

ASSUME NameAssumption == "type" \in Names \ Underscored /\ Underscored \subseteq Names
ASSUME BoundAssumption == FirstMapId \in Nat /\ MaxCount \in Nat

VARIABLES
  sent,       \* the maps the client put in the body; none if it is not its
  body,       \* the parameters
  todo,       \* the entries that range has not visited
  maps,       \* the maps parsed so far
  outcome     \* where the parser is, or how it ended

vars == <<sent, body, todo, maps, outcome>>

Entries ==
  [slot : -1..(MaxCount + 1), name : Names, value : Values \union {"_badmap"}]
Bodies ==
  [count : -1..MaxCount, ofs : Nat, ofsIsNumber : BOOLEAN, entries : SUBSET Entries]

-----------------------------------------------------------------------------
(***************************************************************************)
(* The client.  A map is what it holds and what forEach has written of it: *)
(* all, unless forEach threw.                                              *)
(***************************************************************************)
Maps == UNION {[ns -> Values] : ns \in SUBSET Names}
ClientMaps ==
  UNION {{[written |-> m, thrown |-> t] : m \in Maps} : t \in BOOLEAN}

\* One map at the given slot.  A key that occurs twice counts with its first
\* value, so that a '_badmap' after the key 'type' is not seen.
MapEntries(m, slot) ==
  {[slot |-> slot, name |-> n, value |-> m.written[n]] : n \in DOMAIN m.written}
    \union
  {[slot |-> slot, name |-> n, value |-> "_badmap"] :
     n \in IF m.thrown THEN {"type"} \ DOMAIN m.written ELSE {}}

MapId(i) == FirstMapId + i - 1

\* Mutant: map ids go out as they are.
DequeueAbsolute(ms) ==
  [count |-> Len(ms), ofs |-> IF ms = <<>> THEN 0 ELSE FirstMapId,
   ofsIsNumber |-> ms # <<>>,
   entries |-> UNION {MapEntries(ms[i], MapId(i)) : i \in DOMAIN ms}]

\* dequeueOutgoingMaps_: map ids are offsets from the first one, and 'ofs' is
\* left out when there is none.
DequeueOutgoingMaps(ms) ==
  [count |-> Len(ms), ofs |-> IF ms = <<>> THEN 0 ELSE MapId(1),
   ofsIsNumber |-> ms # <<>>,
   entries |-> UNION {MapEntries(ms[i], MapId(i) - MapId(1)) : i \in DOMAIN ms}]

ClientBody ==
  /\ sent \in UNION {[1..n -> ClientMaps] : n \in 0..MaxCount}
  /\ body = DequeueOutgoingMaps(sent)

\* A body of another client.
OtherBody ==
  /\ sent = <<>>
  /\ body \in [count : -1..MaxCount, ofs : {FirstMapId}, ofsIsNumber : BOOLEAN,
               entries : {Range(f) : f \in [1..MaxEntries -> Entries]} \union {{}}]

Init ==
  /\ ClientBody \/ OtherBody
  /\ todo = body.entries
  /\ maps = <<>>
  /\ outcome = "start"

-----------------------------------------------------------------------------
(***************************************************************************)
(* The server.  A panic ends the goroutine of the request: net/http        *)
(* recovers it and closes the connection.                                  *)
(***************************************************************************)

\* Mutant: one map too many.
StartWithSpare ==
  /\ outcome = "start"
  /\ outcome' = IF body.count = 0 THEN "ok"
                ELSE IF ~body.ofsIsNumber THEN "badMap"
                ELSE IF body.count < 0 THEN "panic"
                ELSE "entries"
  /\ maps' = IF outcome' = "entries" THEN [i \in 0..body.count |-> <<>>] ELSE <<>>
  /\ UNCHANGED <<sent, body, todo>>

\* parseIncomingMaps before the loop.  make panics if the count is negative.
Start ==
  /\ outcome = "start"
  /\ outcome' = IF body.count = 0 THEN "ok"
                ELSE IF ~body.ofsIsNumber THEN "badMap"
                ELSE IF body.count < 0 THEN "panic"
                ELSE "entries"
  /\ maps' = IF outcome' = "entries" THEN [i \in 0..(body.count - 1) |-> <<>>]
                                     ELSE <<>>
  /\ UNCHANGED <<sent, body, todo>>

\* A bad map, or a key that does not split in two parts.
Skipped(e) == e.value = "_badmap" \/ e.name \in Underscored

\* Mutant: the id is not checked.
AnyEntryOutcome(e) == "entries"

\* The outcome of parseMapEntry for an entry that is not skipped.  An id equal
\* to count, or below zero, passes the check and is out of range.
EntryOutcome(e) ==
  IF e.slot > body.count THEN "badMap"
  ELSE IF e.slot \in 0..(body.count - 1) THEN "entries"
  ELSE "panic"

Put(m, name, value) ==
  [n \in DOMAIN m \union {name} |-> IF n = name THEN value ELSE m[n]]

ParseMapEntry(e) ==
  /\ outcome = "entries"
  /\ todo' = todo \ {e}
  /\ IF Skipped(e)
       THEN UNCHANGED <<maps, outcome>>
       ELSE /\ outcome' = EntryOutcome(e)
            /\ maps' = IF outcome' = "entries"
                         THEN [maps EXCEPT ![e.slot] = Put(@, e.name, e.value)]
                         ELSE <<>>
  /\ UNCHANGED <<sent, body>>

Finish ==
  /\ outcome = "entries"
  /\ todo = {}
  /\ outcome' = "ok"
  /\ UNCHANGED <<sent, body, todo, maps>>

Next == Start \/ (\E e \in todo : ParseMapEntry(e)) \/ Finish

Spec == Init /\ [][Next]_vars

-----------------------------------------------------------------------------
(***************************************************************************)
(* Properties.                                                             *)
(***************************************************************************)
TypeOK ==
  /\ body \in Bodies
  /\ todo \subseteq body.entries
  /\ outcome \in {"start", "entries", "ok", "badMap", "panic"}
  /\ DOMAIN maps \subseteq 0..(body.count - 1)
  /\ \A i \in DOMAIN maps : maps[i] \in Maps

\* What the server makes of a map of the client: all that was written of it,
\* except for keys with an underscore and for values that read '_badmap'.
Kept(m) ==
  [n \in {x \in DOMAIN m.written \ Underscored : m.written[x] # "_badmap"} |->
     m.written[n]]

\* The two encodings fit: every body the client writes is accepted, in whatever
\* order its entries are visited, and gives its maps at their positions.
ClientMapsParsed ==
  sent # <<>> =>
    /\ outcome \notin {"badMap", "panic"}
    /\ outcome = "ok" =>
         /\ DOMAIN maps = 0..(Len(sent) - 1)
         /\ \A i \in DOMAIN sent : maps[i - 1] = Kept(sent[i])

\* A body is accepted or refused for what is in it and not for the order of its
\* entries: accepted maps hold, for every key, one of its values and nothing
\* else, and no entry that is out of range goes unnoticed.
Candidates(i, n) ==
  {e.value : e \in {x \in body.entries : x.slot = i /\ x.name = n /\ ~Skipped(x)}}

AcceptedWhole ==
  outcome = "ok" /\ body.count # 0 =>
    /\ \A e \in body.entries : ~Skipped(e) => e.slot \in 0..(body.count - 1)
    /\ \A i \in 0..(body.count - 1), n \in Names :
         IF n \in DOMAIN maps[i]
           THEN maps[i][n] \in Candidates(i, n)
           ELSE Candidates(i, n) = {}
=============================================================================
