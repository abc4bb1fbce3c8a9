---------------------------- MODULE BackChannel ----------------------------
(***************************************************************************)
(* The record behind a back channel (backchannel.go): the HTTP response on *)
(* which arrays are streamed to the client.  The data channel is a bounded *)
(* Go channel written by send, under the lock of the browser channel, and  *)
(* read by wait, which runs in the goroutine of the HTTP request.  A chunk *)
(* is what one call of send enqueues: the sequence of outgoing arrays that *)
(* were marshalled together.                                               *)
(*                                                                         *)
(* Bytes are counted in arrays: the length of a chunk is the number of     *)
(* arrays in it, and MaxBytes stands for the 10 KiB limit.                 *)
(***************************************************************************)
EXTENDS Integers, Sequences

CONSTANTS DataChannelCapacity, MaxBytes

ASSUME CapacityAssumption == DataChannelCapacity \in Nat \ {0}
ASSUME MaxBytesAssumption == MaxBytes \in Nat

BackChannelRecord(Array) ==
  [chunked : BOOLEAN, bytesSent : Nat, dataChan : Seq(Seq(Array)),
   err : BOOLEAN, open : BOOLEAN]

\* newBackChannel followed by setChunked.
NewBackChannel(chunked) ==
  [chunked |-> chunked, bytesSent |-> 0, dataChan |-> <<>>,
   err |-> FALSE, open |-> TRUE]

\* Mutant: a failed send does not show.
IsReusableAfterError(bc) == bc.chunked /\ bc.bytesSent < MaxBytes

IsReusable(bc) == bc.chunked /\ bc.bytesSent < MaxBytes /\ ~bc.err

\* The select of send takes its default branch when the data channel is full.
CanSend(bc) == Len(bc.dataChan) < DataChannelCapacity

Send(bc, data) ==
  IF CanSend(bc)
    THEN [bc EXCEPT !.dataChan = Append(@, data), !.bytesSent = @ + Len(data)]
    ELSE [bc EXCEPT !.err = TRUE]

\* discard closes the data channel; what it buffers can still be read.
Discard(bc) == [bc EXCEPT !.open = FALSE]

(***************************************************************************)
(* The loop of wait, for data := range dataChan: one iteration takes the   *)
(* oldest chunk, and the loop ends once the channel is closed and drained. *)
(***************************************************************************)
HasData(bc) == bc.dataChan # <<>>
NextChunk(bc) == Head(bc.dataChan)
TakeChunk(bc) == [bc EXCEPT !.dataChan = Tail(@)]
WaitIsOver(bc) == ~bc.open /\ bc.dataChan = <<>>
=============================================================================
