------------------------------- MODULE NalFifo -------------------------------
(***************************************************************************)
(* What the video link promises when the network loses nothing: the        *)
(* decoder is given exactly the NALs the encoder produced, byte for byte   *)
(* and in their order.                                                     *)
(***************************************************************************)
EXTENDS Sequences

CONSTANT Nal        \* the NALs that can be produced, as byte sequences

VARIABLES
  queue,            \* produced and not delivered yet
  delivered         \* given to the decoder

fifoVars == <<queue, delivered>>

Init == queue = <<>> /\ delivered = <<>>

Produce(x) == queue' = Append(queue, x) /\ UNCHANGED delivered

Hand ==
  /\ queue # <<>>
  /\ delivered' = Append(delivered, Head(queue))
  /\ queue' = Tail(queue)

Next == (\E x \in Nal : Produce(x)) \/ Hand

Spec == Init /\ [][Next]_fifoVars
=============================================================================
