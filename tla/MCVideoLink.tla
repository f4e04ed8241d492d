---------------------------- MODULE MCVideoLink ----------------------------
(***************************************************************************)
(* The link on small instances: MaxSize = 3, NALs of one to four           *)
(* datagrams, so that fragments of two cut NALs meet in every order.       *)
(***************************************************************************)
EXTENDS VideoLink

AvcPacks ==
  {[head |-> <<103>>, len |-> 3], [head |-> <<101>>, len |-> 8],
   [head |-> <<97>>, len |-> 11]}

HevcPacks ==
  {[head |-> <<64, 1>>, len |-> 4], [head |-> <<38, 1>>, len |-> 8],
   [head |-> <<2, 1>>, len |-> 12]}

\* For the runs with faults: one datagram, or the fewest that are a cut NAL.
SmallAvcPacks == {[head |-> <<103>>, len |-> 3], [head |-> <<97>>, len |-> 8]}
=============================================================================
