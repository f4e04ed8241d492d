---------------------------- MODULE MCSampleLink ----------------------------
(***************************************************************************)
(* The samples on small instances: venc cuts to 5 bytes, the relay to 3,   *)
(* so that a NAL is cut by none, by the relay only and by both.  The NALs  *)
(* of 4 bytes have the sizes the relay's chunk arithmetic misses; the one  *)
(* with header 65 is a slice that vdec-stdout takes for a parameter set,   *)
(* as it does the NAL of 3 bytes, which is one.                            *)
(***************************************************************************)
EXTENDS SampleLink

RelayPacks ==
  {[head |-> <<103>>, len |-> 3], [head |-> <<65>>, len |-> 4],
   [head |-> <<38, 1>>, len |-> 4], [head |-> <<38, 1>>, len |-> 6],
   [head |-> <<97>>, len |-> 11]}
=============================================================================
