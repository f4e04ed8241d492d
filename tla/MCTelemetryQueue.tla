-------------------------- MODULE MCTelemetryQueue --------------------------
(***************************************************************************)
(* The telemetry path on a small instance: two slots, so that the ring     *)
(* wraps and fills; bytes up to four, two of them the markers, so that the *)
(* longest length a parser can read from the wrong place is about a frame; *)
(* a frame of either version and a signed one, two of them with bytes in   *)
(* them that look like beginnings.                                         *)
(***************************************************************************)
EXTENDS TelemetryPath

F(v2, signed, seq, payload, items) ==
  [v2 |-> v2, signed |-> signed, seq |-> seq, msgid |-> 2, payload |-> payload,
   ck |-> <<1, 2>>, items |-> items]

SmallFrames ==
  { F(TRUE, FALSE, 0, <<1>>, <<"i1">>),
    F(FALSE, FALSE, 0, <<2>>, <<"i2", "i1">>),
    F(TRUE, TRUE, 4, <<3>>, <<>>) }
=============================================================================
