------------------------------ MODULE MCVdecOsd ------------------------------
(***************************************************************************)
(* vdec's OSD on a small instance: a second is two units, a minute two     *)
(* seconds and an hour two minutes, so that the clock is carried over and  *)
(* wraps; the positions at the two sides of one degree, where the texts    *)
(* change.                                                                 *)
(***************************************************************************)
EXTENDS VdecOsd

OrdinaryPositions == {9999999, 10000000}

\* 52.5 N and 0.05 W, 123.4 E.
EarthPositions == {525000000, -500000, 1234000000}
=============================================================================
