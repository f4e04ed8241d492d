----------------------------- MODULE MCRecorder -----------------------------
(***************************************************************************)
(* The recorder on small instances: a ring of two or three slots, blocks   *)
(* of two units, NALs of one and two, enough NALs to go round the ring.    *)
(***************************************************************************)
EXTENDS Recorder
=============================================================================
