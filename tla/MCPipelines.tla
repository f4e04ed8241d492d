----------------------------- MODULE MCPipelines -----------------------------
(***************************************************************************)
(* The three mains on a small instance: room for four bytes in a fragment, *)
(* or less than none, frames at both sides of the limit and at a whole     *)
(* number of fragments, sequence numbers that wrap, and vdec started three *)
(* times.                                                                  *)
(***************************************************************************)
EXTENDS Pipelines
=============================================================================
