--------------------------- MODULE MCFrameSender ---------------------------
(***************************************************************************)
(* venc's streaming loop on a small instance: parameter sets that fit, and *)
(* slices on both sides of every boundary of the size test and of the      *)
(* chunk arithmetic.                                                       *)
(***************************************************************************)
EXTENDS FrameSender

\* H.264: a parameter set, an IDR slice and ordinary slices, MaxSize = 3.
AvcPacks ==
  {[head |-> <<103>>, len |-> 7], [head |-> <<101>>, len |-> 4],
   [head |-> <<97>>, len |-> 8], [head |-> <<97>>, len |-> 11]}
=============================================================================
