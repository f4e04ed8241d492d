----------------------------- MODULE BoundedFifo -----------------------------
(***************************************************************************)
(* What a bounded queue between two threads promises: items come out once, *)
(* in the order they went in, and never more than Capacity are inside.     *)
(***************************************************************************)
EXTENDS Naturals, Sequences

CONSTANTS Item, Capacity

VARIABLES
  inside,    \* put and not taken yet
  taken      \* history: everything taken

bfVars == <<inside, taken>>

Init == inside = <<>> /\ taken = <<>>

Put(x) ==
  /\ Len(inside) < Capacity
  /\ inside' = Append(inside, x)
  /\ UNCHANGED taken

Take ==
  /\ inside # <<>>
  /\ taken' = Append(taken, Head(inside))
  /\ inside' = Tail(inside)

Next == (\E x \in Item : Put(x)) \/ Take

Spec == Init /\ [][Next]_bfVars
=============================================================================
