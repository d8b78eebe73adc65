----------------------------- MODULE MCMextGrid -----------------------------
(* Instances of MextGrid for TLC: a grid of two sections of 2 by 2 LEDs,    *)
(* data that look different from every side, offsets of which one is on the *)
(* grid or off it with the rotation, and a group of levels that is not      *)
(* complete.                                                                *)
EXTENDS MextGrid

Corners == {0, 2}
Quarters == {0, 1, 2, 3, 6}
OneDot == {{<<1, 0>>}}
Corner == {[p \in Points |-> IF p = <<0, 1>> THEN 1 ELSE 0]}
TwoBytes == {<<{1}, {0}>>}
Groups == {<<1, 0, 0, 1, 1>>}
Dims == {2}

=============================================================================
