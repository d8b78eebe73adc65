---------------------------- MODULE MCRotateMap -----------------------------
(* Instances of RotateMap for TLC: every single LED, pairs of LEDs, every   *)
(* row, nothing and everything.  The map callbacks permute bits, so what    *)
(* they do to one LED they do to it in every map.                           *)
EXTENDS RotateMap

OneLed == {{p} : p \in Points}
SomePairs == {{p, <<p[2], 7 - p[1]>>} : p \in Points}
EveryRow == {{<<i, 0>> : i \in s} : s \in SUBSET (0..7)}
SparseMaps == OneLed \cup SomePairs \cup EveryRow \cup {{}, Points}

=============================================================================
