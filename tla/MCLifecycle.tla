---------------------------- MODULE MCLifecycle -----------------------------
(* Instances of Lifecycle for TLC: two devices at a time.                   *)
EXTENDS Lifecycle, TLC

CONSTANTS d1, d2

TwoDevices == {d1, d2}
AllProtos == {"mext", "series", "40h", "osc"}
OnlyOsc == {"osc"}
Symmetric == Permutations(TwoDevices)

=============================================================================
