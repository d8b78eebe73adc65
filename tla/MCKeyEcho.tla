----------------------------- MODULE MCKeyEcho ------------------------------
(* An instance of KeyEcho for TLC: a 3 by 2 grid that is believed to be     *)
(* smaller than it is, and arguments beyond the four rotations.             *)
EXTENDS KeyEcho

Quarters == {0, 1, 2, 3, 5, 7}

=============================================================================
