------------------------------- MODULE MCMext -------------------------------
(* Instances of Mext for TLC.  Of the code's times the order is kept: a     *)
(* slice, the retry, the deadline.  The retry and the deadline are no       *)
(* multiples of a slice once the host has been preempted.                   *)
EXTENDS Mext

(* A press whose x is the number of a system command. *)
Press == [type |-> "BUTTON_DOWN", args |-> <<3, 1>>]

(* Negative values, of one byte and of two. *)
Turn == [type |-> "ENCODER_DELTA", args |-> <<1, -2>>]
Tilt == [type |-> "TILT", args |-> <<0, 1, -1, -300>>]

PressAndTilt == {Press, Tilt}
PressOnly == {Press}
TurnOnly == {Turn}

(* A system message nobody asked for. *)
SystemMsg == {<<Header(SS_SYSTEM, CMD_SYSTEM_ADDR), 1, 2>>}
Quiet == {}

============================================================================
