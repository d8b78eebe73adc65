--------------------------- MODULE MCSerialEvents ---------------------------
(* Instances of SerialEvents for TLC: one key, whose byte is that of a      *)
(* message kind, two tilt readings per axis, one message to be ignored.     *)
EXTENDS SerialEvents

OneKey == {<<1, 0>>}
TwoLevels == [p \in {"series", "40h"} |-> IF p = "series" THEN {16, 200}
                                                        ELSE {3, 1023}]
Both == {"series", "40h"}
AuxInput == {<<224, 0>>}
EightByEight == <<8, 8>>

=============================================================================
