---------------------------- MODULE MCSerialLeds ----------------------------
(* Instances of MonomeSerial for TLC, used by a program or by the daemon:   *)
(* devices of one, two and four sections of 2 by 2 LEDs, data that look     *)
(* different from every side, levels next to the threshold, a group of      *)
(* levels that is not complete.                                             *)
EXTENDS MonomeSerial

Device(p, c, r) == [proto |-> p, cols |-> c, rows |-> r]
AllGrids == {Device("series", 4, 4), Device("series", 4, 2),
             Device("series", 2, 2), Device("40h", 2, 2)}
Wide == {Device("series", 4, 2)}

FirstAndSecond == {0, 2}
Quarters == {0, 1, 2, 7}
OneDot == {{<<1, 0>>}}
Corner == {[p \in Points |-> IF p = <<0, 1>> THEN 2 ELSE 1]}
TwoBytes == {<<{1}, {1}>>}
Groups == {<<2, 1, 1, 3, 3>>}
Dims == {2}

OneKey == {<<1, 0>>}
Request(path, args) == [path |-> path, args |-> args]
Traffic == {
    Request("led", <<1, 0, 1>>),
    Request("led", <<16, 0, 1>>),
    Request("clear", <<>>),
    Request("led_row", <<1, {1}, {1}>>),
    Request("led_col", <<0, {1}, {1}>>),
    Request("frame", <<{1}, {}>>),
    Request("frame", <<2, 0, {1}, {}>>),
    Request("intensity", <<2>>),
    Request("press", <<0, 0, 1>>) }

(* The instance without turned level maps is one the theorem of the LED     *)
(* functions is about.                                                      *)
ASSUME InstanceDraws == ~TurnedMaps => DrawingAssumption

=============================================================================
