--------------------------- MODULE DeviceSession ---------------------------
(***************************************************************************)
(* What a protocol of libmonome promises the application that opened a     *)
(* device, whatever bytes travel on the serial line:                       *)
(*                                                                         *)
(*  - monome_open() either fails or yields a device whose grid size is the *)
(*    one the hardware has;                                                *)
(*  - from then on the application receives the inputs of the device in    *)
(*    the order in which they happened, each at most once and none that    *)
(*    did not happen; inputs that precede the end of the opening handshake *)
(*    are discarded, oldest first;                                         *)
(*  - inputs are lost afterwards only when the device is unplugged.        *)
(*                                                                         *)
(* Mext implements this specification (MextImplementsSession there), and   *)
(* so does SerialEvents (SerialImplementsSession).                         *)
(***************************************************************************)
EXTENDS Naturals, Sequences

CONSTANTS Input,        \* everything a user can do to the device
          DeviceSize    \* the columns and rows of the hardware

VARIABLES phase,        \* "opening", "open" or "over" (failed or closed)
          size,         \* the size the application is told
          queue,        \* inputs that happened and were not consumed yet
          delivered     \* inputs handed to the application

vars == <<phase, size, queue, delivered>>

Init ==
    /\ phase = "opening"
    /\ size = <<0, 0>>
    /\ queue = <<>>
    /\ delivered = <<>>

(* The user presses a key, turns an encoder, tilts the device. *)
Happen ==
    /\ \E i \in Input : queue' = Append(queue, i)
    /\ UNCHANGED <<phase, size, delivered>>

(* The hardware size becomes known while the device is being opened. *)
Measure ==
    /\ phase = "opening"
    /\ size' = DeviceSize
    /\ UNCHANGED <<phase, queue, delivered>>

(* An input that happens before the device is open is dropped. *)
Discard ==
    /\ phase = "opening"
    /\ queue # <<>>
    /\ queue' = Tail(queue)
    /\ UNCHANGED <<phase, size, delivered>>

Opened ==
    /\ phase = "opening"
    /\ size = DeviceSize
    /\ phase' = "open"
    /\ UNCHANGED <<size, queue, delivered>>

Deliver ==
    /\ phase = "open"
    /\ queue # <<>>
    /\ delivered' = Append(delivered, Head(queue))
    /\ queue' = Tail(queue)
    /\ UNCHANGED <<phase, size>>

(* The device is unplugged: what it had not handed over is gone. *)
Unplug ==
    /\ queue' = <<>>
    /\ UNCHANGED <<phase, size, delivered>>

(* monome_open() gives up or the application closes the device. *)
End ==
    /\ phase # "over"
    /\ phase' = "over"
    /\ UNCHANGED <<size, queue, delivered>>

Next == Happen \/ Measure \/ Discard \/ Opened \/ Deliver \/ Unplug \/ End

Spec == Init /\ [][Next]_vars

============================================================================
