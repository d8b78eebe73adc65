---------------------------- MODULE SerialEvents ----------------------------
(***************************************************************************)
(* Input of the two older protocols, series (src/proto/series.c) and 40h   *)
(* (src/proto/40h.c), over the POSIX serial line (src/platform/posix.c).   *)
(* Messages have two bytes and nothing marks the first of them.  There is  *)
(* no handshake: the size comes from the device map.                       *)
(*                                                                         *)
(* The device and the line are external: bytes arrive in order and in      *)
(* arbitrary pieces; the device may be unplugged.  The grid lies in        *)
(* rotation 0.                                                             *)
(***************************************************************************)
EXTENDS Integers, Sequences, FiniteSetsExt

CONSTANTS
    Protos,       \* "series", "40h" or both
    Keys,         \* keys the user presses, <<x, y>>
    Levels,       \* for each protocol, the tilt readings devices send
    Noise,        \* messages without an input
    Size,         \* columns and rows of the device map's entry
    MaxMessages,  \* bound: messages the device sends
    MaxEvents     \* bound: events after which the application stops asking

ASSUME ProtoAssumption ==
    /\ Protos \subseteq {"series", "40h"}
    /\ Keys \subseteq (0..15) \X (0..15)
    /\ Levels \in [Protos -> SUBSET (0..1023)]
    /\ "series" \in Protos => Levels["series"] \subseteq 0..255
    /\ MaxMessages \in Nat /\ MaxEvents \in Nat

VARIABLES
    proto,       \* the protocol module that was loaded
    mode,        \* "new", "opening", "open", "closed", "failed"
    size,        \* monome->cols and monome->rows
    pc,          \* "idle", "read" or, waiting for the second byte, "more"
    buf,         \* next_event()'s buffer
    read,        \* what platform_read() returned last
    status,      \* what next_event() returned last
    tilt,        \* the protocol's tilt.x and tilt.y
    delivered,   \* events the application was given (history)
    link,        \* "up" or "down"
    wire,        \* bytes on their way
    inbuf,       \* bytes in the tty's input buffer
    sent,        \* number of messages the device sent (history)
    reading,     \* the device's own tilt readings (history)
    happened,    \* the events its inputs amount to (history)
    spoilt,      \* the device was unplugged, or the second byte of a
                 \* message was READ_TIMEOUT later than the first (history)
    before       \* how many events the application had been given until
                 \* then (history)

hostVars == <<proto, mode, size, pc, buf, read, status, tilt, delivered>>
deviceVars == <<sent, reading, happened>>
lineVars == <<link, wire, inbuf>>
spoilVars == <<spoilt, before>>
vars == <<hostVars, lineVars, deviceVars, spoilVars>>

Byte == 0..255
EventTypes == {"BUTTON_DOWN", "BUTTON_UP", "TILT"}
Event == [type : EventTypes, args : Seq(Int)]

(* An event structure next_event() did not write to: the application's      *)
(* memory, whatever it holds.                                               *)
Unset == [type |-> "UNSET", args |-> <<>>]
NoEvent == [type |-> "NONE", args |-> <<>>]

TypeOK ==
    /\ proto \in Protos
    /\ mode \in {"new", "opening", "open", "closed", "failed"}
    /\ size \in {<<0, 0>>, Size}
    /\ pc \in {"idle", "read", "more"}
    /\ buf \in Byte \X Byte
    /\ read \in {-1, 0, 1, 2} /\ status \in {-1, 0, 1}
    /\ tilt \in (0..255) \X (0..255)
    /\ delivered \in Seq(Event \cup {Unset})
    /\ link \in {"up", "down"}
    /\ wire \in Seq(Byte) /\ inbuf \in Seq(Byte)
    /\ sent \in 0..MaxMessages
    /\ spoilt \in BOOLEAN /\ before \in 0..Len(delivered)

Init ==
    /\ proto \in Protos
    /\ mode = "new" /\ size = <<0, 0>> /\ pc = "idle" /\ buf = <<0, 0>>
    /\ read = 0 /\ status = 0 /\ tilt = <<0, 0>> /\ delivered = <<>>
    /\ link = "up" /\ wire = <<>> /\ inbuf = <<>>
    /\ sent = 0 /\ reading = <<0, 0>> /\ happened = <<>>
    /\ spoilt = FALSE /\ before = 0

-----------------------------------------------------------------------------
(* Decoding                                                                 *)

Button(type, byte) == [type |-> type, args |-> <<byte \div 16, byte % 16>>]
TiltEvent(t) == [type |-> "TILT", args |-> <<t[1], t[2], 0>>]

(* The first byte alone says what the message is. *)
SeriesKind(byte) ==
    CASE byte = 0   -> "BUTTON_DOWN"
      [] byte = 16  -> "BUTTON_UP"
      [] byte = 208 -> "TILT_X"        \* TILT
      [] byte = 209 -> "TILT_Y"        \* TILT + 1
      [] OTHER      -> "IGNORED"       \* AUX_INPUT among them
FortyHKind(byte) ==
    CASE byte = 1   -> "BUTTON_DOWN"
      [] byte = 0   -> "BUTTON_UP"
      [] byte \in 16..19 -> "TILT_X"   \* AUX_1
      [] byte \in 20..23 -> "TILT_Y"   \* AUX_2
      [] OTHER      -> "IGNORED"

(* What devices send without an input is for the host to ignore. *)
ASSUME NoiseAssumption ==
    /\ Noise \subseteq Byte \X Byte
    /\ \A m \in Noise : /\ "series" \in Protos => SeriesKind(m[1]) = "IGNORED"
                        /\ "40h" \in Protos => FortyHKind(m[1]) = "IGNORED"

Kind(byte) == IF proto = "series" THEN SeriesKind(byte) ELSE FortyHKind(byte)

(* Seeded fault: the value is taken as it comes, whatever the protocol. *)
FaultyReading(b) == (b[1] % 4) * 256 + b[2]

(* The 40h sends ten bits, of which the lowest two are dropped. *)
Reading(b) == IF proto = "series" THEN b[2] ELSE ((b[1] % 4) * 256 + b[2]) \div 4

(* Seeded fault: the other axis is forgotten. *)
FaultyTiltAfter(b, t) == CASE Kind(b[1]) = "TILT_X" -> <<Reading(b), 0>>
                           [] Kind(b[1]) = "TILT_Y" -> <<0, Reading(b)>>
                           [] OTHER -> t

(* The tilt after message b, when it was t. *)
TiltAfter(b, t) == CASE Kind(b[1]) = "TILT_X" -> <<Reading(b), t[2]>>
                     [] Kind(b[1]) = "TILT_Y" -> <<t[1], Reading(b)>>
                     [] OTHER -> t

EventOf(b, t) ==
    CASE Kind(b[1]) \in {"BUTTON_DOWN", "BUTTON_UP"} -> Button(Kind(b[1]), b[2])
      [] Kind(b[1]) \in {"TILT_X", "TILT_Y"} -> TiltEvent(TiltAfter(b, t))
      [] OTHER -> NoEvent

-----------------------------------------------------------------------------
(* The host                                                                 *)

(* The size of the device map's entry is set before the line is opened. *)
OpenStarts ==
    /\ mode = "new"
    /\ mode' = "opening" /\ size' = Size
    /\ UNCHANGED <<proto, pc, buf, read, status, tilt, delivered,
                   lineVars, deviceVars, spoilVars>>

(* platform_open() succeeds or not. *)
OpenEnds ==
    /\ mode = "opening"
    /\ mode' \in {"open", "failed"}
    /\ UNCHANGED <<proto, size, pc, buf, read, status, tilt, delivered,
                   lineVars, deviceVars, spoilVars>>

Close ==
    /\ mode = "open" /\ pc = "idle"
    /\ mode' = "closed"
    /\ UNCHANGED <<proto, size, pc, buf, read, status, tilt, delivered,
                   lineVars, deviceVars, spoilVars>>

NextEvent ==
    /\ mode = "open" /\ pc = "idle" /\ Len(delivered) < MaxEvents
    /\ pc' = "read" /\ buf' = <<0, 0>>
    /\ UNCHANGED <<proto, mode, size, read, status, tilt, delivered,
                   lineVars, deviceVars, spoilVars>>

(* platform_read() returned n with b in the buffer.  "read < sizeof(buf)"   *)
(* compares as unsigned: the early return is for 0 and 1, while -1 is the   *)
(* greatest of numbers and goes on to the switch.                           *)
Returned(n, b) ==
    /\ pc' = "idle" /\ read' = n /\ buf' = b
    /\ IF n \in {0, 1}
       THEN /\ status' = n
            /\ delivered' = IF n = 1 THEN Append(delivered, Unset) ELSE delivered
            /\ UNCHANGED tilt
       ELSE LET e == EventOf(b, tilt)
            IN /\ status' = IF e = NoEvent THEN 0 ELSE 1
               /\ delivered' = IF e = NoEvent THEN delivered
                                              ELSE Append(delivered, e)
               /\ tilt' = TiltAfter(b, tilt)
    /\ UNCHANGED <<proto, mode, size>>

(* The first read() takes what there is, up to two bytes. *)
ReadBytes ==
    /\ pc = "read" /\ inbuf # <<>>
    /\ LET n == Min({2, Len(inbuf)})
       IN /\ inbuf' = SubSeq(inbuf, n + 1, Len(inbuf))
          /\ IF n = 2 THEN Returned(2, <<inbuf[1], inbuf[2]>>)
             ELSE /\ pc' = "more" /\ buf' = <<inbuf[1], 0>>
                  /\ UNCHANGED <<proto, mode, size, read, status, tilt, delivered>>
    /\ UNCHANGED <<link, wire, deviceVars, spoilVars>>

(* Nothing to read, or an error once the device is gone. *)
ReadNothing ==
    /\ pc = "read" /\ inbuf = <<>>
    /\ \E n \in (IF link = "up" THEN {0} ELSE {0, -1}) : Returned(n, buf)
    /\ UNCHANGED <<lineVars, deviceVars, spoilVars>>

(* wait_for_input() reports the second byte. *)
ReadMore ==
    /\ pc = "more" /\ inbuf # <<>>
    /\ inbuf' = Tail(inbuf)
    /\ Returned(2, <<buf[1], Head(inbuf)>>)
    /\ UNCHANGED <<link, wire, deviceVars, spoilVars>>

(* Something the promises do not cover. *)
Spoil ==
    /\ spoilt' = TRUE
    /\ before' = IF spoilt THEN before ELSE Len(delivered)

(* Seeded fault: the wait has no timeout. *)
FaultyOnlyOne ==
    /\ pc = "more" /\ inbuf = <<>>
    /\ link = "down"
    /\ \E n \in {1, -1} : Returned(n, buf)
    /\ Spoil
    /\ UNCHANGED <<lineVars, deviceVars>>

(* It times out, or it or the read after it fails on the unplugged device;  *)
(* the first byte is forgotten.                                             *)
ReadOnlyOne ==
    /\ pc = "more" /\ inbuf = <<>>
    /\ \/ link = "up" /\ Returned(1, buf)
       \/ link = "down" /\ \E n \in {1, -1} : Returned(n, buf)
    /\ Spoil
    /\ UNCHANGED <<lineVars, deviceVars>>

-----------------------------------------------------------------------------
(* The device and the line (external)                                       *)

(* What the user does: a key, or a new reading on one axis of the tilt.     *)
Inputs == [type : {"BUTTON_DOWN", "BUTTON_UP"}, at : Keys]
            \cup [type : {"TILT_X", "TILT_Y"}, level : Levels[proto]]

(* The bytes the device sends for it: the high byte of a tilt reading is    *)
(* part of the 40h's first byte.                                            *)
Encode(i) ==
    LET first == IF proto = "series"
                 THEN [BUTTON_DOWN |-> 0, BUTTON_UP |-> 16,
                       TILT_X |-> 208, TILT_Y |-> 209]
                 ELSE [BUTTON_DOWN |-> 1, BUTTON_UP |-> 0,
                       TILT_X |-> 16, TILT_Y |-> 20]
    IN IF i.type \in {"BUTTON_DOWN", "BUTTON_UP"}
       THEN <<first[i.type], 16 * i.at[1] + i.at[2]>>
       ELSE <<first[i.type] + (i.level \div 256), i.level % 256>>

(* The application is to see readings of eight bits. *)
EightBits(p, level) == IF p = "series" THEN level ELSE level \div 4

DeviceSends(i) ==
    LET r == CASE i.type = "TILT_X" -> <<EightBits(proto, i.level), reading[2]>>
               [] i.type = "TILT_Y" -> <<reading[1], EightBits(proto, i.level)>>
               [] OTHER -> reading
    IN /\ mode = "open" /\ link = "up" /\ sent < MaxMessages
       /\ sent' = sent + 1
       /\ wire' = wire \o Encode(i)
       /\ reading' = r
       /\ happened' = Append(happened,
                             IF i.type \in {"BUTTON_DOWN", "BUTTON_UP"}
                             THEN [type |-> i.type, args |-> i.at]
                             ELSE [type |-> "TILT", args |-> r \o <<0>>])
       /\ UNCHANGED <<hostVars, link, inbuf, spoilVars>>

(* A message without an input. *)
DeviceChatters(m) ==
    /\ mode = "open" /\ link = "up" /\ sent < MaxMessages
    /\ sent' = sent + 1
    /\ wire' = wire \o m
    /\ UNCHANGED <<hostVars, link, inbuf, reading, happened, spoilVars>>

Arrive ==
    /\ wire # <<>>
    /\ \E k \in 1..Len(wire) :
         /\ inbuf' = inbuf \o SubSeq(wire, 1, k)
         /\ wire' = SubSeq(wire, k + 1, Len(wire))
    /\ UNCHANGED <<hostVars, link, deviceVars, spoilVars>>

Unplug ==
    /\ mode = "open" /\ link = "up"
    /\ link' = "down" /\ wire' = <<>> /\ inbuf' = <<>>
    /\ Spoil
    /\ UNCHANGED <<hostVars, deviceVars>>

(* A closed device is never touched again. *)
Over == mode \in {"closed", "failed"} /\ UNCHANGED vars

-----------------------------------------------------------------------------
Reads == ReadBytes \/ ReadNothing \/ ReadMore \/ ReadOnlyOne

Next == \/ OpenStarts \/ OpenEnds \/ Close \/ NextEvent \/ Reads
        \/ \E i \in Inputs : DeviceSends(i)
        \/ \E m \in Noise : DeviceChatters(m)
        \/ Arrive \/ Unplug \/ Over

(* The host keeps executing and waits time out. *)
Spec == Init /\ [][Next]_vars /\ WF_vars(Reads)

-----------------------------------------------------------------------------
(* Properties                                                               *)

(* Until the device is unplugged or a message is delayed in the middle,     *)
(* pieces do no harm: the application gets every input, once, in order, and *)
(* with the tilt the device had then.                                       *)
Axis == {0} \cup UNION {{EightBits(p, level) : level \in Levels[p]} : p \in Protos}
Trusted == IF spoilt THEN SubSeq(delivered, 1, before) ELSE delivered

Session == INSTANCE DeviceSession WITH
    Input <- [type : {"BUTTON_DOWN", "BUTTON_UP"}, args : Keys]
               \cup [type : {"TILT"}, args : Axis \X Axis \X {0}],
    DeviceSize <- Size,
    phase <- CASE mode \in {"new", "opening"} -> "opening"
               [] mode = "open" /\ ~spoilt -> "open"
               [] OTHER -> "over",
    queue <- SubSeq(happened, Len(Trusted) + 1, Len(happened)),
    delivered <- Trusted

SerialImplementsSession == Session!Spec

(* next_event() returns within READ_TIMEOUT, even to an application whose   *)
(* device was unplugged in the middle of a message.                         *)
NextEventReturns == pc # "idle" ~> pc = "idle"

=============================================================================
