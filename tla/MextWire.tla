----------------------------- MODULE MextWire ------------------------------
(***************************************************************************)
(* The incoming half of the mext wire format (src/proto/mext.h): a message *)
(* is one header byte, subsystem * 16 + command, followed by a payload     *)
(* whose length the host looks up in a 16 x 16 table.  Nothing else marks  *)
(* where a message starts or ends, so both sides must agree on the table   *)
(* and the host must never lose its place in the stream.                   *)
(***************************************************************************)
EXTENDS Integers, Sequences

CONSTANT IdLength     \* bytes of the ID message's payload, 32 in the source

ASSUME IdLengthAssumption == IdLength \in Nat \ {0}

Byte == 0..255

(* The values of int8_t and of int16_t. *)
SignedByte == {v \in Int : -128 <= v /\ v < 128}
Word == {v \in Int : -32768 <= v /\ v < 32768}

(* Room for the longest incoming payload.  It stands for the union          *)
(* mext_msg.payload, whose tail the incoming messages never reach.          *)
PayloadSize == IF IdLength > 8 THEN IdLength ELSE 8

SS_SYSTEM   == 0
SS_KEY_GRID == 2
SS_ENCODER  == 5
SS_TILT     == 8

(* System commands the device sends. *)
CMD_SYSTEM_QUERY_RESPONSE == 0
CMD_SYSTEM_ID             == 1
CMD_SYSTEM_GRID_OFFSET    == 2
CMD_SYSTEM_GRIDSZ         == 3
CMD_SYSTEM_ADDR           == 4
CMD_SYSTEM_VERSION        == 15

CMD_KEY_UP   == 0
CMD_KEY_DOWN == 1

CMD_ENCODER_DELTA       == 0
CMD_ENCODER_SWITCH_UP   == 1
CMD_ENCODER_SWITCH_DOWN == 2

CMD_TILT_STATES == 0
CMD_TILT        == 1

Header(addr, cmd) == addr * 16 + cmd
Addr(header) == header \div 16
Cmd(header) == header % 16

incoming_payload_lengths ==
    [h \in Byte |->
        CASE h = Header(SS_SYSTEM, CMD_SYSTEM_QUERY_RESPONSE) -> 2
          [] h = Header(SS_SYSTEM, CMD_SYSTEM_ID)             -> IdLength
          [] h = Header(SS_SYSTEM, CMD_SYSTEM_GRID_OFFSET)    -> 3
          [] h = Header(SS_SYSTEM, CMD_SYSTEM_GRIDSZ)         -> 2
          [] h = Header(SS_SYSTEM, CMD_SYSTEM_ADDR)           -> 2
          [] h = Header(SS_SYSTEM, CMD_SYSTEM_VERSION)        -> 8
          [] h = Header(SS_KEY_GRID, CMD_KEY_DOWN)            -> 2
          [] h = Header(SS_KEY_GRID, CMD_KEY_UP)              -> 2
          [] h = Header(SS_ENCODER, CMD_ENCODER_DELTA)        -> 2
          [] h = Header(SS_ENCODER, CMD_ENCODER_SWITCH_UP)    -> 1
          [] h = Header(SS_ENCODER, CMD_ENCODER_SWITCH_DOWN)  -> 1
          [] h = Header(SS_TILT, CMD_TILT_STATES)             -> 1
          [] h = Header(SS_TILT, CMD_TILT)                    -> 7
          [] OTHER                                            -> 0]

-----------------------------------------------------------------------------
(* Decoding.  A handler is a function of the header and of the payload      *)
(* memory, which keeps the bytes of the previous message where the current  *)
(* one is shorter.  It yields the event to propagate, or NoEvent.           *)

(* Seeded fault: the sign is forgotten. *)
FaultySigned(v, range) == v

(* Two's complement reading of one of range values. *)
Signed(v, range) == IF v < range \div 2 THEN v ELSE v - range

(* The host reads the packed int16_t of a tilt message as little endian. *)
Int16(lo, hi) == Signed(lo + 256 * hi, 65536)

EventTypes == {"BUTTON_DOWN", "BUTTON_UP", "ENCODER_DELTA",
               "ENCODER_KEY_DOWN", "ENCODER_KEY_UP", "TILT"}

Event == [type : EventTypes, args : Seq(Int)]

NoEvent == [type |-> "NONE", args |-> <<>>]

(* Seeded fault: a press has no type. *)
FaultyKeyType(cmd, p) ==
    [type |-> IF cmd = CMD_KEY_DOWN THEN "NONE" ELSE "BUTTON_UP",
     args |-> <<p[1], p[2]>>]

(* Every command that is not KEY_DOWN counts as a release. *)
mext_handler_key_grid(cmd, p) ==
    [type |-> IF cmd = CMD_KEY_DOWN THEN "BUTTON_DOWN" ELSE "BUTTON_UP",
     args |-> <<p[1], p[2]>>]

mext_handler_encoder(cmd, p) ==
    CASE cmd = CMD_ENCODER_DELTA ->
            [type |-> "ENCODER_DELTA", args |-> <<p[1], Signed(p[2], 256)>>]
      [] cmd = CMD_ENCODER_SWITCH_DOWN ->
            [type |-> "ENCODER_KEY_DOWN", args |-> <<p[1], 0>>]
      [] cmd = CMD_ENCODER_SWITCH_UP ->
            [type |-> "ENCODER_KEY_UP", args |-> <<p[1], 0>>]
      [] OTHER -> NoEvent

mext_handler_tilt(cmd, p) ==
    IF cmd = CMD_TILT
    THEN [type |-> "TILT",
          args |-> <<p[1], Int16(p[2], p[3]), Int16(p[4], p[5]),
                     Int16(p[6], p[7])>>]
    ELSE NoEvent

(* The dispatch table; SS_SYSTEM is handled apart and never yields events. *)
subsystem_event_handlers(header, p) ==
    CASE Addr(header) = SS_KEY_GRID -> mext_handler_key_grid(Cmd(header), p)
      [] Addr(header) = SS_ENCODER  -> mext_handler_encoder(Cmd(header), p)
      [] Addr(header) = SS_TILT     -> mext_handler_tilt(Cmd(header), p)
      [] OTHER                      -> NoEvent

-----------------------------------------------------------------------------
(* The device's encoding of an input: not part of the repository, fixed by  *)
(* the table above.                                                         *)

LowByte(v) == v % 256
HighByte(v) == (v \div 256) % 256

EncodeInput(i) ==
    CASE i.type = "BUTTON_DOWN" ->
            <<Header(SS_KEY_GRID, CMD_KEY_DOWN), i.args[1], i.args[2]>>
      [] i.type = "BUTTON_UP" ->
            <<Header(SS_KEY_GRID, CMD_KEY_UP), i.args[1], i.args[2]>>
      [] i.type = "ENCODER_DELTA" ->
            <<Header(SS_ENCODER, CMD_ENCODER_DELTA), i.args[1],
              LowByte(i.args[2])>>
      [] i.type = "ENCODER_KEY_DOWN" ->
            <<Header(SS_ENCODER, CMD_ENCODER_SWITCH_DOWN), i.args[1]>>
      [] i.type = "ENCODER_KEY_UP" ->
            <<Header(SS_ENCODER, CMD_ENCODER_SWITCH_UP), i.args[1]>>
      [] i.type = "TILT" ->
            <<Header(SS_TILT, CMD_TILT), i.args[1],
              LowByte(i.args[2]), HighByte(i.args[2]),
              LowByte(i.args[3]), HighByte(i.args[3]),
              LowByte(i.args[4]), HighByte(i.args[4])>>

============================================================================
