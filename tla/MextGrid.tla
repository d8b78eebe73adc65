------------------------------ MODULE MextGrid ------------------------------
(***************************************************************************)
(* The LED functions of the mext protocol (src/proto/mext.c): each call is *)
(* translated, by the current rotation, into messages about hardware       *)
(* coordinates that travel to the device and are executed there later,     *)
(* when the rotation may be another.                                       *)
(*                                                                         *)
(* The device is external.  It takes the place of a map, of the cells of a *)
(* row and of those of a column from the section the offset lies in: the   *)
(* library sends it any corner of the section, depending on the rotation.  *)
(***************************************************************************)
EXTENDS Rotation, Sequences, SequencesExt, FiniteSets

CONSTANTS
    Section,        \* LEDs one byte covers, 8 in the source
    Cols, Rows,     \* grid size of the hardware
    MaxLevel,       \* 15
    Offsets, Rotated, Bitmaps, LevelMaps, ByteRows, LevelRows, Intensities,
                    \* what applications pass; see GridFrame
    MaxPending,     \* bound: messages the device has not executed yet
    MaxCalls        \* bound: calls that send messages

(* Coordinates and sizes travel in bytes, and the sections divide both the   *)
(* grid and what a byte can count, as does the range of an unsigned integer.*)
ASSUME GridAssumption ==
    /\ Section \in {1, 2, 4, 8}
    /\ Cols \in 1..255 /\ Cols % Section = 0
    /\ Rows \in 1..255 /\ Rows % Section = 0
    /\ MaxLevel \in Nat
    /\ UintRange % 256 = 0

(* Maps, rows and columns begin at a corner of a section, and end before a   *)
(* coordinate does not fit its byte.                                        *)
ASSUME CallsAssumption ==
    /\ MaxPending \in Nat /\ MaxCalls \in Nat
    /\ Rotated \subseteq Int /\ Intensities \subseteq Int
    /\ Bitmaps \subseteq SUBSET ((0 .. Section - 1) \X (0 .. Section - 1))
    /\ LevelMaps \subseteq [(0 .. Section - 1) \X (0 .. Section - 1) -> 0..MaxLevel]
    /\ ByteRows \subseteq Seq(SUBSET (0 .. Section - 1))
    /\ LevelRows \subseteq Seq(0..MaxLevel)
    /\ \A off \in Offsets :
         /\ off \in 0 .. 256 - Section /\ off % Section = 0
         /\ \A bytes \in ByteRows : off + Section * Len(bytes) <= 256
         /\ \A levels \in LevelRows : off + Len(levels) <= 256

VARIABLES
    rotation,     \* monome->rotation
    wire,         \* messages written and not executed, oldest first
    lit,          \* the LEDs of the device
    brightness,   \* the intensity of the device
    result,       \* what the last LED function returned
    unsent,       \* how many of its messages were not written (history)
    calls         \* number of calls so far (history)

hostVars == <<rotation, result, unsent, calls>>
deviceVars == <<lit, brightness>>
vars == <<hostVars, wire, deviceVars>>

Level == 0..MaxLevel
LevelRange == MaxLevel + 1
Hardware == HardwareGrid(Cols, Rows)
Points == (0 .. Section - 1) \X (0 .. Section - 1)
width  == monome_get_cols(rotation, Cols, Rows)
height == monome_get_rows(rotation, Cols, Rows)

(* The commands with what each is followed by.  Coordinates travel in bytes.*)
Messages ==
    LET With(cmds, what) == [cmd : cmds, at : (0..255) \X (0..255), data : what]
        Line == 0 .. Section - 1
    IN    With({"LED_ON", "LED_OFF", "LED_ALL_ON", "LED_ALL_OFF"}, {{}})
     \cup With({"LED_LEVEL_SET", "LED_LEVEL_ALL", "LED_INTENSITY"}, Level)
     \cup With({"LED_MAP"}, SUBSET Points)
     \cup With({"LED_LEVEL_MAP"}, [Points -> Level])
     \cup With({"LED_ROW", "LED_COLUMN"}, SUBSET Line)
     \cup With({"LED_LEVEL_ROW", "LED_LEVEL_COLUMN"}, [1..Section -> Level])

TypeOK ==
    /\ rotation \in Rotations
    /\ wire \in Seq(Messages)
    /\ lit \in [Hardware -> Level]
    /\ brightness \in Level
    /\ result \in {-1, 1}
    /\ unsent \in Nat /\ calls \in 0..MaxCalls

Init ==
    /\ rotation = 0
    /\ wire = <<>>
    /\ lit = [p \in Hardware |-> 0] /\ brightness = MaxLevel
    /\ result = 1 /\ unsent = 0 /\ calls = 0

-----------------------------------------------------------------------------
(* Messages                                                                 *)

(* Seeded fault: the coordinates are not cut. *)
FaultyRotateCoords(x, y) == output_cb(rotation, Cols, Rows, <<x, y>>)

(* ROTATE_COORDS, then each coordinate is cut to a byte. *)
ROTATE_COORDS(x, y) ==
    LET p == output_cb(rotation, Cols, Rows, <<x, y>>)
    IN <<p[1] % 256, p[2] % 256>>

Msg(cmd, at, data) == [cmd |-> cmd, at |-> at, data |-> data]
Plain(cmd, data) == Msg(cmd, <<0, 0>>, data)

(* Seeded fault: a row stays a row. *)
FaultyCrossed(cmd) == cmd

(* A row of the application is a column of a grid that lies on its side. *)
Crossed(cmd) ==
    IF rotation \notin ROW_COL_SWAP THEN cmd
    ELSE CASE cmd = "LED_ROW"          -> "LED_COLUMN"
           [] cmd = "LED_COLUMN"       -> "LED_ROW"
           [] cmd = "LED_LEVEL_ROW"    -> "LED_LEVEL_COLUMN"
           [] cmd = "LED_LEVEL_COLUMN" -> "LED_LEVEL_ROW"

REVERSE_BYTE(byte) == {Section - 1 - i : i \in byte}
revcopy(levels) == Reverse(levels)

(* Four bits of each level are sent. *)
pack_nybbles(levels) == [i \in DOMAIN levels |-> levels[i] % LevelRange]

mext_led_row_col(cmd, x, y, byte) ==
    Msg(Crossed(cmd), ROTATE_COORDS(x, y), byte)

mext_led_level_row_col(cmd, rev, x, y, levels) ==
    Msg(Crossed(cmd), ROTATE_COORDS(x, y),
        pack_nybbles(IF rev THEN revcopy(levels) ELSE levels))

(* map_cb and level_map_cb, on a section of this size; see RotateMap. *)
map_cb(bits) == {output_cb(rotation, Section, Section, p) : p \in bits}
level_map_cb(levels) ==
    [p \in Points |-> levels[input_cb(rotation, Section, Section, p)]]

(* The s-th group of levels. *)
Group(levels, s) == SubSeq(levels, Section * (s - 1) + 1, Section * s)

-----------------------------------------------------------------------------
(* Calls of the application                                                 *)

(* Those elements of seq whose places are in set. *)
Those(set, seq) ==
    LET upto[n \in 0..Len(seq)] ==
            IF n = 0 THEN <<>>
            ELSE IF n \in set THEN Append(upto[n - 1], seq[n])
            ELSE upto[n - 1]
    IN upto[Len(seq)]

(* Some messages may not be written, in any combination: each write is      *)
(* tried whatever became of the one before.  The function reports it or not.*)
Write(msgs, reports) ==
    /\ calls < MaxCalls /\ calls' = calls + 1
    /\ Len(wire) + Len(msgs) <= MaxPending
    /\ \E kept \in SUBSET DOMAIN msgs :
         /\ unsent' = Len(msgs) - Cardinality(kept)
         /\ wire' = wire \o Those(kept, msgs)
         /\ result' = IF reports /\ kept = {} THEN -1 ELSE 1
    /\ UNCHANGED <<rotation, deviceVars>>

(* Functions of one message return what write() returned, those of several  *)
(* messages always 1.                                                       *)
WriteOne(msg) == Write(<<msg>>, TRUE)
WriteEach(msgs) == Write(msgs, FALSE)

monome_set_rotation ==
    /\ \E arg \in Rotated : rotation' = RotationOf(arg)
    /\ UNCHANGED <<wire, deviceVars, result, unsent, calls>>

mext_led_set(x, y, on) ==
    WriteOne(Msg(IF on THEN "LED_ON" ELSE "LED_OFF", ROTATE_COORDS(x, y), {}))

mext_led_all(on) == WriteOne(Plain(IF on THEN "LED_ALL_ON" ELSE "LED_ALL_OFF", {}))

mext_led_map(x_off, y_off, bits) ==
    WriteOne(Msg("LED_MAP", ROTATE_COORDS(x_off, y_off), map_cb(bits)))

mext_led_row(x_off, y, bytes) ==
    WriteEach([s \in DOMAIN bytes |->
        mext_led_row_col("LED_ROW", x_off + Section * (s - 1), y,
            IF rotation \in ROW_REVBITS THEN REVERSE_BYTE(bytes[s]) ELSE bytes[s])])

mext_led_col(x, y_off, bytes) ==
    WriteEach([s \in DOMAIN bytes |->
        mext_led_row_col("LED_COLUMN", x, y_off + Section * (s - 1),
            IF rotation \in COL_REVBITS THEN REVERSE_BYTE(bytes[s]) ELSE bytes[s])])

mext_led_intensity(i) == WriteOne(Plain("LED_INTENSITY", i % LevelRange))

mext_led_level_set(x, y, level) ==
    WriteOne(Msg("LED_LEVEL_SET", ROTATE_COORDS(x, y), level))

mext_led_level_all(level) == WriteOne(Plain("LED_LEVEL_ALL", level))

mext_led_level_map(x_off, y_off, levels) ==
    WriteOne(Msg("LED_LEVEL_MAP", ROTATE_COORDS(x_off, y_off),
                 pack_nybbles(level_map_cb(levels))))

(* A group that is not complete is not sent. *)
mext_led_level_row(x_off, y, levels) ==
    WriteEach([s \in 1 .. Len(levels) \div Section |->
        mext_led_level_row_col("LED_LEVEL_ROW", rotation \in ROW_REVBITS,
            x_off + Section * (s - 1), y, Group(levels, s))])

mext_led_level_col(x, y_off, levels) ==
    WriteEach([s \in 1 .. Len(levels) \div Section |->
        mext_led_level_row_col("LED_LEVEL_COLUMN", rotation \in COL_REVBITS,
            x, y_off + Section * (s - 1), Group(levels, s))])

-----------------------------------------------------------------------------
(* The device                                                               *)

(* The first place of the section that i lies in. *)
Floor(i) == Section * (i \div Section)

OnOff(on) == IF on THEN MaxLevel ELSE 0

(* What message m draws: the places it is about, and their levels. *)
Painted(m) ==
    LET x == m.at[1]  y == m.at[2]
        OfRow(level(_)) ==
            [p \in (Floor(x) .. Floor(x) + Section - 1) \X {y} |->
                level(p[1] - Floor(x))]
        OfColumn(level(_)) ==
            [p \in {x} \X (Floor(y) .. Floor(y) + Section - 1) |->
                level(p[2] - Floor(y))]
        OfMap(level(_)) ==
            [p \in (Floor(x) .. Floor(x) + Section - 1)
                     \X (Floor(y) .. Floor(y) + Section - 1) |->
                level(<<p[1] - Floor(x), p[2] - Floor(y)>>)]
    IN CASE m.cmd = "LED_ON"  -> [p \in {m.at} |-> MaxLevel]
         [] m.cmd = "LED_OFF" -> [p \in {m.at} |-> 0]
         [] m.cmd = "LED_LEVEL_SET" -> [p \in {m.at} |-> m.data]
         [] m.cmd = "LED_ALL_ON"    -> [p \in Hardware |-> MaxLevel]
         [] m.cmd = "LED_ALL_OFF"   -> [p \in Hardware |-> 0]
         [] m.cmd = "LED_LEVEL_ALL" -> [p \in Hardware |-> m.data]
         [] m.cmd = "LED_MAP" -> OfMap(LAMBDA p : OnOff(p \in m.data))
         [] m.cmd = "LED_LEVEL_MAP" -> OfMap(LAMBDA p : m.data[p])
         [] m.cmd = "LED_ROW" -> OfRow(LAMBDA i : OnOff(i \in m.data))
         [] m.cmd = "LED_LEVEL_ROW" -> OfRow(LAMBDA i : m.data[i + 1])
         [] m.cmd = "LED_COLUMN" -> OfColumn(LAMBDA i : OnOff(i \in m.data))
         [] m.cmd = "LED_LEVEL_COLUMN" -> OfColumn(LAMBDA i : m.data[i + 1])
         [] m.cmd = "LED_INTENSITY" -> <<>>

(* What the LEDs and the brightness become: places off the grid are lost. *)
Shown(leds, m) ==
    LET painted == Painted(m)
    IN [p \in Hardware |-> IF p \in DOMAIN painted THEN painted[p] ELSE leds[p]]
Dimmed(b, m) == IF m.cmd = "LED_INTENSITY" THEN m.data ELSE b

DeviceExecutes ==
    /\ wire # <<>>
    /\ lit' = Shown(lit, Head(wire))
    /\ brightness' = Dimmed(brightness, Head(wire))
    /\ wire' = Tail(wire)
    /\ UNCHANGED hostVars

LedCall ==
    \/ \E p \in LogicalGrid(rotation, Cols, Rows), on \in BOOLEAN :
         mext_led_set(p[1], p[2], on)
    \/ \E on \in BOOLEAN : mext_led_all(on)
    \/ \E x, y \in Offsets, bits \in Bitmaps : mext_led_map(x, y, bits)
    \/ \E off \in Offsets, bytes \in ByteRows :
         \/ \E y \in 0 .. height - 1 : mext_led_row(off, y, bytes)
         \/ \E x \in 0 .. width - 1  : mext_led_col(x, off, bytes)
    \/ \E i \in Intensities : mext_led_intensity(i)

LevelCall ==
    \/ \E p \in LogicalGrid(rotation, Cols, Rows), level \in Level :
         mext_led_level_set(p[1], p[2], level)
    \/ \E level \in Level : mext_led_level_all(level)
    \/ \E x, y \in Offsets, levels \in LevelMaps : mext_led_level_map(x, y, levels)
    \/ \E off \in Offsets, levels \in LevelRows :
         \/ \E y \in 0 .. height - 1 : mext_led_level_row(off, y, levels)
         \/ \E x \in 0 .. width - 1  : mext_led_level_col(x, off, levels)

Next == \/ monome_set_rotation \/ LedCall \/ LevelCall \/ DeviceExecutes

Spec == Init /\ [][Next]_vars

-----------------------------------------------------------------------------
(* Properties                                                               *)

(* What the application will see once the messages on their way are         *)
(* executed.                                                                *)
Frame ==
    LET leds == FoldLeft(Shown, lit, wire)
    IN [p \in LogicalGrid(rotation, Cols, Rows) |->
           leds[output_cb(rotation, Cols, Rows, p)]]

Promise == INSTANCE GridFrame WITH
    RowWise <- FALSE,
    turn <- rotation,
    frame <- Frame,
    intensity <- FoldLeft(Dimmed, brightness, wire),
    lost <- unsent

(* Every call is the step GridFrame allows for the very same arguments. *)
CallKeepsPromise ==
    /\ \A x \in 0 .. width - 1, y \in 0 .. height - 1 :
         /\ \A on \in BOOLEAN :
              mext_led_set(x, y, on) => Promise!SetTo(<<x, y>>, OnOff(on))
         /\ \A level \in Level :
              mext_led_level_set(x, y, level) => Promise!SetTo(<<x, y>>, level)
    /\ \A on \in BOOLEAN : mext_led_all(on) => Promise!AllTo(OnOff(on))
    /\ \A level \in Level : mext_led_level_all(level) => Promise!AllTo(level)
    /\ \A i \in Intensities : mext_led_intensity(i) => Promise!DimTo(i)
    /\ \A x, y \in Offsets :
         /\ \A bits \in Bitmaps : mext_led_map(x, y, bits) =>
              Promise!DrawMap(x, y, Promise!OfBits(bits))
         /\ \A levels \in LevelMaps : mext_led_level_map(x, y, levels) =>
              Promise!DrawMap(x, y, levels)
    /\ \A off \in Offsets, y \in 0 .. height - 1 :
         /\ \A bytes \in ByteRows : mext_led_row(off, y, bytes) =>
              Promise!DrawRow(off, y, Promise!OfBytes(bytes))
         /\ \A levels \in LevelRows : mext_led_level_row(off, y, levels) =>
              Promise!DrawRow(off, y, levels)
    /\ \A off \in Offsets, x \in 0 .. width - 1 :
         /\ \A bytes \in ByteRows : mext_led_col(x, off, bytes) =>
              Promise!DrawCol(x, off, Promise!OfBytes(bytes))
         /\ \A levels \in LevelRows : mext_led_level_col(x, off, levels) =>
              Promise!DrawCol(x, off, levels)

(* Once the messages on their way are executed, the application sees the    *)
(* picture that GridFrame promises, in whichever rotation and order: every  *)
(* step is GridFrame's step for the same arguments (unless nothing of the   *)
(* call was written, when all arguments are alike), or no step of it.  This *)
(* implies Promise!Spec, where the arguments are not fixed.                 *)
MextGridImplementsGridFrame ==
    /\ Promise!Init
    /\ [][CASE calls' = calls -> UNCHANGED Promise!vars \/ Promise!SetRotation
            [] calls' # calls /\ wire' # wire -> CallKeepsPromise
            [] calls' # calls /\ wire' = wire -> Promise!Next]_vars

=============================================================================
