----------------------------- MODULE SerialGrid -----------------------------
(***************************************************************************)
(* The LED functions of the two older protocols, series                    *)
(* (src/proto/series.c) and 40h (src/proto/40h.c), reached through the     *)
(* functions of src/libmonome.c.  LEDs are on or off: levels are reduced   *)
(* to one bit.  A row has the length of the device, wherever the offset    *)
(* lies; the 40h has no message for a map, nor for the whole grid, and     *)
(* is sent rows instead.                                                   *)
(*                                                                         *)
(* The device is external.  The line keeps the order of messages, so each  *)
(* is executed as it is written (MextGrid shows that the delay makes no    *)
(* difference); what a device makes of the bytes that follow half a        *)
(* message is not modelled.                                                *)
(***************************************************************************)
EXTENDS Rotation, Sequences, SequencesExt, FiniteSets

CONSTANTS
    Section,        \* LEDs one byte covers, 8 in the source
    Grids,          \* devices: protocol, columns and rows of the hardware
    BigEndian,      \* LM_BIG_ENDIAN
    MaxLevel,       \* 15
    Offsets, Rotated, Bitmaps, LevelMaps, ByteRows, LevelRows, Intensities,
                    \* what applications pass; see GridFrame
    TurnedMaps,     \* do they draw level maps, or any map on a 40h, while the
                    \* grid is turned?
    MaxCalls        \* bound: calls that send messages

ASSUME GridsAssumption ==
    /\ Section \in 2..8 /\ MaxLevel \in 0..255 /\ 2 * Section <= UintRange
    /\ BigEndian \in BOOLEAN /\ TurnedMaps \in BOOLEAN
    /\ \A g \in Grids :
         /\ g.proto \in {"series", "40h"}
         /\ g.cols \in {Section, 2 * Section} /\ g.rows \in {Section, 2 * Section}
         /\ g.proto = "40h" => g.cols = Section /\ g.rows = Section

ASSUME CallsAssumption ==
    /\ Rotated \subseteq Int /\ Intensities \subseteq Int /\ MaxCalls \in Nat
    /\ ByteRows \subseteq Seq(SUBSET (0 .. Section - 1))
    /\ LevelRows \subseteq Seq(0..MaxLevel)

VARIABLES
    grid,         \* the device that is connected
    rotation,     \* monome->rotation
    lit,          \* the LEDs of the device that are on
    brightness,   \* its intensity
    sensing,      \* its tilt sensors that are enabled
    result,       \* what the last function returned
    lost,         \* how many sections it left out (history)
    torn,         \* half a message was written at some time (history)
    calls         \* number of calls so far (history)

outputVars == <<lit, brightness, sensing, result, lost, torn>>
gridVars == <<grid, rotation, outputVars, calls>>

Level == 0..MaxLevel
Points == (0 .. Section - 1) \X (0 .. Section - 1)
Hardware == HardwareGrid(grid.cols, grid.rows)
width  == monome_get_cols(rotation, grid.cols, grid.rows)
height == monome_get_rows(rotation, grid.cols, grid.rows)
Swapped == rotation \in ROW_COL_SWAP
Sensors == 0..15

GridTypeOK ==
    /\ grid \in Grids /\ rotation \in Rotations
    /\ lit \subseteq Hardware /\ brightness \in 0..255
    /\ sensing \subseteq Sensors
    /\ result \in {2 * Section} \cup (-Section .. 0)
    /\ lost \in 0..Section /\ torn \in BOOLEAN
    /\ calls \in 0..MaxCalls

GridInit ==
    /\ grid \in Grids /\ rotation = 0
    /\ lit = {} /\ brightness = MaxLevel /\ sensing = {}
    /\ result = 0 /\ lost = 0 /\ torn = FALSE /\ calls = 0

-----------------------------------------------------------------------------
(* The device (external)                                                    *)

Msg(cmd, at, data) == [cmd |-> cmd, at |-> at, data |-> data]

FullByte == 0 .. Section - 1

(* The LEDs a message is about, and those of them it turns on. *)
About(m) ==
    CASE m.cmd \in {"LED_ON", "LED_OFF"} -> {m.at}
      [] m.cmd = "ROW" -> (0 .. Section * Len(m.data) - 1) \X {m.at}
      [] m.cmd = "COL" -> {m.at} \X (0 .. Section * Len(m.data) - 1)
      [] m.cmd = "FRAME" ->
           {<<Section * (m.at % 2) + p[1], Section * (m.at \div 2) + p[2]>> :
               p \in Points}
      [] m.cmd = "CLEAR" -> Hardware
      [] m.cmd \in {"INTENSITY", "TILT"} -> {}

TurnsOn(m, p) ==
    CASE m.cmd = "LED_ON"  -> TRUE
      [] m.cmd = "LED_OFF" -> FALSE
      [] m.cmd = "ROW" -> p[1] % Section \in m.data[p[1] \div Section + 1]
      [] m.cmd = "COL" -> p[2] % Section \in m.data[p[2] \div Section + 1]
      [] m.cmd = "FRAME" -> <<p[1] % Section, p[2] % Section>> \in m.data
      [] m.cmd = "CLEAR" -> m.data = 1

(* What msgs make of the device, of which those in written arrive: the last *)
(* message about an LED, about the intensity or about a sensor decides.     *)
Shown(msgs, written) ==
    {p \in Hardware :
        LET about == {i \in written : p \in About(msgs[i])}
        IN IF about = {} THEN p \in lit ELSE TurnsOn(msgs[Max(about)], p)}

Dimmed(msgs, written) ==
    LET about == {i \in written : msgs[i].cmd = "INTENSITY"}
    IN IF about = {} THEN brightness ELSE msgs[Max(about)].data

Sensed(msgs, written) ==
    {s \in Sensors :
        LET about == {i \in written : msgs[i].cmd = "TILT" /\ msgs[i].at = s}
        IN IF about = {} THEN s \in sensing ELSE msgs[Max(about)].data = 1}

-----------------------------------------------------------------------------
(* Writing                                                                  *)

(* Sections of the grid that stay as they were without m. *)
Sections(m) == IF m.cmd \in {"ROW", "COL"} THEN Len(m.data) ELSE 1

(* What became of the messages: written whole, or not, in any combination,  *)
(* each being tried whatever became of the one before; of one that was not, *)
(* a part may have been.                                                    *)
MonomeWrite(msgs, written) ==
    LET failed == DOMAIN msgs \ written
    IN /\ torn' \in (IF failed = {} THEN {torn} ELSE {torn, TRUE})
       /\ lost' = Cardinality(UNION {{i} \X (1 .. Sections(msgs[i])) : i \in failed})
       /\ lit' = IF torn' THEN lit ELSE Shown(msgs, written)
       /\ brightness' = IF torn' THEN brightness ELSE Dimmed(msgs, written)
       /\ sensing' = IF torn' THEN sensing ELSE Sensed(msgs, written)

(* Seeded fault: part of a message will do, as it does for mext. *)
FaultyWriteOne(msg) ==
    \E written \in SUBSET {1} :
        /\ MonomeWrite(<<msg>>, written)
        /\ result' = IF written = {} /\ torn' = torn THEN -1 ELSE 0

(* monome_write() is 0, or -1 if not all of the message was written. *)
WriteOne(msg) ==
    \E written \in SUBSET {1} :
        /\ MonomeWrite(<<msg>>, written)
        /\ result' = IF written = {} THEN -1 ELSE 0

-----------------------------------------------------------------------------
(* Rows, columns and maps                                                   *)

REVERSE_BYTE(byte) == {Section - 1 - i : i \in byte}

(* Both bytes of a row are reversed, and exchanged. *)
Reversed(bytes) == Reverse([i \in DOMAIN bytes |-> REVERSE_BYTE(bytes[i])])

(* Seeded fault: the flag of a row is that of a column. *)
FaultyBytesSent(mode, bytes) ==
    IF rotation \in COL_REVBITS THEN Reversed(bytes) ELSE bytes

BytesSent(mode, bytes) ==
    IF rotation \in (IF mode = "ROW" THEN ROW_REVBITS ELSE COL_REVBITS)
    THEN Reversed(bytes) ELSE bytes

(* A row of the application is a column of a grid that lies on its side. *)
Crossed(mode) == IF ~Swapped THEN mode
                 ELSE IF mode = "ROW" THEN "COL" ELSE "ROW"

ROTATE_COORDS(x, y) == output_cb(rotation, grid.cols, grid.rows, <<x, y>>)

(* "A bit of a hack": the address taken for both coordinates of a place.    *)
RowColAddress(mode, address) ==
    ROTATE_COORDS(address, address)[IF (mode = "ROW") = Swapped THEN 1 ELSE 2]

proto_series_led_col_row_8(mode, address, byte) ==
    Msg(Crossed(mode), RowColAddress(mode, address) % 16,
        BytesSent(mode, <<byte>>))

(* On a big endian machine the bytes of a row are exchanged once more. *)
proto_series_led_col_row_16(mode, address, bytes) ==
    LET data == BytesSent(mode, bytes)
    IN Msg(Crossed(mode), RowColAddress(mode, address) % 16,
           IF BigEndian THEN Reverse(data) ELSE data)

(* The 16 bit number sdata, in memory. *)
sdata(byte) == IF BigEndian THEN <<{}, byte>> ELSE <<byte, {}>>

(* A row that is as long as two bytes is sent as two bytes. *)
SeriesLine(mode, address, length, bytes) ==
    IF length <= Section
    THEN proto_series_led_col_row_8(mode, address, bytes[1])
    ELSE proto_series_led_col_row_16(mode, address,
             IF Len(bytes) > 1 THEN SubSeq(bytes, 1, 2) ELSE sdata(bytes[1]))

proto_series_led_col(x, bytes) == SeriesLine("COL", x, height, bytes)
proto_series_led_row(y, bytes) == SeriesLine("ROW", y, width, bytes)

(* A 40h is square. *)
proto_40h_led_col_row(mode, address, byte) ==
    Msg(Crossed(mode),
        ROTATE_COORDS(address, address)[IF mode = "ROW" THEN 1 ELSE 2] % Section,
        BytesSent(mode, <<byte>>))

(* map_cb and level_map_cb, on a section of this size; see RotateMap. *)
map_cb(bits) == {output_cb(rotation, Section, Section, p) : p \in bits}
level_map_cb(levels) ==
    [p \in Points |-> levels[input_cb(rotation, Section, Section, p)]]

(* Seeded fault: the quadrant is that of the application. *)
FaultyQuadrant(x, y) == (x \div Section + 2 * (y \div Section)) % 4

Quadrant(x, y) ==
    LET at == ROTATE_COORDS(x, y)
    IN (at[1] \div Section + 2 * (at[2] \div Section)) % 4

proto_series_led_map(x_off, y_off, bits) ==
    Msg("FRAME", Quadrant(x_off, y_off), map_cb(bits))

(* The row of a map, as a byte. *)
MapRow(bits, i) == {p[1] : p \in {q \in bits : q[2] = i}}

(* The rows of the turned map are turned again. *)
proto_40h_led_map(bits) ==
    [i \in 1..Section |->
        proto_40h_led_col_row("ROW", i - 1, MapRow(map_cb(bits), i - 1))]

-----------------------------------------------------------------------------
(* The other messages                                                       *)

(* The four low bits of a bitwise or. *)
Or4(a, b) ==
    LET Bit(i) == IF 1 \in {(a \div i) % 2, (b \div i) % 2} THEN i ELSE 0
    IN Bit(1) + Bit(2) + Bit(4) + Bit(8)

(* Both coordinates in one byte, four bits each.  What the second has above *)
(* its four gets into the first.                                            *)
proto_series_led_set(x, y, on) ==
    LET p == ROTATE_COORDS(x, y)
    IN Msg(IF on = 0 THEN "LED_OFF" ELSE "LED_ON",
           <<Or4(p[1], p[2] \div 16), p[2] % 16>>, {})

proto_40h_led_set(x, y, on) ==
    LET p == ROTATE_COORDS(x, y)
    IN Msg(IF on = 0 THEN "LED_OFF" ELSE "LED_ON",
           <<p[1] % Section, p[2] % Section>>, {})

proto_series_led_all(status) == Msg("CLEAR", 0, status % 2)
proto_40h_led_all(status) ==
    [i \in 1..Section |->
        Msg("ROW", i - 1, <<IF status = 0 THEN {} ELSE FullByte>>)]

proto_series_led_intensity(b) == Msg("INTENSITY", 0, b % 16)
proto_40h_intensity(b) == Msg("INTENSITY", 0, b % 256)

(* A series device has one sensor. *)
proto_series_tilt_enable(sensor)  == Msg("TILT", 0, 1)
proto_series_tilt_disable(sensor) == Msg("TILT", 0, 0)
proto_40h_tilt_enable(sensor)  == Msg("TILT", sensor % 16, 1)
proto_40h_tilt_disable(sensor) == Msg("TILT", sensor % 16, 0)

-----------------------------------------------------------------------------
(* The functions of the library                                             *)

Series == grid.proto = "series"

monome_led_set(x, y, on) ==
    WriteOne(IF Series THEN proto_series_led_set(x, y, on)
                       ELSE proto_40h_led_set(x, y, on))

(* The 40h's function returns the bytes it meant to write. *)
monome_led_all(status) ==
    \/ Series /\ WriteOne(proto_series_led_all(status))
    \/ /\ ~Series
       /\ \E written \in SUBSET (1..Section) :
            MonomeWrite(proto_40h_led_all(status), written)
       /\ result' = 2 * Section

(* Seeded fault: the status of the last row is the status of the map. *)
FaultyLedMap(x_off, y_off, bits) ==
    \/ Series /\ WriteOne(proto_series_led_map(x_off, y_off, bits))
    \/ /\ ~Series
       /\ \E written \in SUBSET (1..Section) :
            /\ MonomeWrite(proto_40h_led_map(bits), written)
            /\ result' = IF Section \in written THEN 0 ELSE -1

(* The 40h's function adds up the results of its rows. *)
monome_led_map(x_off, y_off, bits) ==
    \/ Series /\ WriteOne(proto_series_led_map(x_off, y_off, bits))
    \/ /\ ~Series
       /\ \E written \in SUBSET (1..Section) :
            /\ MonomeWrite(proto_40h_led_map(bits), written)
            /\ result' = -(Section - Cardinality(written))

monome_led_row(y, bytes) ==
    WriteOne(IF Series THEN proto_series_led_row(y, bytes)
                       ELSE proto_40h_led_col_row("ROW", y, bytes[1]))
monome_led_col(x, bytes) ==
    WriteOne(IF Series THEN proto_series_led_col(x, bytes)
                       ELSE proto_40h_led_col_row("COL", x, bytes[1]))

monome_led_intensity(b) ==
    WriteOne(IF Series THEN proto_series_led_intensity(b) ELSE proto_40h_intensity(b))

reduce_level_to_bit(level) == IF level > MaxLevel \div 2 THEN 1 ELSE 0

monome_led_level_set(x, y, level) == monome_led_set(x, y, reduce_level_to_bit(level))
monome_led_level_all(level) == monome_led_all(reduce_level_to_bit(level))

(* The points of a level map that are lit. *)
Reduced(levels) == {p \in Points : reduce_level_to_bit(levels[p]) = 1}

(* The levels are turned before they are reduced. *)
monome_led_level_map(x_off, y_off, levels) ==
    monome_led_map(x_off, y_off, Reduced(level_map_cb(levels)))

(* Groups of levels as bytes; one that is not complete is left out. *)
reduce_levels_to_bitmask(levels) ==
    [s \in 1 .. Len(levels) \div Section |->
        {i \in 0 .. Section - 1 :
            reduce_level_to_bit(levels[Section * (s - 1) + i + 1]) = 1}]

monome_led_level_row(y, levels) == monome_led_row(y, reduce_levels_to_bitmask(levels))
monome_led_level_col(x, levels) == monome_led_col(x, reduce_levels_to_bitmask(levels))

monome_tilt_enable(sensor) ==
    WriteOne(IF Series THEN proto_series_tilt_enable(sensor)
                       ELSE proto_40h_tilt_enable(sensor))
monome_tilt_disable(sensor) ==
    WriteOne(IF Series THEN proto_series_tilt_disable(sensor)
                       ELSE proto_40h_tilt_disable(sensor))

-----------------------------------------------------------------------------
(* Calls of the application                                                 *)

(* The corner of a section.  The 40h has only one. *)
Corners == IF Series THEN Offsets ELSE {0}
MapsAreSafe == rotation = 0 \/ TurnedMaps

SetRotation ==
    /\ \E arg \in Rotated : rotation' = RotationOf(arg)
    /\ UNCHANGED <<grid, outputVars, calls>>

LedCall ==
    \/ \E x \in 0 .. width - 1, y \in 0 .. height - 1, on \in {0, 1} :
            monome_led_set(x, y, on)
    \/ \E status \in {0, 1} : monome_led_all(status)
    \/ \E x, y \in Corners, bits \in Bitmaps :
            (Series \/ MapsAreSafe) /\ monome_led_map(x, y, bits)
    \/ \E y \in 0 .. height - 1, bytes \in ByteRows : monome_led_row(y, bytes)
    \/ \E x \in 0 .. width - 1, bytes \in ByteRows : monome_led_col(x, bytes)
    \/ \E b \in Intensities : monome_led_intensity(b)

LevelCall ==
    \/ \E x \in 0 .. width - 1, y \in 0 .. height - 1, level \in Level :
            monome_led_level_set(x, y, level)
    \/ \E level \in Level : monome_led_level_all(level)
    \/ \E x, y \in Corners, levels \in LevelMaps :
            MapsAreSafe /\ monome_led_level_map(x, y, levels)
    \/ \E y \in 0 .. height - 1, levels \in LevelRows :
            monome_led_level_row(y, levels)
    \/ \E x \in 0 .. width - 1, levels \in LevelRows :
            monome_led_level_col(x, levels)

TiltCall == \E sensor \in {0, 1} :
               monome_tilt_enable(sensor) \/ monome_tilt_disable(sensor)

ProgramCalls ==
    \/ SetRotation
    \/ /\ calls < MaxCalls /\ calls' = calls + 1
       /\ LedCall \/ LevelCall \/ TiltCall
       /\ UNCHANGED <<grid, rotation>>

-----------------------------------------------------------------------------
(* Properties                                                               *)

OnOff(on) == IF on THEN MaxLevel ELSE 0

(* The picture the application sees. *)
Frame ==
    [p \in LogicalGrid(rotation, grid.cols, grid.rows) |->
        OnOff(output_cb(rotation, grid.cols, grid.rows, p) \in lit)]

(* Levels as the device can show them: each on or off, whichever is nearer. *)
Nearest(levels) == [i \in DOMAIN levels |-> OnOff(2 * levels[i] > MaxLevel)]

(* The promise for device g.  A 40h may show some lines of a picture.       *)
Promise(g) == INSTANCE GridFrame WITH
    Cols <- g.cols, Rows <- g.rows, RowWise <- g.proto = "40h",
    LevelMaps <- {Nearest(levels) : levels \in LevelMaps},
    LevelRows <- {Nearest(levels) : levels \in LevelRows},
    turn <- rotation,
    frame <- Frame,
    intensity <- brightness

(* Every call is the step GridFrame allows for the very same arguments. *)
CallKeepsPromise(g) ==
    /\ \A x \in 0 .. width - 1, y \in 0 .. height - 1 :
         /\ \A on \in {0, 1} : monome_led_set(x, y, on) =>
              Promise(g)!SetTo(<<x, y>>, OnOff(on = 1))
         /\ \A level \in Level : monome_led_level_set(x, y, level) =>
              Promise(g)!SetTo(<<x, y>>, Nearest(<<level>>)[1])
    /\ \A on \in {0, 1} : monome_led_all(on) => Promise(g)!AllTo(OnOff(on = 1))
    /\ \A level \in Level : monome_led_level_all(level) =>
         Promise(g)!AllTo(Nearest(<<level>>)[1])
    /\ \A i \in Intensities : monome_led_intensity(i) => Promise(g)!DimTo(i)
    /\ \A x, y \in Corners :
         /\ \A bits \in Bitmaps : (Series \/ MapsAreSafe) /\ monome_led_map(x, y, bits) =>
              Promise(g)!DrawMap(x, y, Promise(g)!OfBits(bits))
         /\ \A levels \in LevelMaps : MapsAreSafe /\ monome_led_level_map(x, y, levels) =>
              Promise(g)!DrawMap(x, y, Nearest(levels))
    /\ \A y \in 0 .. height - 1 :
         /\ \A bytes \in ByteRows : monome_led_row(y, bytes) =>
              Promise(g)!DrawRow(0, y, Promise(g)!OfBytes(bytes))
         /\ \A levels \in LevelRows : monome_led_level_row(y, levels) =>
              Promise(g)!DrawRow(0, y, Nearest(levels))
    /\ \A x \in 0 .. width - 1 :
         /\ \A bytes \in ByteRows : monome_led_col(x, bytes) =>
              Promise(g)!DrawCol(x, 0, Promise(g)!OfBytes(bytes))
         /\ \A levels \in LevelRows : monome_led_level_col(x, levels) =>
              Promise(g)!DrawCol(x, 0, Nearest(levels))

(* Until half a message is written, every call that changes the picture     *)
(* changes it as GridFrame promises for its arguments, and no other step    *)
(* does, whichever way the grid lies; it fails as a whole, except that a    *)
(* 40h may lack any lines of a map or of the whole grid.                    *)
SerialGridImplementsGridFrame ==
    [][\A g \in Grids : grid = g /\ ~torn' =>
          IF UNCHANGED <<lit, brightness>>
          THEN UNCHANGED <<rotation, lost>> \/ Promise(g)!Next
          ELSE UNCHANGED rotation /\ CallKeepsPromise(g)]_gridVars

(* A result that is not negative means that every message of the call was   *)
(* written whole, a message cut short by a full line not excepted; only the *)
(* 40h's monome_led_all() returns the same number whatever happened.        *)
OnlyAllHidesItsFailure ==
    [][result' >= 0 /\ (lost' > 0 \/ torn' # torn) =>
          ~Series /\ result' = 2 * Section]_outputVars

(* The comment of proto_series_led_level_map() and of the 40h's: "rotate    *)
(* happens in the call to the normal led_map function".  So a level map     *)
(* shows what led_map() shows of the same picture.                          *)
LevelMapIsTheMap ==
    [][\A x, y \in Corners, levels \in LevelMaps :
          monome_led_level_map(x, y, levels) =>
              monome_led_map(x, y, Reduced(levels))]_outputVars

=============================================================================
