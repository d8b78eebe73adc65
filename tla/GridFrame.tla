----------------------------- MODULE GridFrame ------------------------------
(***************************************************************************)
(* What the LED functions of libmonome promise the application: a picture  *)
(* of levels in its own coordinates, whichever way the grid lies.          *)
(*                                                                         *)
(*  - each function changes exactly the places it addresses, in the        *)
(*    coordinates that are current when it is called;                      *)
(*  - turning the grid changes no LED: the picture is merely seen from     *)
(*    another side from then on;                                           *)
(*  - a function that addresses several sections of the grid may leave      *)
(*    some of them as they were, and lost says how many: those whose       *)
(*    messages could not be written, and no others.                        *)
(*                                                                         *)
(* MextGrid implements this specification, and so does SerialGrid, whose   *)
(* LEDs are on or off.                                                     *)
(***************************************************************************)
EXTENDS Integers, Sequences, FiniteSets

CONSTANTS
    Section,        \* places one byte covers, 8 in the source
    Cols, Rows,     \* size of the grid in rotation 0
    MaxLevel,       \* brightness of an LED that is on, 15
    RowWise,        \* is a map, or the whole grid, drawn line by line?
    Offsets,        \* offsets applications give to maps, rows and columns
    Rotated,        \* what they give to monome_set_rotation()
    Bitmaps,        \* LED maps: sets of points of a section
    LevelMaps,      \* level maps: functions from the points to levels
    ByteRows,       \* rows and columns: sequences of sets of bits
    LevelRows,      \* level rows and columns: sequences of levels
    Intensities     \* brightnesses of the whole grid

VARIABLES turn,     \* quarter turns from the position of rotation 0
          frame,    \* the picture: the level at every place
          intensity,
          lost      \* how many sections the last function left out

vars == <<turn, frame, intensity, lost>>

Level == 0..MaxLevel
Width(t)  == IF t % 2 = 0 THEN Cols ELSE Rows
Height(t) == IF t % 2 = 0 THEN Rows ELSE Cols
Places(t) == (0 .. Width(t) - 1) \X (0 .. Height(t) - 1)
Points == (0 .. Section - 1) \X (0 .. Section - 1)

Init ==
    /\ turn = 0
    /\ frame = [p \in Places(0) |-> 0]
    /\ intensity = MaxLevel
    /\ lost = 0

(* The picture f, seen at t, after one more quarter turn. *)
QuarterTurn(t, f) ==
    [p \in Places(t + 1) |-> f[<<p[2], Width(t + 1) - 1 - p[1]>>]]

(* The same picture after n of them. *)
Turned(n) ==
    LET once == QuarterTurn(turn, frame)
        twice == QuarterTurn(turn + 1, once)
    IN CASE n = 0 -> frame
         [] n = 1 -> once
         [] n = 2 -> twice
         [] n = 3 -> QuarterTurn(turn + 2, twice)

SetRotation ==
    /\ \E arg \in Rotated : turn' = arg % 4
    /\ frame' = Turned((turn' - turn) % 4)
    /\ UNCHANGED <<intensity, lost>>

(* One call draws pictures of parts of the plane, one for each section it   *)
(* addresses, over the frame.  What falls outside is lost.                  *)
Draw(pictures) ==
    LET before == frame
        DrawnOver(drawn) ==
            [p \in DOMAIN before |->
                LET over == {i \in drawn : p \in DOMAIN pictures[i]}
                IN IF over = {} THEN before[p]
                   ELSE pictures[CHOOSE i \in over : TRUE][p]]
    IN /\ \E drawn \in SUBSET DOMAIN pictures :
            /\ lost' = Cardinality(DOMAIN pictures \ drawn)
            /\ frame' = DrawnOver(drawn)
       /\ UNCHANGED <<turn, intensity>>

OnOff(on) == IF on THEN MaxLevel ELSE 0

(* Maps, rows and columns as levels. *)
OfBits(bits) == [p \in Points |-> OnOff(p \in bits)]
OfBytes(bytes) ==
    [i \in 1 .. Section * Len(bytes) |->
        OnOff((i - 1) % Section \in bytes[(i - 1) \div Section + 1])]

(* The picture f line by line, if that is how the device is sent it: lines  *)
(* are rows or, on a grid that lies on its side, columns.                   *)
Lines(f) ==
    IF ~RowWise THEN <<f>>
    ELSE LET axis == IF turn % 2 = 0 THEN 2 ELSE 1
             Line(i) == {p \in DOMAIN f : p[axis] = i}
         IN [i \in 1..Cardinality({p[axis] : p \in DOMAIN f}) |->
                [p \in Line(i - 1) |-> f[p]]]

SetTo(p, level) == Draw(<< [q \in {p} |-> level] >>)
AllTo(level) == Draw(Lines([p \in Places(turn) |-> level]))
DrawMap(x, y, levels) ==
    Draw(Lines([p \in (x .. x + Section - 1) \X (y .. y + Section - 1) |->
                  levels[<<p[1] - x, p[2] - y>>]]))

(* As many sections as there are levels for, side by side from <<x, y>> on. *)
DrawRow(x, y, levels) ==
    Draw([s \in 1 .. Len(levels) \div Section |->
            [p \in (x + Section * (s - 1) .. x + Section * s - 1) \X {y} |->
                levels[p[1] - x + 1]]])
DrawCol(x, y, levels) ==
    Draw([s \in 1 .. Len(levels) \div Section |->
            [p \in {x} \X (y + Section * (s - 1) .. y + Section * s - 1) |->
                levels[p[2] - y + 1]]])

DimTo(i) ==
    /\ \/ intensity' = i % (MaxLevel + 1) /\ lost' = 0
       \/ UNCHANGED intensity /\ lost' = 1
    /\ UNCHANGED <<turn, frame>>

Set == \E p \in Places(turn), level \in Level : SetTo(p, level)
All == \E level \in Level : AllTo(level)
Map == \E x, y \in Offsets, levels \in {OfBits(b) : b \in Bitmaps} \cup LevelMaps :
          DrawMap(x, y, levels)
RowOrCol ==
    \E levels \in {OfBytes(b) : b \in ByteRows} \cup LevelRows, off \in Offsets :
       \/ \E y \in 0 .. Height(turn) - 1 : DrawRow(off, y, levels)
       \/ \E x \in 0 .. Width(turn) - 1 : DrawCol(x, off, levels)
Dim == \E i \in Intensities : DimTo(i)

Next == SetRotation \/ Set \/ All \/ Map \/ RowOrCol \/ Dim

Spec == Init /\ [][Next]_vars

=============================================================================
