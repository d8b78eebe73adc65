------------------------------ MODULE Rotation ------------------------------
(***************************************************************************)
(* Rotation of the grid (src/rotation.c): a monome may lie on the table in *)
(* four ways and the library translates between the coordinates of the     *)
(* hardware and those the application sees.  output_cb goes from the       *)
(* application to the hardware, input_cb from the hardware to the          *)
(* application.                                                            *)
(*                                                                         *)
(* Coordinates are unsigned integers: a subtraction that goes below zero   *)
(* wraps round at UintRange, 2^32 in the source.                           *)
(***************************************************************************)
EXTENDS Integers

CONSTANT UintRange

ASSUME UintAssumption == UintRange \in Nat \ {0}

(* MONOME_ROTATE_0, _90, _180 and _270. *)
Rotations == 0..3

(* Seeded fault: the argument is stored as it is. *)
FaultyRotationOf(arg) == arg

(* monome_set_rotation() keeps the two low bits of its argument. *)
RotationOf(arg) == arg % 4

(* The flags of rotspec. *)
ROW_COL_SWAP == {1, 3}
ROW_REVBITS  == {1, 2}
COL_REVBITS  == {2, 3}

(* The size the application sees of hardware with c columns and r rows. *)
monome_get_cols(rot, c, r) == IF rot \in ROW_COL_SWAP THEN r ELSE c
monome_get_rows(rot, c, r) == IF rot \in ROW_COL_SWAP THEN c ELSE r

(* Subtraction of unsigned integers. *)
Sub(a, b) == (a - b) % UintRange

(* The functions of rotspec.  COLS and ROWS are the macros of these names:   *)
(* one less than the size the application sees.                             *)
r90_output_cb(COLS, ROWS, p)  == <<p[2], Sub(COLS, p[1])>>
r180_output_cb(COLS, ROWS, p) == <<Sub(COLS, p[1]), Sub(ROWS, p[2])>>
r270_output_cb(COLS, ROWS, p) == <<Sub(ROWS, p[2]), p[1]>>

output_cb(rot, c, r, p) ==
    LET COLS == monome_get_cols(rot, c, r) - 1
        ROWS == monome_get_rows(rot, c, r) - 1
    IN CASE rot = 0 -> p
         [] rot = 1 -> r90_output_cb(COLS, ROWS, p)
         [] rot = 2 -> r180_output_cb(COLS, ROWS, p)
         [] rot = 3 -> r270_output_cb(COLS, ROWS, p)

(* Seeded fault: what was subtracted is not reduced. *)
Faulty180(COLS, ROWS, p) == <<Sub(COLS, p[1]), Sub(ROWS, p[2])>>

(* What was subtracted is reduced modulo the size, which must not be 0. *)
r90_input_cb(COLS, ROWS, p)  == <<Sub(COLS, p[2]) % (COLS + 1), p[1]>>
r180_input_cb(COLS, ROWS, p) ==
    <<Sub(COLS, p[1]) % (COLS + 1), Sub(ROWS, p[2]) % (ROWS + 1)>>
r270_input_cb(COLS, ROWS, p) == <<p[2], Sub(ROWS, p[1]) % (ROWS + 1)>>

input_cb(rot, c, r, p) ==
    LET COLS == monome_get_cols(rot, c, r) - 1
        ROWS == monome_get_rows(rot, c, r) - 1
    IN CASE rot = 0 -> p
         [] rot = 1 -> r90_input_cb(COLS, ROWS, p)
         [] rot = 2 -> r180_input_cb(COLS, ROWS, p)
         [] rot = 3 -> r270_input_cb(COLS, ROWS, p)

(* The keys of c by r hardware, and the places an application may address. *)
HardwareGrid(c, r) == (0 .. c - 1) \X (0 .. r - 1)
LogicalGrid(rot, c, r) ==
    (0 .. monome_get_cols(rot, c, r) - 1) \X (0 .. monome_get_rows(rot, c, r) - 1)

=============================================================================
