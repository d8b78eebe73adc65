----------------------------- MODULE RotateMap ------------------------------
(***************************************************************************)
(* The map callbacks of src/rotation.c turn the 8 by 8 bits of an LED map  *)
(* with shifts and masks on 64 bit or on 32 bit words, in one variant for  *)
(* little and one for big endian machines; the level map callbacks turn    *)
(* 64 levels with index arithmetic; REVERSE_BYTE turns a row.  The three   *)
(* must agree with output_cb, which turns a single LED.                    *)
(*                                                                         *)
(* A word is the set of its one bits; a map is the set of its points, of   *)
(* which <<i, j>> stands for bit i of byte j.                              *)
(***************************************************************************)
EXTENDS Rotation, Sequences

CONSTANT Bitmaps       \* the maps to turn

Points == (0..7) \X (0..7)

ASSUME BitmapsAssumption == \A m \in Bitmaps : m \subseteq Points

VARIABLES
    rot,       \* monome->rotation
    machine,   \* what the library is built for: __LP64__, LM_BIG_ENDIAN
    given,     \* the map handed to the library
    did,       \* the function that was called
    result     \* what it made of the map

mapVars == <<rot, machine, given, did, result>>

-----------------------------------------------------------------------------
(* Words of w bits                                                          *)

Xor(x, y) == (x \ y) \cup (y \ x)
Shl(w, x, n) == {b + n : b \in {a \in x : a + n < w}}
Shr(x, n) == {b - n : b \in {a \in x : a >= n}}

(* The sum of two words, with what each bit carries into the next.          *)
Plus(w, x, y) ==
    LET carry[i \in 0..w] ==
            /\ i > 0
            /\ \/ i - 1 \in x /\ i - 1 \in y
               \/ (i - 1 \in x \/ i - 1 \in y) /\ carry[i - 1]
    IN {i \in 0 .. w - 1 : ((i \in x) # (i \in y)) # carry[i]}

(* The bytes that the constants are made of.                                *)
x00 == {}
xFF == 0..7
x55 == {0, 2, 4, 6}
xAA == {1, 3, 5, 7}
x33 == {0, 1, 4, 5}
xCC == {2, 3, 6, 7}
x0F == 0..3
xF0 == 4..7

(* The constant that repeats the given bytes, the last one lowest. *)
Mask(w, bytes) ==
    {b \in 0 .. w - 1 : b % 8 \in bytes[Len(bytes) - ((b \div 8) % Len(bytes))]}

(* The macro swap: bits under the mask c change places with bits f lower. *)
swap(w, x, f, c) == LET t == Xor(x, Shl(w, x, f)) \cap c
                    IN Xor(x, Xor(t, Shr(t, f)))

(* Seeded fault: the order of bytes in a word is taken for little endian. *)
FaultyLoad(m, big, first, n) ==
    {8 * (p[2] - first) + p[1] : p \in {q \in m : q[2] \in first .. first + n - 1}}

(* The n bytes of a map from byte first on, read as a word and written. *)
Load(m, big, first, n) ==
    {8 * (IF big THEN n - 1 - (p[2] - first) ELSE p[2] - first) + p[1] :
        p \in {q \in m : q[2] \in first .. first + n - 1}}
Store(x, big, first, n) ==
    {<<b % 8, first + (IF big THEN n - 1 - (b \div 8) ELSE b \div 8)>> : b \in x}

-----------------------------------------------------------------------------
(* Quarter turns: shifts and masks in program order.  On a big endian       *)
(* machine one turn has the shifts the other has on a little endian one.    *)

(* The swaps of w-bit words for pairs of bytes, of pairs and of quadruples. *)
OddPairs(w, x) ==
    swap(w, swap(w, x, 8, Mask(w, <<xFF, x00>>)), 7, Mask(w, <<x55, x00>>))
OddFours(w, x) ==
    swap(w, swap(w, x, 16, Mask(w, <<xFF, xFF, x00, x00>>)),
         14, Mask(w, <<x33, x33, x00, x00>>))
OddEights(x) ==
    swap(64, swap(64, x, 32, Mask(64, <<xFF, xFF, xFF, xFF, x00, x00, x00, x00>>)),
         28, Mask(64, <<x0F, x0F, x0F, x0F, x00, x00, x00, x00>>))

EvenPairs(w, x) ==
    swap(w, swap(w, x, 8, Mask(w, <<xFF, x00>>)), 9, Mask(w, <<xAA, x00>>))
EvenFours(w, x) ==
    swap(w, swap(w, x, 16, Mask(w, <<xFF, xFF, x00, x00>>)),
         18, Mask(w, <<xCC, xCC, x00, x00>>))
EvenEights(x) ==
    swap(64, swap(64, x, 32, Mask(64, <<xFF, xFF, xFF, xFF, x00, x00, x00, x00>>)),
         36, Mask(64, <<xF0, xF0, xF0, xF0, x00, x00, x00, x00>>))

(* All six swaps of a 64 bit machine, and the first four, which a 32 bit    *)
(* machine applies to each half of the map by itself.                       *)
Whole(m, big, odd) ==
    LET x == Load(m, big, 0, 8)
    IN IF odd THEN OddEights(OddFours(64, OddPairs(64, x)))
              ELSE EvenEights(EvenFours(64, EvenPairs(64, x)))
Half(m, big, first, odd) ==
    LET x == Load(m, big, first, 4)
    IN IF odd THEN OddFours(32, OddPairs(32, x)) ELSE EvenFours(32, EvenPairs(32, x))

(* The upper and the lower four bits of every byte of x. *)
Upper(x) == x \cap Mask(32, <<xF0>>)
Lower(x) == x \cap Mask(32, <<x0F>>)

r90_map_cb(m, mc) ==
    IF mc.lp64
    THEN Store(Whole(m, mc.big, mc.big), mc.big, 0, 8)
    ELSE LET x == Half(m, mc.big, 0, mc.big)
             y == Half(m, mc.big, 4, mc.big)
         IN Store(Shr(Upper(x), 4) \cup Upper(y), mc.big, 0, 4)
              \cup Store(Lower(x) \cup Shl(32, Lower(y), 4), mc.big, 4, 4)

r270_map_cb(m, mc) ==
    IF mc.lp64
    THEN Store(Whole(m, mc.big, ~mc.big), mc.big, 0, 8)
    ELSE LET x == Half(m, mc.big, 0, ~mc.big)
             y == Half(m, mc.big, 4, ~mc.big)
         IN Store(Shl(32, Lower(x), 4) \cup Lower(y), mc.big, 0, 4)
              \cup Store(Upper(x) \cup Shr(Upper(y), 4), mc.big, 4, 4)

(* r180_map_cb(): halves, quarters, and so on down to bits change places. *)
Exchanged(w, x, n, upper) ==
    Shr(x \cap Mask(w, upper), n) \cup Shl(w, x \ Mask(w, upper), n)

Reversal(w, x) ==
    LET halves   == IF w = 64 THEN Shr(x, 32) \cup Shl(w, x, 32) ELSE x
        quarters == Exchanged(w, halves, 16, <<xFF, xFF, x00, x00>>)
        bytes    == Exchanged(w, quarters, 8, <<xFF, x00>>)
        nybbles  == Exchanged(w, bytes, 4, <<xF0>>)
        pairs    == Exchanged(w, nybbles, 2, <<xCC>>)
    IN Exchanged(w, pairs, 1, <<xAA>>)

r180_map_cb(m, mc) ==
    IF mc.lp64
    THEN Store(Reversal(64, Load(m, mc.big, 0, 8)), mc.big, 0, 8)
    ELSE Store(Reversal(32, Load(m, mc.big, 4, 4)), mc.big, 0, 4)
           \cup Store(Reversal(32, Load(m, mc.big, 0, 4)), mc.big, 4, 4)

map_cb(r, m, mc) ==
    CASE r = 0 -> m
      [] r = 1 -> r90_map_cb(m, mc)
      [] r = 2 -> r180_map_cb(m, mc)
      [] r = 3 -> r270_map_cb(m, mc)

-----------------------------------------------------------------------------
(* Levels and rows                                                          *)

(* Where byte i of the turned level map comes from. *)
FaultyLevelSource(i) == (i \div 8) + 8 * (7 - (i % 8))    \* seeded fault: 270
r90_level_source(i)  == (7 - (i \div 8)) + 8 * (i % 8)
r180_level_source(i) == 63 - i
r270_level_source(i) == (i \div 8) + 8 * (7 - (i % 8))

level_map_cb(r, src) ==
    [i \in 0..63 |-> src[CASE r = 0 -> i
                           [] r = 1 -> r90_level_source(i)
                           [] r = 2 -> r180_level_source(i)
                           [] r = 3 -> r270_level_source(i)]]

(* Multiplication by 0x10101.  The product is shifted and cut to 8 bits, so  *)
(* that its bits 16 to 23 make the byte.                                    *)
Middle(v) ==
    LET product == Plus(32, Plus(32, v, Shl(32, v, 8)), Shl(32, v, 16))
    IN Shr(product \cap 16..23, 16)

(* Seeded fault: half of the bits are masked out. *)
FaultyReverseByte(x) == Middle(Plus(32, Shl(32, x, 1), Shl(32, x, 11)) \cap {4, 8, 13, 17})

(* The factors are 0x0802 and 0x8020, the masks 0x22110 and 0x88440. *)
REVERSE_BYTE(x) ==
    Middle((Plus(32, Shl(32, x, 1), Shl(32, x, 11)) \cap {4, 8, 13, 17})
             \cup (Plus(32, Shl(32, x, 5), Shl(32, x, 15)) \cap {6, 10, 15, 19}))

(* Levels and a row that show a map. *)
Levels(m) == [i \in 0..63 |-> IF <<i % 8, i \div 8>> \in m THEN 15 ELSE 0]
Lit(levels) == {p \in Points : levels[p[1] + 8 * p[2]] > 0}

ByteOf(m) == {i \in 0..7 : <<i, 0>> \in m}
FirstRow(byte) == byte \X {0}

-----------------------------------------------------------------------------
(* Named so that a module can extend this one along with KeyEcho. *)
MapInit ==
    /\ rot \in Rotations
    /\ machine \in [lp64 : BOOLEAN, big : BOOLEAN]
    /\ given \in Bitmaps
    /\ did = "nothing" /\ result = {}

Call(function, outcome) ==
    /\ did = "nothing"
    /\ did' = function /\ result' = outcome
    /\ UNCHANGED <<rot, machine, given>>

CallMap == Call("map_cb", map_cb(rot, given, machine))

CallLevelMap == Call("level_map_cb", Lit(level_map_cb(rot, Levels(given))))

CallReverse == Call("REVERSE_BYTE", FirstRow(REVERSE_BYTE(ByteOf(given))))

MapNext == CallMap \/ CallLevelMap \/ CallReverse

MapSpec == MapInit /\ [][MapNext]_mapVars

-----------------------------------------------------------------------------
(* Properties                                                               *)

(* The shift-and-mask algorithms move every LED of a map to where the same  *)
(* rotation's output_cb sends it, on all four kinds of machine.             *)
MapTurnsEveryLed ==
    did = "map_cb" => result = {output_cb(rot, 8, 8, p) : p \in given}

(* So does the index arithmetic of the level map: monome_led_map() and      *)
(* monome_led_level_map() of the same picture show the same.                *)
LevelMapTurnsEveryLed ==
    did = "level_map_cb" => result = {output_cb(rot, 8, 8, p) : p \in given}

(* REVERSE_BYTE puts bit 7 - i where bit i was, for every byte. *)
RowIsReversed ==
    did = "REVERSE_BYTE" =>
        result = {<<7 - p[1], 0>> : p \in {q \in given : q[2] = 0}}

=============================================================================
