---------------------------- MODULE RotationProofs --------------------------
(***************************************************************************)
(* KeyEcho lights the LED under the key, on grids of every size, and the   *)
(* coordinates of an event stay inside the grid.  The bit tricks of        *)
(* RotateMap turn every map, every level map and every row, on machines    *)
(* of both widths and of both byte orders, to where output_cb sends the    *)
(* single LEDs.                                                            *)
(***************************************************************************)
EXTENDS KeyEcho, RotateMap, SharedLemmas, SequenceTheorems, TLAPS

-----------------------------------------------------------------------------
(* The invariant of KeyEcho                                                 *)

(* Every queued event carries the translation of its key by the rotation of *)
(* its time, and the last echo lit the key if nothing was turned since.     *)
EventsTranslated ==
    \A i \in 1..Len(events) :
        /\ events[i].key \in Keys /\ events[i].turned \in Rotations
        /\ <<events[i].x, events[i].y>> =
              input_cb(events[i].turned, Cols, Rows, events[i].key)

EchoInv ==
    /\ rotation \in Rotations
    /\ events \in Seq([key : Keys, turned : Rotations, x : Int, y : Int])
    /\ EventsTranslated
    /\ EchoLightsTheKey

(* The translations are defined for these sizes.                            *)
LEMMA SizesFit == Cols \in GridSize /\ Rows \in GridSize
  BY SizeAssumption, UintAssumption DEF GridSize, ByteRange

(* No event has been translated yet, and the first echo is of itself.       *)
LEMMA InitEstablishesEchoInv == Init => EchoInv
  <1>. SUFFICES ASSUME Init PROVE EchoInv
    OBVIOUS
  <1>1. NoEcho.at = NoEcho.key
    BY DEF NoEcho
  <1>2. events = <<>> /\ rotation = 0 /\ echo = NoEcho
    BY DEF Init
  <1>3. EventsTranslated
    BY <1>2 DEF EventsTranslated
  <1>. QED  BY <1>1, <1>2, <1>3 DEF EchoInv, EchoLightsTheKey, Rotations

(* A key press appends the translation of the key. *)
LEMMA KeyPressPreservesEchoInv == EchoInv /\ mext_handler_key_grid => EchoInv'
  <1>. SUFFICES ASSUME EchoInv, mext_handler_key_grid PROVE EchoInv'
    OBVIOUS
  <1>. DEFINE Place(k) == input_cb(rotation, Cols, Rows, k)
  <1>1. PICK k \in Keys :
          events' = Append(events, [key |-> k, turned |-> rotation,
                                    x |-> Place(k)[1], y |-> Place(k)[2]])
    BY DEF mext_handler_key_grid
  <1>2. /\ rotation \in Rotations /\ rotation' = rotation /\ echo' = echo
        /\ events \in Seq([key : Keys, turned : Rotations, x : Int, y : Int])
    BY DEF mext_handler_key_grid, EchoInv
  <1>3. PICK i \in Nat, j \in Nat : k = <<i, j>>
    BY SizeAssumption DEF Keys, HardwareGrid, ByteRange
  <1>4. Place(k) \in Int \X Int
    <2>1. Place(k) \in (0 .. i + j + Cols + Rows) \X (0 .. i + j + Cols + Rows)
      BY <1>2, <1>3, SizesFit, InputIsBounded
    <2>. QED  BY <2>1
  <1>. DEFINE e == [key |-> k, turned |-> rotation,
                    x |-> Place(k)[1], y |-> Place(k)[2]]
  <1>. HIDE DEF Place
  <1>5. /\ e \in [key : Keys, turned : Rotations, x : Int, y : Int]
        /\ <<e.x, e.y>> = Place(e.key) /\ e.turned = rotation /\ e.key = k
    BY <1>2, <1>4
  <1>6. <<e.x, e.y>> = input_cb(e.turned, Cols, Rows, e.key)
    BY <1>5 DEF Place
  <1>. HIDE DEF e
  <1>7. events' = Append(events, e)
    BY <1>1 DEF e
  <1>8. events' \in Seq([key : Keys, turned : Rotations, x : Int, y : Int])
    BY <1>2, <1>5, <1>7
  <1>9. EventsTranslated'
    <2>1. SUFFICES ASSUME NEW n \in 1..Len(events')
                   PROVE  /\ events'[n].key \in Keys
                          /\ events'[n].turned \in Rotations
                          /\ <<events'[n].x, events'[n].y>> =
                                input_cb(events'[n].turned, Cols, Rows,
                                         events'[n].key)
      BY DEF EventsTranslated
    <2>2. CASE n \in 1..Len(events)
      <3>1. events'[n] = events[n]
        BY <1>2, <1>7, <2>2
      <3>. QED  BY <2>2, <3>1 DEF EchoInv, EventsTranslated
    <2>3. CASE n = Len(events) + 1
      <3>1. events'[n] = e
        BY <1>2, <1>7, <2>3
      <3>2. e.key \in Keys /\ e.turned \in Rotations
        BY <1>2, <1>5
      <3>. QED  BY <1>6, <3>1, <3>2
    <2>. QED  BY <1>2, <1>7, <2>2, <2>3
  <1>. QED  BY <1>2, <1>8, <1>9 DEF EchoInv, EchoLightsTheKey

(* Echoing the oldest event with the rotation of its time lights its key. *)
LEMMA EchoPreservesEchoInv == EchoInv /\ mext_led_set => EchoInv'
  <1>. SUFFICES ASSUME EchoInv, mext_led_set PROVE EchoInv'
    OBVIOUS
  <1>. DEFINE e == Head(events)
              p == output_cb(rotation, Cols, Rows, <<e.x, e.y>>)
  <1>1. /\ rotation \in Rotations /\ rotation' = rotation
        /\ events \in Seq([key : Keys, turned : Rotations, x : Int, y : Int])
        /\ events # <<>> /\ events' = Tail(events)
        /\ echo' = [key |-> e.key, turned |-> e.turned,
                    at |-> <<p[1] % ByteRange, p[2] % ByteRange>>,
                    rotation |-> rotation]
    BY DEF mext_led_set, EchoInv
  <1>2. e = events[1] /\ 1 \in 1..Len(events)
    BY <1>1
  <1>3. <<e.x, e.y>> = input_cb(e.turned, Cols, Rows, e.key)
    BY <1>2 DEF EchoInv, EventsTranslated
  <1>4. EchoLightsTheKey'
    <2>1. SUFFICES ASSUME e.key \in BelievedKeys, e.turned = rotation
                   PROVE  <<p[1] % ByteRange, p[2] % ByteRange>> = e.key
      BY <1>1 DEF EchoLightsTheKey
    <2>2. p = e.key
      <3>1. e.key \in HardwareGrid(Cols, Rows)
        BY <2>1 DEF BelievedKeys
      <3>2. output_cb(rotation, Cols, Rows,
                      input_cb(rotation, Cols, Rows, e.key)) = e.key
        BY <1>1, <3>1, SizesFit, InputStaysInside
      <3>3. <<e.x, e.y>> = input_cb(rotation, Cols, Rows, e.key)
        BY <1>3, <2>1
      <3>. QED  BY <3>2, <3>3
    <2>3. PICK i \in 0 .. ByteRange - 1, j \in 0 .. ByteRange - 1 :
            e.key = <<i, j>>
      <3>. HIDE DEF e
      <3>1. Cols \in 1..256 /\ Rows \in 1..256
        BY SizeAssumption DEF ByteRange
      <3>2. PICK i \in 0 .. Cols - 1, j \in 0 .. Rows - 1 : e.key = <<i, j>>
        BY <2>1 DEF BelievedKeys, HardwareGrid
      <3>3. i \in 0 .. ByteRange - 1 /\ j \in 0 .. ByteRange - 1
        BY <3>1 DEF ByteRange
      <3>. QED  BY <3>2, <3>3
    <2>4. i % ByteRange = i /\ j % ByteRange = j
      BY DEF ByteRange
    <2>. QED  BY <2>2, <2>3, <2>4
  <1>5. /\ events' \in Seq([key : Keys, turned : Rotations, x : Int, y : Int])
        /\ Len(events') = Len(events) - 1
        /\ \A n \in 1..Len(events') :
             n + 1 \in 1..Len(events) /\ events'[n] = events[n + 1]
    BY <1>1
  <1>6. EventsTranslated'
    BY <1>5 DEF EchoInv, EventsTranslated
  <1>. QED  BY <1>1, <1>4, <1>5, <1>6 DEF EchoInv

(* Every step of KeyEcho preserves its invariant.                           *)
LEMMA StepPreservesEchoInv == EchoInv /\ [Next]_vars => EchoInv'
  <1>. SUFFICES ASSUME EchoInv, [Next]_vars PROVE EchoInv'
    OBVIOUS
  <1>1. CASE monome_set_rotation
    <2>1. PICK arg \in Int : rotation' = RotationOf(arg)
      BY <1>1, SizeAssumption DEF monome_set_rotation
    <2>2. rotation' \in Rotations /\ events' = events /\ echo' = echo
      BY <1>1, <2>1, RotationOfInRange DEF monome_set_rotation
    <2>. QED  BY <2>2 DEF EchoInv, EventsTranslated, EchoLightsTheKey
  <1>2. CASE mext_handler_key_grid
    BY <1>2, KeyPressPreservesEchoInv
  <1>3. CASE mext_led_set
    BY <1>3, EchoPreservesEchoInv
  <1>4. CASE UNCHANGED vars
    BY <1>4 DEF vars, EchoInv, EventsTranslated, EchoLightsTheKey
  <1>. QED  BY <1>1, <1>2, <1>3, <1>4 DEF Next

(* The invariant of KeyEcho.                                                *)
LEMMA EchoInvariance == Spec => []EchoInv
  BY InitEstablishesEchoInv, StepPreservesEchoInv, PTL DEF Spec

-----------------------------------------------------------------------------
(* The LED under the key lights up, on grids of every size and in every     *)
(* rotation.                                                                *)
THEOREM EchoIsUnderTheKey == Spec => []EchoLightsTheKey
  <1>1. EchoInv => EchoLightsTheKey
    BY DEF EchoInv
  <1>. QED  BY <1>1, EchoInvariance, PTL

(* Events stay inside the grid the application sees. *)
THEOREM EventsStayInside == Spec => []EventsInsideGrid
  <1>1. EchoInv => EventsInsideGrid
    <2>1. SUFFICES ASSUME EchoInv, NEW i \in 1..Len(events),
                          events[i].key \in BelievedKeys
                   PROVE  <<events[i].x, events[i].y>>
                             \in LogicalGrid(events[i].turned, Cols, Rows)
      BY DEF EventsInsideGrid
    <2>2. /\ events[i].turned \in Rotations
          /\ <<events[i].x, events[i].y>> =
                input_cb(events[i].turned, Cols, Rows, events[i].key)
      BY <2>1 DEF EchoInv, EventsTranslated
    <2>. QED  BY <2>1, <2>2, SizesFit, InputStaysInside DEF BelievedKeys
  <1>. QED  BY <1>1, EchoInvariance, PTL

(* No coordinate wraps round, wherever the key is. *)
THEOREM NoCoordinateWraps == Spec => []NoVeryBigNumbers
  <1>1. EchoInv => NoVeryBigNumbers
    <2>. DEFINE bound == KeyCols + KeyRows + Cols + Rows
    <2>1. SUFFICES ASSUME EchoInv, NEW n \in 1..Len(events)
                   PROVE  events[n].x \in 0..bound /\ events[n].y \in 0..bound
      BY DEF NoVeryBigNumbers
    <2>2. /\ events[n].turned \in Rotations /\ events[n].key \in Keys
          /\ <<events[n].x, events[n].y>> =
                input_cb(events[n].turned, Cols, Rows, events[n].key)
      BY <2>1 DEF EchoInv, EventsTranslated
    <2>3. KeyCols \in Nat /\ KeyRows \in Nat /\ Cols \in Nat /\ Rows \in Nat
      BY SizeAssumption DEF ByteRange
    <2>4. PICK i \in 0 .. KeyCols - 1, j \in 0 .. KeyRows - 1 :
            events[n].key = <<i, j>>
      BY <2>2 DEF Keys, HardwareGrid
    <2>5. <<events[n].x, events[n].y>>
             \in (0 .. i + j + Cols + Rows) \X (0 .. i + j + Cols + Rows)
      BY <2>2, <2>3, <2>4, SizesFit, InputIsBounded
    <2>. QED  BY <2>3, <2>5
  <1>. QED  BY <1>1, EchoInvariance, PTL

(* Whatever coordinates an application hands back, integers are translated  *)
(* to integers.                                                             *)
LEMMA OutputIsIntegers ==
    ASSUME NEW turn \in Rotations, NEW c \in GridSize, NEW r \in GridSize, NEW x \in Int, NEW y \in Int
    PROVE  output_cb(turn, c, r, <<x, y>>) \in Int \X Int
  <1>. UintRange \in Nat \ {0}
    BY UintAssumption
  <1>1. \A n \in {c - 1, r - 1}, k \in {x, y} : Sub(n, k) \in Int
    BY DEF Sub, GridSize
  <1>. USE DEF output_cb, r90_output_cb, r180_output_cb, r270_output_cb,
               monome_get_cols, monome_get_rows, ROW_COL_SWAP
  <1>2. CASE turn = 0
    BY <1>2
  <1>3. CASE turn = 1
    BY <1>1, <1>3
  <1>4. CASE turn = 2
    BY <1>1, <1>4
  <1>5. CASE turn = 3
    BY <1>1, <1>5
  <1>. QED  BY <1>2, <1>3, <1>4, <1>5 DEF Rotations

(* The state of KeyEcho stays what it is declared to be: an event always    *)
(* names a key of the hardware and the rotation of its time.                *)
THEOREM KeyEchoTypes == Spec => []TypeOK
  <1>1. Init => TypeOK
    <2>1. <<0, 0>> \in Keys
      BY SizeAssumption DEF Keys, HardwareGrid, ByteRange
    <2>2. NoEcho \in [key : Keys, turned : Rotations, at : Int \X Int, rotation : Rotations]
      BY <2>1 DEF NoEcho, Rotations
    <2>3. <<>> \in Seq([key : Keys, turned : Rotations, x : Int, y : Int])
      BY EmptySeq
    <2>. QED  BY <2>2, <2>3 DEF Init, TypeOK, Rotations
  <1>2. TypeOK /\ EchoInv /\ EchoInv' /\ [Next]_vars => TypeOK'
    <2>. SUFFICES ASSUME TypeOK, EchoInv, EchoInv', [Next]_vars PROVE TypeOK'
      OBVIOUS
    <2>1. CASE mext_led_set
      <3>. DEFINE e == Head(events)
                  p == output_cb(rotation, Cols, Rows, <<e.x, e.y>>)
      <3>1. /\ events # <<>> /\ rotation' = rotation
            /\ echo' = [key |-> e.key, turned |-> e.turned,
                        at |-> <<p[1] % ByteRange, p[2] % ByteRange>>,
                        rotation |-> rotation]
        BY <2>1 DEF mext_led_set
      <3>2. e \in [key : Keys, turned : Rotations, x : Int, y : Int]
        BY <3>1, HeadTailProperties DEF TypeOK
      <3>. HIDE DEF e
      <3>3. p \in Int \X Int
        BY <3>2, SizesFit, OutputIsIntegers DEF TypeOK
      <3>. HIDE DEF p
      <3>4. <<p[1] % ByteRange, p[2] % ByteRange>> \in Int \X Int
        BY <3>3 DEF ByteRange
      <3>. QED  BY <3>1, <3>2, <3>4 DEF TypeOK, EchoInv
    <2>2. CASE ~mext_led_set
      <3>1. echo' = echo
        BY <2>2 DEF Next, monome_set_rotation, mext_handler_key_grid, vars
      <3>. QED  BY <3>1 DEF TypeOK, EchoInv
    <2>. QED  BY <2>1, <2>2
  <1>. QED  BY <1>1, <1>2, EchoInvariance, PTL DEF Spec

-----------------------------------------------------------------------------
(* Maps turn like single LEDs                                               *)

(* All maps there are, of which Bitmaps has some. *)
AllMaps == SUBSET ((0..7) \X (0..7))

(* The bits of a word by the binary digits of their numbers: those of the   *)
(* byte first, then those of the bit in it.  A word of 32 bits has no bytes *)
(* from 4 on.                                                               *)
Digit == {0, 1}
Words(f) == IF f = 0 THEN {32, 64} ELSE {64}
At(f, e, d, c, b, a) == 32*f + 16*e + 8*d + 4*c + 2*b + a

(* Digits make the number of a bit, and of its byte and its place there.    *)
LEMMA Digits ==
    ASSUME NEW f \in Digit, NEW e \in Digit, NEW d \in Digit,
           NEW c \in Digit, NEW b \in Digit, NEW a \in Digit,
           NEW w \in Words(f)
    PROVE  /\ At(f, e, d, c, b, a) \in 0 .. w - 1
           /\ At(f, e, d, c, b, a) % 8 = 4*c + 2*b + a
           /\ At(f, e, d, c, b, a) \div 8 = 4*f + 2*e + d
  BY DEF Digit, Words, At

(* Every number below 8 has three digits.                                   *)
LEMMA EightNumbers ==
    ASSUME NEW n \in 0..7
    PROVE  \E f, e, d \in Digit : n = 4*f + 2*e + d
  <1>1. 0 \in Digit /\ 1 \in Digit
    BY DEF Digit
  <1>2. /\ 0 = 4*0 + 2*0 + 0 /\ 1 = 4*0 + 2*0 + 1 /\ 2 = 4*0 + 2*1 + 0 /\ 3 = 4*0 + 2*1 + 1
        /\ 4 = 4*1 + 2*0 + 0 /\ 5 = 4*1 + 2*0 + 1 /\ 6 = 4*1 + 2*1 + 0 /\ 7 = 4*1 + 2*1 + 1
    OBVIOUS
  <1>3. n = 0 \/ n = 1 \/ n = 2 \/ n = 3 \/ n = 4 \/ n = 5 \/ n = 6 \/ n = 7
    OBVIOUS
  <1>. QED  BY <1>1, <1>2, <1>3, Zenon

(* swap moves what lies under the mask, and what lies f lower.              *)
LEMMA SwapMoves ==
    ASSUME NEW w \in Nat, NEW x \in SUBSET (0 .. w - 1), NEW f \in Nat, f # 0,
           NEW m \in SUBSET (0 .. w - 1), \A k \in m : k - f >= 0 /\ k - f \notin m
    PROVE  /\ swap(w, x, f, m) \in SUBSET (0 .. w - 1)
           /\ \A k \in 0 .. w - 1 :
                k \in swap(w, x, f, m)
                  <=> IF k \in m THEN k - f \in x
                      ELSE IF k + f \in m THEN k + f \in x ELSE k \in x
  <1>. DEFINE t == Xor(x, Shl(w, x, f)) \cap m
  <1>1. ASSUME NEW k \in 0 .. w - 1 PROVE k \in Shl(w, x, f) <=> k - f \in x
    BY <1>1 DEF Shl
  <1>. HIDE DEF t
  <1>2. t \subseteq m
    BY DEF t
  <1>3. ASSUME NEW k \in 0 .. w - 1 PROVE k \in Shr(t, f) <=> k + f \in t
    BY <1>2, <1>3 DEF Shr
  <1>4. Shr(t, f) \subseteq 0 .. w - 1
    BY <1>2 DEF Shr
  <1>5. \A k \in 0 .. w - 1 : k \in t <=> k \in m /\ (k \in x <=> k - f \notin x)
    <2>1. \A k : k \in t <=> k \in m /\ ~(k \in x <=> k \in Shl(w, x, f))
      BY Zenon DEF t, Xor
    <2>. QED  BY <1>1, <2>1
  <1>6. \A k : k \in swap(w, x, f, m) <=>
                 (k \in x <=> ~(k \in t <=> k \notin Shr(t, f)))
    BY Zenon DEF t, swap, Xor
  <1>7. swap(w, x, f, m) \in SUBSET (0 .. w - 1)
    BY <1>2, <1>4, <1>6
  <1>8. ASSUME NEW k \in 0 .. w - 1
        PROVE  k \in swap(w, x, f, m)
                  <=> IF k \in m THEN k - f \in x
                      ELSE IF k + f \in m THEN k + f \in x ELSE k \in x
    <2>1. CASE k \in m
      <3>1. k + f \notin m
        BY <2>1
      <3>. QED  BY <2>1, <3>1, <1>2, <1>3, <1>5, <1>6
    <2>2. CASE k \notin m /\ k + f \in m
      <3>1. k + f \in 0 .. w - 1 /\ (k + f) - f = k
        BY <2>2
      <3>. QED  BY <2>2, <3>1, <1>3, <1>5, <1>6
    <2>3. CASE k \notin m /\ k + f \notin m
      BY <2>3, <1>2, <1>3, <1>5, <1>6
    <2>. QED  BY <2>1, <2>2, <2>3
  <1>. QED  BY <1>7, <1>8

(* The masks of the swaps, by the numbers of their bits: rows from byte n   *)
(* on up to 2n, again and again; and in them the columns up to n, or from   *)
(* there to 2n.                                                             *)
InRow(n, k) == (k \div (8 * n)) % 2 = 1
InCol(n, k) == (k \div n) % 2 = 1
RowMask(w, n)  == {k \in 0 .. w - 1 : InRow(n, k)}
OddMask(w, n)  == {k \in 0 .. w - 1 : InRow(n, k) /\ ~InCol(n, k)}
EvenMask(w, n) == {k \in 0 .. w - 1 : InRow(n, k) /\ InCol(n, k)}

Blocks(w) == IF w = 64 THEN {1, 2, 4} ELSE {1, 2}

(* What becomes of the bits x of a word if rows change places; if columns   *)
(* of odd rows change places with those of even rows, from the other side;  *)
(* or from the same.                                                        *)
RowsSwapped(w, n, x, y) ==
    /\ y \in SUBSET (0 .. w - 1)
    /\ \A k \in 0 .. w - 1 :
         k \in y <=> (IF InRow(n, k) THEN k - 8 * n ELSE k + 8 * n) \in x
OddSwapped(w, n, x, y) ==
    /\ y \in SUBSET (0 .. w - 1)
    /\ \A k \in 0 .. w - 1 :
         k \in y <=> (IF InRow(n, k) /\ ~InCol(n, k) THEN k - 7 * n
                     ELSE IF ~InRow(n, k) /\ InCol(n, k) THEN k + 7 * n
                     ELSE k) \in x
EvenSwapped(w, n, x, y) ==
    /\ y \in SUBSET (0 .. w - 1)
    /\ \A k \in 0 .. w - 1 :
         k \in y <=> (IF InRow(n, k) /\ InCol(n, k) THEN k - 9 * n
                     ELSE IF ~InRow(n, k) /\ ~InCol(n, k) THEN k + 9 * n
                     ELSE k) \in x

(* swap by 8n under the row mask exchanges rows n apart.                    *)
LEMMA RowsExchanged ==
    ASSUME NEW w \in {32, 64}, NEW n \in Blocks(w), NEW x \in SUBSET (0 .. w - 1)
    PROVE  RowsSwapped(w, n, x, swap(w, x, 8 * n, RowMask(w, n)))
  <1>. DEFINE m == RowMask(w, n)
  <1>1. n \in {1, 2, 4} /\ (w = 64 \/ (w = 32 /\ n \in {1, 2}))
    BY DEF Blocks
  <1>2. m \in SUBSET (0 .. w - 1)
    BY DEF RowMask
  <1>3. \A k \in m : k - 8 * n >= 0 /\ k - 8 * n \notin m
    <2>1. CASE n = 1 BY <1>1, <2>1 DEF RowMask, InRow
    <2>2. CASE n = 2 BY <1>1, <2>2 DEF RowMask, InRow
    <2>3. CASE n = 4 BY <1>1, <2>3 DEF RowMask, InRow
    <2>. QED  BY <1>1, <2>1, <2>2, <2>3
  <1>4. \A k \in 0 .. w - 1 : ~InRow(n, k) => k + 8 * n \in m
    <2>1. CASE n = 1 BY <1>1, <2>1 DEF RowMask, InRow
    <2>2. CASE n = 2 BY <1>1, <2>2 DEF RowMask, InRow
    <2>3. CASE n = 4 BY <1>1, <2>3 DEF RowMask, InRow
    <2>. QED  BY <1>1, <2>1, <2>2, <2>3
  <1>5. \A k \in 0 .. w - 1 : k \in m <=> InRow(n, k)
    BY DEF RowMask
  <1>6. w \in Nat /\ 8 * n \in Nat /\ 8 * n # 0
    BY <1>1
  <1>. HIDE DEF m, RowsSwapped
  <1>7. /\ swap(w, x, 8 * n, m) \in SUBSET (0 .. w - 1)
        /\ \A k \in 0 .. w - 1 :
             k \in swap(w, x, 8 * n, m)
               <=> IF k \in m THEN k - 8 * n \in x
                   ELSE IF k + 8 * n \in m THEN k + 8 * n \in x ELSE k \in x
    BY <1>2, <1>3, <1>6, SwapMoves
  <1>. QED  BY <1>4, <1>5, <1>7 DEF m, RowsSwapped

(* swap by 7n under this mask exchanges the upper right with the lower      *)
(* left.                                                                    *)
LEMMA OddExchanged ==
    ASSUME NEW w \in {32, 64}, NEW n \in Blocks(w), NEW x \in SUBSET (0 .. w - 1)
    PROVE  OddSwapped(w, n, x, swap(w, x, 7 * n, OddMask(w, n)))
  <1>. DEFINE m == OddMask(w, n)
  <1>1. n \in {1, 2, 4} /\ (w = 64 \/ (w = 32 /\ n \in {1, 2}))
    BY DEF Blocks
  <1>2. m \in SUBSET (0 .. w - 1)
    BY DEF OddMask
  <1>3. \A k \in m : k - 7 * n >= 0 /\ k - 7 * n \notin m
    <2>1. CASE n = 1 BY <1>1, <2>1 DEF OddMask, InRow, InCol
    <2>2. CASE n = 2 BY <1>1, <2>2 DEF OddMask, InRow, InCol
    <2>3. CASE n = 4 BY <1>1, <2>3 DEF OddMask, InRow, InCol
    <2>. QED  BY <1>1, <2>1, <2>2, <2>3
  <1>4. \A k \in 0 .. w - 1 : k + 7 * n \in m <=> ~InRow(n, k) /\ InCol(n, k)
    <2>1. CASE n = 1 BY <1>1, <2>1 DEF OddMask, InRow, InCol
    <2>2. CASE n = 2 BY <1>1, <2>2 DEF OddMask, InRow, InCol
    <2>3. CASE n = 4 BY <1>1, <2>3 DEF OddMask, InRow, InCol
    <2>. QED  BY <1>1, <2>1, <2>2, <2>3
  <1>5. \A k \in 0 .. w - 1 : k \in m <=> InRow(n, k) /\ ~InCol(n, k)
    BY DEF OddMask
  <1>6. w \in Nat /\ 7 * n \in Nat /\ 7 * n # 0
    BY <1>1
  <1>. HIDE DEF m, OddSwapped
  <1>7. /\ swap(w, x, 7 * n, m) \in SUBSET (0 .. w - 1)
        /\ \A k \in 0 .. w - 1 :
             k \in swap(w, x, 7 * n, m)
               <=> IF k \in m THEN k - 7 * n \in x
                   ELSE IF k + 7 * n \in m THEN k + 7 * n \in x ELSE k \in x
    BY <1>2, <1>3, <1>6, SwapMoves
  <1>. QED  BY <1>4, <1>5, <1>7 DEF m, OddSwapped

(* swap by 9n under this mask exchanges the two other corners.              *)
LEMMA EvenExchanged ==
    ASSUME NEW w \in {32, 64}, NEW n \in Blocks(w), NEW x \in SUBSET (0 .. w - 1)
    PROVE  EvenSwapped(w, n, x, swap(w, x, 9 * n, EvenMask(w, n)))
  <1>. DEFINE m == EvenMask(w, n)
  <1>1. n \in {1, 2, 4} /\ (w = 64 \/ (w = 32 /\ n \in {1, 2}))
    BY DEF Blocks
  <1>2. m \in SUBSET (0 .. w - 1)
    BY DEF EvenMask
  <1>3. \A k \in m : k - 9 * n >= 0 /\ k - 9 * n \notin m
    <2>1. CASE n = 1 BY <1>1, <2>1 DEF EvenMask, InRow, InCol
    <2>2. CASE n = 2 BY <1>1, <2>2 DEF EvenMask, InRow, InCol
    <2>3. CASE n = 4 BY <1>1, <2>3 DEF EvenMask, InRow, InCol
    <2>. QED  BY <1>1, <2>1, <2>2, <2>3
  <1>4. \A k \in 0 .. w - 1 : k + 9 * n \in m <=> ~InRow(n, k) /\ ~InCol(n, k)
    <2>1. CASE n = 1 BY <1>1, <2>1 DEF EvenMask, InRow, InCol
    <2>2. CASE n = 2 BY <1>1, <2>2 DEF EvenMask, InRow, InCol
    <2>3. CASE n = 4 BY <1>1, <2>3 DEF EvenMask, InRow, InCol
    <2>. QED  BY <1>1, <2>1, <2>2, <2>3
  <1>5. \A k \in 0 .. w - 1 : k \in m <=> InRow(n, k) /\ InCol(n, k)
    BY DEF EvenMask
  <1>6. w \in Nat /\ 9 * n \in Nat /\ 9 * n # 0
    BY <1>1
  <1>. HIDE DEF m, EvenSwapped
  <1>7. /\ swap(w, x, 9 * n, m) \in SUBSET (0 .. w - 1)
        /\ \A k \in 0 .. w - 1 :
             k \in swap(w, x, 9 * n, m)
               <=> IF k \in m THEN k - 9 * n \in x
                   ELSE IF k + 9 * n \in m THEN k + 9 * n \in x ELSE k \in x
    BY <1>2, <1>3, <1>6, SwapMoves
  <1>. QED  BY <1>4, <1>5, <1>7 DEF m, EvenSwapped

(* The constants in the source are these masks. *)
LEMMA MasksOfTwo ==
    ASSUME NEW w \in {32, 64}, NEW X, NEW Y
    PROVE  Mask(w, <<X, Y>>)
             = {k \in 0 .. w - 1 : k % 8 \in (IF InRow(1, k) THEN X ELSE Y)}
  <1>1. \A k \in 0 .. w - 1 :
          <<X, Y>>[2 - ((k \div 8) % 2)] = IF InRow(1, k) THEN X ELSE Y
    BY DEF InRow
  <1>2. Len(<<X, Y>>) = 2
    OBVIOUS
  <1>. QED  BY <1>1, <1>2 DEF Mask

(* The same of constants of four bytes.                                     *)
LEMMA MasksOfFour ==
    ASSUME NEW w \in {32, 64}, NEW X, NEW Y
    PROVE  Mask(w, <<X, X, Y, Y>>)
             = {k \in 0 .. w - 1 : k % 8 \in (IF InRow(2, k) THEN X ELSE Y)}
  <1>1. ASSUME NEW k \in 0 .. w - 1
        PROVE  <<X, X, Y, Y>>[4 - ((k \div 8) % 4)] = IF InRow(2, k) THEN X ELSE Y
    <2>1. (k \div 8) % 4 \in 2..3 <=> InRow(2, k)
      BY DEF InRow
    <2>2. (k \div 8) % 4 \in 0..3
      OBVIOUS
    <2>3. \A i \in 0..3 : <<X, X, Y, Y>>[4 - i] = IF i \in 2..3 THEN X ELSE Y
      OBVIOUS
    <2>. QED  BY <2>1, <2>2, <2>3
  <1>2. Len(<<X, X, Y, Y>>) = 4
    OBVIOUS
  <1>. QED  BY <1>1, <1>2 DEF Mask

(* And of eight.                                                            *)
LEMMA MasksOfEight ==
    ASSUME NEW X, NEW Y
    PROVE  Mask(64, <<X, X, X, X, Y, Y, Y, Y>>)
             = {k \in 0..63 : k % 8 \in (IF InRow(4, k) THEN X ELSE Y)}
  <1>1. ASSUME NEW k \in 0..63
        PROVE  <<X, X, X, X, Y, Y, Y, Y>>[8 - ((k \div 8) % 8)]
                 = IF InRow(4, k) THEN X ELSE Y
    <2>1. (k \div 8) % 8 \in 4..7 <=> InRow(4, k)
      BY DEF InRow
    <2>2. (k \div 8) % 8 \in 0..7
      OBVIOUS
    <2>3. \A i \in 0..7 :
            <<X, X, X, X, Y, Y, Y, Y>>[8 - i] = IF i \in 4..7 THEN X ELSE Y
      OBVIOUS
    <2>. QED  BY <2>1, <2>2, <2>3
  <1>2. Len(<<X, X, X, X, Y, Y, Y, Y>>) = 8
    OBVIOUS
  <1>3. 64 - 1 = 63
    OBVIOUS
  <1>. QED  BY <1>1, <1>2, <1>3 DEF Mask

(* Which bits of a byte they are. *)
LEMMA Columns ==
    ASSUME NEW k \in 0..63
    PROVE  /\ k % 8 \in xFF /\ k % 8 \notin x00
           /\ k % 8 \in xAA <=> InCol(1, k)
           /\ k % 8 \in x55 <=> ~InCol(1, k)
           /\ k % 8 \in xCC <=> InCol(2, k)
           /\ k % 8 \in x33 <=> ~InCol(2, k)
           /\ k % 8 \in xF0 <=> InCol(4, k)
           /\ k % 8 \in x0F <=> ~InCol(4, k)
  BY DEF InCol, xFF, x00, xAA, x55, xCC, x33,
         xF0, x0F

(* The constants of the swaps of both kinds of machine.                     *)
LEMMA MaskIs ==
    ASSUME NEW w \in {32, 64}
    PROVE  /\ Mask(w, <<xFF, x00>>) = RowMask(w, 1)
           /\ Mask(w, <<x55, x00>>) = OddMask(w, 1)
           /\ Mask(w, <<xAA, x00>>) = EvenMask(w, 1)
           /\ Mask(w, <<xFF, xFF, x00, x00>>) = RowMask(w, 2)
           /\ Mask(w, <<x33, x33, x00, x00>>) = OddMask(w, 2)
           /\ Mask(w, <<xCC, xCC, x00, x00>>) = EvenMask(w, 2)
  <1>1. \A k \in 0 .. w - 1 : k \in 0..63
    OBVIOUS
  <1>2. /\ Mask(w, <<xFF, x00>>) = RowMask(w, 1)
        /\ Mask(w, <<x55, x00>>) = OddMask(w, 1)
        /\ Mask(w, <<xAA, x00>>) = EvenMask(w, 1)
    BY <1>1, Columns, MasksOfTwo DEF RowMask, OddMask, EvenMask
  <1>3. /\ Mask(w, <<xFF, xFF, x00, x00>>) = RowMask(w, 2)
        /\ Mask(w, <<x33, x33, x00, x00>>) = OddMask(w, 2)
        /\ Mask(w, <<xCC, xCC, x00, x00>>) = EvenMask(w, 2)
    BY <1>1, Columns, MasksOfFour DEF RowMask, OddMask, EvenMask
  <1>. QED  BY <1>2, <1>3

(* The constants of the last two swaps of a 64 bit machine.                 *)
LEMMA WideMaskIs ==
    LET Wide(X) == Mask(64, <<X, X, X, X, x00, x00, x00, x00>>)
    IN /\ Wide(xFF) = RowMask(64, 4)
       /\ Wide(x0F) = OddMask(64, 4)
       /\ Wide(xF0) = EvenMask(64, 4)
  BY Columns, MasksOfEight DEF RowMask, OddMask, EvenMask

-----------------------------------------------------------------------------
(* The turns of words, by digits: which bits change places among pairs of   *)
(* rows, pairs of pairs and halves, and which digits are flipped.           *)
OddPairsTurned(w, x, y) ==
    /\ y \in SUBSET (0 .. w - 1)
    /\ \A f \in Digit : w \in Words(f) => \A e, d, c, b, a \in Digit :
         At(f, e, d, c, b, a) \in y <=> At(f, e, 1 - a, c, b, d) \in x
EvenPairsTurned(w, x, y) ==
    /\ y \in SUBSET (0 .. w - 1)
    /\ \A f \in Digit : w \in Words(f) => \A e, d, c, b, a \in Digit :
         At(f, e, d, c, b, a) \in y <=> At(f, e, a, c, b, 1 - d) \in x
OddFoursTurned(w, x, y) ==
    /\ y \in SUBSET (0 .. w - 1)
    /\ \A f \in Digit : w \in Words(f) => \A e, d, c, b, a \in Digit :
         At(f, e, d, c, b, a) \in y <=> At(f, 1 - b, d, c, e, a) \in x
EvenFoursTurned(w, x, y) ==
    /\ y \in SUBSET (0 .. w - 1)
    /\ \A f \in Digit : w \in Words(f) => \A e, d, c, b, a \in Digit :
         At(f, e, d, c, b, a) \in y <=> At(f, b, d, c, 1 - e, a) \in x
OddEightsTurned(x, y) ==
    /\ y \in SUBSET (0..63)
    /\ \A f, e, d, c, b, a \in Digit :
         At(f, e, d, c, b, a) \in y <=> At(1 - c, e, d, f, b, a) \in x
EvenEightsTurned(x, y) ==
    /\ y \in SUBSET (0..63)
    /\ \A f, e, d, c, b, a \in Digit :
         At(f, e, d, c, b, a) \in y <=> At(c, e, d, 1 - f, b, a) \in x

(* The first two swaps: the last digit of byte and bit change places, and   *)
(* one of them is flipped.                                                  *)
LEMMA PairsTurned ==
    ASSUME NEW w \in {32, 64}, NEW x \in SUBSET (0 .. w - 1)
    PROVE  /\ OddPairsTurned(w, x, OddPairs(w, x))
           /\ EvenPairsTurned(w, x, EvenPairs(w, x))
  <1>. DEFINE y == swap(w, x, 8 * 1, RowMask(w, 1))
  <1>1. w \in {32, 64} /\ 1 \in Blocks(w)
    BY DEF Blocks
  <1>2. RowsSwapped(w, 1, x, y)
    BY <1>1, RowsExchanged, Zenon
  <1>3. y \in SUBSET (0 .. w - 1)
    BY <1>2 DEF RowsSwapped
  <1>4. OddSwapped(w, 1, y, swap(w, y, 7 * 1, OddMask(w, 1)))
    BY <1>1, <1>3, OddExchanged, Zenon
  <1>5. EvenSwapped(w, 1, y, swap(w, y, 9 * 1, EvenMask(w, 1)))
    BY <1>1, <1>3, EvenExchanged, Zenon
  <1>6. 8 * 1 = 8 /\ 7 * 1 = 7 /\ 9 * 1 = 9
    OBVIOUS
  <1>7. /\ OddSwapped(w, 1, y, OddPairs(w, x))
        /\ EvenSwapped(w, 1, y, EvenPairs(w, x))
    BY <1>1, <1>4, <1>5, <1>6, MaskIs DEF OddPairs, EvenPairs
  <1>. HIDE DEF y
  <1>8. ASSUME NEW f \in Digit, w \in Words(f), NEW e \in Digit, NEW d \in Digit,
               NEW c \in Digit, NEW b \in Digit, NEW a \in Digit
        PROVE  /\ At(f, e, d, c, b, a) \in OddPairs(w, x) <=> At(f, e, 1 - a, c, b, d) \in x
               /\ At(f, e, d, c, b, a) \in EvenPairs(w, x) <=> At(f, e, a, c, b, 1 - d) \in x
    <2>1. ASSUME NEW r \in Digit, NEW t \in Digit
          PROVE  /\ At(f, e, r, c, b, t) \in 0 .. w - 1
                 /\ InRow(1, At(f, e, r, c, b, t)) <=> r = 1
                 /\ InCol(1, At(f, e, r, c, b, t)) <=> t = 1
      BY <1>8, Digits, <2>1 DEF Digit, InRow, InCol, At
    <2>2. ASSUME NEW r \in Digit, NEW t \in Digit
          PROVE  At(f, e, r, c, b, t) \in y <=> At(f, e, 1 - r, c, b, t) \in x
      <3>1. /\ At(f, e, 1, c, b, t) - 8 * 1 = At(f, e, 0, c, b, t)
            /\ At(f, e, 0, c, b, t) + 8 * 1 = At(f, e, 1, c, b, t)
        BY <1>8, <2>2 DEF At, Digit
      <3>. QED  BY <1>8, <1>2, <2>1, <2>2, <3>1 DEF Digit, RowsSwapped
    <2>3. At(f, e, d, c, b, a) \in OddPairs(w, x) <=> At(f, e, a, c, b, d) \in y
      <3>1. /\ At(f, e, 1, c, b, 0) - 7 * 1 = At(f, e, 0, c, b, 1)
            /\ At(f, e, 0, c, b, 1) + 7 * 1 = At(f, e, 1, c, b, 0)
        BY <1>8 DEF At, Digit
      <3>. QED  BY <1>8, <1>7, <2>1, <3>1 DEF Digit, OddSwapped
    <2>4. At(f, e, d, c, b, a) \in EvenPairs(w, x) <=> At(f, e, 1 - a, c, b, 1 - d) \in y
      <3>1. /\ At(f, e, 1, c, b, 1) - 9 * 1 = At(f, e, 0, c, b, 0)
            /\ At(f, e, 0, c, b, 0) + 9 * 1 = At(f, e, 1, c, b, 1)
        BY <1>8 DEF At, Digit
      <3>. QED  BY <1>8, <1>7, <2>1, <3>1 DEF Digit, EvenSwapped
    <2>5. 1 - a \in Digit /\ 1 - d \in Digit /\ 1 - (1 - a) = a
      BY <1>8 DEF Digit
    <2>. QED  BY <1>8, <2>2, <2>3, <2>4, <2>5
  <1>9. OddPairs(w, x) \in SUBSET (0 .. w - 1) /\ EvenPairs(w, x) \in SUBSET (0 .. w - 1)
    BY <1>7 DEF OddSwapped, EvenSwapped
  <1>. QED  BY <1>8, <1>9, Zenon DEF OddPairsTurned, EvenPairsTurned

(* The next two swaps do this to the second digits.                         *)
LEMMA FoursTurned ==
    ASSUME NEW w \in {32, 64}, NEW x \in SUBSET (0 .. w - 1)
    PROVE  /\ OddFoursTurned(w, x, OddFours(w, x))
           /\ EvenFoursTurned(w, x, EvenFours(w, x))
  <1>. DEFINE y == swap(w, x, 8 * 2, RowMask(w, 2))
  <1>1. w \in {32, 64} /\ 2 \in Blocks(w)
    BY DEF Blocks
  <1>2. RowsSwapped(w, 2, x, y)
    BY <1>1, RowsExchanged, Zenon
  <1>3. y \in SUBSET (0 .. w - 1)
    BY <1>2 DEF RowsSwapped
  <1>4. OddSwapped(w, 2, y, swap(w, y, 7 * 2, OddMask(w, 2)))
    BY <1>1, <1>3, OddExchanged, Zenon
  <1>5. EvenSwapped(w, 2, y, swap(w, y, 9 * 2, EvenMask(w, 2)))
    BY <1>1, <1>3, EvenExchanged, Zenon
  <1>6. 8 * 2 = 16 /\ 7 * 2 = 14 /\ 9 * 2 = 18
    OBVIOUS
  <1>7. /\ OddSwapped(w, 2, y, OddFours(w, x))
        /\ EvenSwapped(w, 2, y, EvenFours(w, x))
    BY <1>1, <1>4, <1>5, <1>6, MaskIs DEF OddFours, EvenFours
  <1>. HIDE DEF y
  <1>8. ASSUME NEW f \in Digit, w \in Words(f), NEW e \in Digit, NEW d \in Digit,
               NEW c \in Digit, NEW b \in Digit, NEW a \in Digit
        PROVE  /\ At(f, e, d, c, b, a) \in OddFours(w, x) <=> At(f, 1 - b, d, c, e, a) \in x
               /\ At(f, e, d, c, b, a) \in EvenFours(w, x) <=> At(f, b, d, c, 1 - e, a) \in x
    <2>1. ASSUME NEW r \in Digit, NEW t \in Digit
          PROVE  /\ At(f, r, d, c, t, a) \in 0 .. w - 1
                 /\ InRow(2, At(f, r, d, c, t, a)) <=> r = 1
                 /\ InCol(2, At(f, r, d, c, t, a)) <=> t = 1
      BY <1>8, Digits, <2>1 DEF Digit, InRow, InCol, At
    <2>2. ASSUME NEW r \in Digit, NEW t \in Digit
          PROVE  At(f, r, d, c, t, a) \in y <=> At(f, 1 - r, d, c, t, a) \in x
      <3>1. /\ At(f, 1, d, c, t, a) - 8 * 2 = At(f, 0, d, c, t, a)
            /\ At(f, 0, d, c, t, a) + 8 * 2 = At(f, 1, d, c, t, a)
        BY <1>8, <2>2 DEF At, Digit
      <3>. QED  BY <1>8, <1>2, <2>1, <2>2, <3>1 DEF Digit, RowsSwapped
    <2>3. At(f, e, d, c, b, a) \in OddFours(w, x) <=> At(f, b, d, c, e, a) \in y
      <3>1. /\ At(f, 1, d, c, 0, a) - 7 * 2 = At(f, 0, d, c, 1, a)
            /\ At(f, 0, d, c, 1, a) + 7 * 2 = At(f, 1, d, c, 0, a)
        BY <1>8 DEF At, Digit
      <3>. QED  BY <1>8, <1>7, <2>1, <3>1 DEF Digit, OddSwapped
    <2>4. At(f, e, d, c, b, a) \in EvenFours(w, x) <=> At(f, 1 - b, d, c, 1 - e, a) \in y
      <3>1. /\ At(f, 1, d, c, 1, a) - 9 * 2 = At(f, 0, d, c, 0, a)
            /\ At(f, 0, d, c, 0, a) + 9 * 2 = At(f, 1, d, c, 1, a)
        BY <1>8 DEF At, Digit
      <3>. QED  BY <1>8, <1>7, <2>1, <3>1 DEF Digit, EvenSwapped
    <2>5. 1 - b \in Digit /\ 1 - e \in Digit /\ 1 - (1 - b) = b
      BY <1>8 DEF Digit
    <2>. QED  BY <1>8, <2>2, <2>3, <2>4, <2>5
  <1>9. OddFours(w, x) \in SUBSET (0 .. w - 1) /\ EvenFours(w, x) \in SUBSET (0 .. w - 1)
    BY <1>7 DEF OddSwapped, EvenSwapped
  <1>. QED  BY <1>8, <1>9, Zenon DEF OddFoursTurned, EvenFoursTurned

(* The last two do it to the first ones.                                    *)
LEMMA EightsTurned ==
    ASSUME NEW x \in SUBSET (0..63)
    PROVE  /\ OddEightsTurned(x, OddEights(x))
           /\ EvenEightsTurned(x, EvenEights(x))
  <1>. DEFINE y == swap(64, x, 8 * 4, RowMask(64, 4))
  <1>1. 64 \in {32, 64} /\ 4 \in Blocks(64) /\ x \in SUBSET (0 .. 64 - 1)
    BY DEF Blocks
  <1>2. RowsSwapped(64, 4, x, y)
    BY <1>1, RowsExchanged, Zenon
  <1>3. y \in SUBSET (0..63) /\ y \in SUBSET (0 .. 64 - 1)
    BY <1>2 DEF RowsSwapped
  <1>4. OddSwapped(64, 4, y, swap(64, y, 7 * 4, OddMask(64, 4)))
    BY <1>1, <1>3, OddExchanged, Zenon
  <1>5. EvenSwapped(64, 4, y, swap(64, y, 9 * 4, EvenMask(64, 4)))
    BY <1>1, <1>3, EvenExchanged, Zenon
  <1>6. 8 * 4 = 32 /\ 7 * 4 = 28 /\ 9 * 4 = 36
    OBVIOUS
  <1>7. /\ OddSwapped(64, 4, y, OddEights(x))
        /\ EvenSwapped(64, 4, y, EvenEights(x))
    BY <1>1, <1>4, <1>5, <1>6, WideMaskIs DEF OddEights, EvenEights
  <1>. HIDE DEF y
  <1>8. ASSUME NEW f \in Digit, NEW e \in Digit, NEW d \in Digit,
               NEW c \in Digit, NEW b \in Digit, NEW a \in Digit
        PROVE  /\ At(f, e, d, c, b, a) \in OddEights(x) <=> At(1 - c, e, d, f, b, a) \in x
               /\ At(f, e, d, c, b, a) \in EvenEights(x) <=> At(c, e, d, 1 - f, b, a) \in x
    <2>1. ASSUME NEW r \in Digit, NEW t \in Digit
          PROVE  /\ At(r, e, d, t, b, a) \in 0..63
                 /\ InRow(4, At(r, e, d, t, b, a)) <=> r = 1
                 /\ InCol(4, At(r, e, d, t, b, a)) <=> t = 1
      BY <1>8, Digits, <2>1 DEF Words, Digit, InRow, InCol, At
    <2>2. ASSUME NEW r \in Digit, NEW t \in Digit
          PROVE  At(r, e, d, t, b, a) \in y <=> At(1 - r, e, d, t, b, a) \in x
      <3>1. /\ At(1, e, d, t, b, a) - 8 * 4 = At(0, e, d, t, b, a)
            /\ At(0, e, d, t, b, a) + 8 * 4 = At(1, e, d, t, b, a)
        BY <1>8, <2>2 DEF At, Digit
      <3>. QED  BY <1>8, <1>2, <2>1, <2>2, <3>1 DEF Digit, RowsSwapped
    <2>3. At(f, e, d, c, b, a) \in OddEights(x) <=> At(c, e, d, f, b, a) \in y
      <3>1. /\ At(1, e, d, 0, b, a) - 7 * 4 = At(0, e, d, 1, b, a)
            /\ At(0, e, d, 1, b, a) + 7 * 4 = At(1, e, d, 0, b, a)
        BY <1>8 DEF At, Digit
      <3>. QED  BY <1>8, <1>7, <2>1, <3>1 DEF Digit, OddSwapped
    <2>4. At(f, e, d, c, b, a) \in EvenEights(x) <=> At(1 - c, e, d, 1 - f, b, a) \in y
      <3>1. /\ At(1, e, d, 1, b, a) - 9 * 4 = At(0, e, d, 0, b, a)
            /\ At(0, e, d, 0, b, a) + 9 * 4 = At(1, e, d, 1, b, a)
        BY <1>8 DEF At, Digit
      <3>. QED  BY <1>8, <1>7, <2>1, <3>1 DEF Digit, EvenSwapped
    <2>5. 1 - c \in Digit /\ 1 - f \in Digit /\ 1 - (1 - c) = c
      BY <1>8 DEF Digit
    <2>. QED  BY <1>8, <2>2, <2>3, <2>4, <2>5
  <1>9. OddEights(x) \in SUBSET (0..63) /\ EvenEights(x) \in SUBSET (0..63)
    BY <1>7 DEF OddSwapped, EvenSwapped
  <1>. QED  BY <1>8, <1>9, Zenon DEF OddEightsTurned, EvenEightsTurned

-----------------------------------------------------------------------------
(* Reversal                                                                 *)

(* A constant of one byte is the same in all bytes. *)
LEMMA MasksOfOne ==
    ASSUME NEW w \in {32, 64}, NEW X
    PROVE  Mask(w, <<X>>) = {k \in 0 .. w - 1 : k % 8 \in X}
  <1>1. \A k \in 0 .. w - 1 : (k \div 8) % 1 = 0
    OBVIOUS
  <1>2. Len(<<X>>) = 1 /\ <<X>>[1 - 0] = X
    OBVIOUS
  <1>. QED  BY <1>1, <1>2 DEF Mask

(* The upper ones of each 2n bits. *)
UpperMask(w, n) == {k \in 0 .. w - 1 : (k \div n) % 2 = 1}

(* The constants of the reversal.                                           *)
LEMMA UpperMaskIs ==
    ASSUME NEW w \in {32, 64}
    PROVE  /\ Mask(w, <<xFF, xFF, x00, x00>>) = UpperMask(w, 16)
           /\ Mask(w, <<xFF, x00>>) = UpperMask(w, 8)
           /\ Mask(w, <<xF0>>) = UpperMask(w, 4)
           /\ Mask(w, <<xCC>>) = UpperMask(w, 2)
           /\ Mask(w, <<xAA>>) = UpperMask(w, 1)
  <1>1. \A k \in 0 .. w - 1 : k \in 0..63
    OBVIOUS
  <1>2. RowMask(w, 2) = UpperMask(w, 16) /\ RowMask(w, 1) = UpperMask(w, 8)
    BY DEF RowMask, UpperMask, InRow
  <1>3. /\ Mask(w, <<xF0>>) = UpperMask(w, 4)
        /\ Mask(w, <<xCC>>) = UpperMask(w, 2)
        /\ Mask(w, <<xAA>>) = UpperMask(w, 1)
    BY <1>1, Columns, MasksOfOne DEF UpperMask, InCol
  <1>. QED  BY <1>2, <1>3, MaskIs

(* Groups of n bits change places with their neighbours. *)
Neighbour(n, k) == IF (k \div n) % 2 = 1 THEN k - n ELSE k + n
Neighbours(w, n, x, y) ==
    /\ y \in SUBSET (0 .. w - 1)
    /\ \A k \in 0 .. w - 1 : k \in y <=> Neighbour(n, k) \in x

(* Each line of the reversal exchanges groups of bits.                      *)
LEMMA NeighboursExchanged ==
    ASSUME NEW w \in {32, 64}, NEW n \in {1, 2, 4, 8, 16}, NEW x \in SUBSET (0 .. w - 1),
           NEW upper, Mask(w, upper) = UpperMask(w, n)
    PROVE  Neighbours(w, n, x, Exchanged(w, x, n, upper))
  <1>. DEFINE y == Exchanged(w, x, n, upper)
              m == UpperMask(w, n)
  <1>1. m \subseteq 0 .. w - 1 /\ n \in 1..16 /\ w \in Nat
    BY DEF UpperMask
  <1>2. /\ \A k \in m : k - n >= 0 /\ k - n \notin m
        /\ \A k \in 0 .. w - 1 : k \notin m => k + n \in m
    <2>1. CASE n = 1 BY <2>1 DEF UpperMask
    <2>2. CASE n = 2 BY <2>2 DEF UpperMask
    <2>3. CASE n = 4 BY <2>3 DEF UpperMask
    <2>4. CASE n = 8 BY <2>4 DEF UpperMask
    <2>5. CASE n = 16 BY <2>5 DEF UpperMask
    <2>. QED  BY <2>1, <2>2, <2>3, <2>4, <2>5
  <1>3. \A k \in 0 .. w - 1 : k \in m <=> (k \div n) % 2 = 1
    BY DEF UpperMask
  <1>. HIDE DEF m
  <1>4. y = {k - n : k \in {j \in x \cap m : j >= n}} \cup {k + n : k \in {j \in x \ m : j + n < w}}
    BY DEF m, Exchanged, Shl, Shr
  <1>. HIDE DEF y
  <1>5. y \subseteq 0 .. w - 1
    BY <1>1, <1>4
  <1>6. ASSUME NEW k \in 0 .. w - 1 PROVE k \in y <=> Neighbour(n, k) \in x
    <2>1. CASE k \in m
      <3>1. \A j \in x \cap m : j - n # k
        BY <1>1, <1>2, <2>1
      <3>2. k - n \in 0 .. w - 1 /\ k - n \notin m /\ (k - n) + n = k
        BY <1>1, <1>2, <2>1
      <3>3. k \in y <=> k - n \in x
        BY <1>1, <1>4, <3>1, <3>2
      <3>. QED  BY <1>3, <2>1, <3>3 DEF Neighbour
    <2>2. CASE k \notin m
      <3>1. k + n \in m /\ (k + n) - n = k /\ k + n >= n
        BY <1>1, <1>2, <2>2
      <3>2. \A j \in x \ m : j + n # k
        BY <1>1, <1>2, <2>2
      <3>3. k \in y <=> k + n \in x
        BY <1>1, <1>4, <3>1, <3>2
      <3>. QED  BY <1>3, <2>2, <3>3 DEF Neighbour
    <2>. QED  BY <2>1, <2>2
  <1>. QED  BY <1>5, <1>6 DEF y, Neighbours

(* The first line, which only a 64 bit machine has, exchanges the two       *)
(* halves.                                                                  *)
LEMMA HalvesExchanged ==
    ASSUME NEW x \in SUBSET (0..63)
    PROVE  Neighbours(64, 32, x, Shr(x, 32) \cup Shl(64, x, 32))
  <1>. DEFINE y == Shr(x, 32) \cup Shl(64, x, 32)
  <1>1. y = {k - 32 : k \in {j \in x : j >= 32}} \cup {k + 32 : k \in {j \in x : j + 32 < 64}}
    BY DEF Shl, Shr
  <1>. HIDE DEF y
  <1>2. y \subseteq 0 .. 64 - 1
    BY <1>1
  <1>3. ASSUME NEW k \in 0 .. 64 - 1 PROVE k \in y <=> Neighbour(32, k) \in x
    <2>1. CASE k < 32
      <3>1. k \in y <=> k + 32 \in x
        BY <1>1, <2>1
      <3>2. (k \div 32) % 2 = 0
        BY <2>1
      <3>. QED  BY <3>1, <3>2 DEF Neighbour
    <2>2. CASE k >= 32
      <3>1. k \in y <=> k - 32 \in x
        BY <1>1, <2>2
      <3>2. (k \div 32) % 2 = 1
        BY <2>2
      <3>. QED  BY <3>1, <3>2 DEF Neighbour
    <2>. QED  BY <2>1, <2>2
  <1>. QED  BY <1>2, <1>3 DEF y, Neighbours

(* All exchanges together: the first bit becomes the last.                  *)
LEMMA NeighbourOf ==
    ASSUME NEW k \in 0..63
    PROVE  /\ Neighbour(1, k) = k + 1 - 2 * (k % 2)
           /\ Neighbour(2, k + 1 - 2 * (k % 2)) = k + 3 - 2 * (k % 4)
           /\ Neighbour(4, k + 3 - 2 * (k % 4)) = k + 7 - 2 * (k % 8)
           /\ Neighbour(8, k + 7 - 2 * (k % 8)) = k + 15 - 2 * (k % 16)
           /\ Neighbour(16, k + 15 - 2 * (k % 16)) = k + 31 - 2 * (k % 32)
           /\ Neighbour(32, k + 31 - 2 * (k % 32)) = 63 - k
           /\ k < 32 => k + 31 - 2 * (k % 32) = 31 - k
  BY DEF Neighbour

(* The reversal moves the first bit to where the last one was.              *)
LEMMA ReversalIs ==
    ASSUME NEW w \in {32, 64}, NEW x \in SUBSET (0 .. w - 1)
    PROVE  /\ Reversal(w, x) \in SUBSET (0 .. w - 1)
           /\ \A k \in 0 .. w - 1 : k \in Reversal(w, x) <=> w - 1 - k \in x
  <1>. DEFINE x32 == IF w = 64 THEN Shr(x, 32) \cup Shl(w, x, 32) ELSE x
              x16 == Exchanged(w, x32, 16, <<xFF, xFF, x00, x00>>)
              x8  == Exchanged(w, x16, 8, <<xFF, x00>>)
              x4  == Exchanged(w, x8, 4, <<xF0>>)
              x2  == Exchanged(w, x4, 2, <<xCC>>)
              x1  == Exchanged(w, x2, 1, <<xAA>>)
  <1>1. Reversal(w, x) = x1
    BY Zenon DEF Reversal
  <1>2. \A k \in 0 .. w - 1 : k \in 0..63
    OBVIOUS
  <1>3. /\ x32 \in SUBSET (0 .. w - 1)
        /\ \A i \in 0 .. w - 1 : i \in x32 <=> (IF w = 64 THEN Neighbour(32, i) ELSE i) \in x
    BY HalvesExchanged DEF Neighbours
  <1>. HIDE DEF x32
  <1>4. Neighbours(w, 16, x32, x16) /\ x16 \in SUBSET (0 .. w - 1)
    <2>1. Mask(w, <<xFF, xFF, x00, x00>>) = UpperMask(w, 16) /\ 16 \in {1, 2, 4, 8, 16}
      BY UpperMaskIs
    <2>2. Neighbours(w, 16, x32, x16)
      BY <1>3, <2>1, NeighboursExchanged, Zenon
    <2>. QED  BY <2>2 DEF Neighbours
  <1>5. Neighbours(w, 8, x16, x8) /\ x8 \in SUBSET (0 .. w - 1)
    <2>1. Mask(w, <<xFF, x00>>) = UpperMask(w, 8) /\ 8 \in {1, 2, 4, 8, 16}
      BY UpperMaskIs
    <2>2. Neighbours(w, 8, x16, x8)
      BY <1>4, <2>1, NeighboursExchanged, Zenon
    <2>. QED  BY <2>2 DEF Neighbours
  <1>6. Neighbours(w, 4, x8, x4) /\ x4 \in SUBSET (0 .. w - 1)
    <2>1. Mask(w, <<xF0>>) = UpperMask(w, 4) /\ 4 \in {1, 2, 4, 8, 16}
      BY UpperMaskIs
    <2>2. Neighbours(w, 4, x8, x4)
      BY <1>5, <2>1, NeighboursExchanged, Zenon
    <2>. QED  BY <2>2 DEF Neighbours
  <1>7. Neighbours(w, 2, x4, x2) /\ x2 \in SUBSET (0 .. w - 1)
    <2>1. Mask(w, <<xCC>>) = UpperMask(w, 2) /\ 2 \in {1, 2, 4, 8, 16}
      BY UpperMaskIs
    <2>2. Neighbours(w, 2, x4, x2)
      BY <1>6, <2>1, NeighboursExchanged, Zenon
    <2>. QED  BY <2>2 DEF Neighbours
  <1>8. Neighbours(w, 1, x2, x1) /\ x1 \in SUBSET (0 .. w - 1)
    <2>1. Mask(w, <<xAA>>) = UpperMask(w, 1) /\ 1 \in {1, 2, 4, 8, 16}
      BY UpperMaskIs
    <2>2. Neighbours(w, 1, x2, x1)
      BY <1>7, <2>1, NeighboursExchanged, Zenon
    <2>. QED  BY <2>2 DEF Neighbours
  <1>. HIDE DEF x16, x8, x4, x2, x1
  <1>9. ASSUME NEW k \in 0 .. w - 1 PROVE k \in x1 <=> w - 1 - k \in x
    <2>1. k \in x1 <=> k + 1 - 2 * (k % 2) \in x2
      <3>1. k \in 0 .. w - 1
        BY <1>9
      <3>. QED  BY <1>8, <1>2, <3>1, NeighbourOf DEF Neighbours
    <2>2. k + 1 - 2 * (k % 2) \in x2 <=> k + 3 - 2 * (k % 4) \in x4
      <3>1. k + 1 - 2 * (k % 2) \in 0 .. w - 1
        BY <1>9
      <3>. QED  BY <1>7, <1>2, <3>1, NeighbourOf DEF Neighbours
    <2>3. k + 3 - 2 * (k % 4) \in x4 <=> k + 7 - 2 * (k % 8) \in x8
      <3>1. k + 3 - 2 * (k % 4) \in 0 .. w - 1
        BY <1>9
      <3>. QED  BY <1>6, <1>2, <3>1, NeighbourOf DEF Neighbours
    <2>4. k + 7 - 2 * (k % 8) \in x8 <=> k + 15 - 2 * (k % 16) \in x16
      <3>1. k + 7 - 2 * (k % 8) \in 0 .. w - 1
        BY <1>9
      <3>. QED  BY <1>5, <1>2, <3>1, NeighbourOf DEF Neighbours
    <2>5. k + 15 - 2 * (k % 16) \in x16 <=> k + 31 - 2 * (k % 32) \in x32
      <3>1. k + 15 - 2 * (k % 16) \in 0 .. w - 1
        BY <1>9
      <3>. QED  BY <1>4, <1>2, <3>1, NeighbourOf DEF Neighbours
    <2>6. k + 31 - 2 * (k % 32) \in x32 <=> w - 1 - k \in x
      <3>1. k + 31 - 2 * (k % 32) \in 0 .. w - 1
        BY <1>9
      <3>. QED  BY <1>2, <1>3, <3>1, NeighbourOf
    <2>. QED  BY <2>1, <2>2, <2>3, <2>4, <2>5, <2>6
  <1>. QED  BY <1>1, <1>8, <1>9

-----------------------------------------------------------------------------
(* Reading and writing words                                                *)

(* The row that byte j of a word of n bytes is, if the first is row first. *)
RowOf(big, first, n, j) == first + (IF big THEN n - 1 - j ELSE j)
Parts == {<<0, 8>>, <<0, 4>>, <<4, 4>>}

(* Bit i of byte j of the word that is read is column i of its row.         *)
LEMMA LoadReads ==
    ASSUME NEW m \in AllMaps, NEW big \in BOOLEAN, NEW first, NEW n, <<first, n>> \in Parts
    PROVE  /\ Load(m, big, first, n) \in SUBSET (0 .. 8 * n - 1)
           /\ \A i \in 0..7, j \in 0 .. n - 1 :
                8 * j + i \in Load(m, big, first, n) <=> <<i, RowOf(big, first, n, j)>> \in m
  <1>1. n \in {4, 8} /\ first \in {0, 4} /\ first + n <= 8
    BY DEF Parts
  <1>. DEFINE Place(p) == 8 * (IF big THEN n - 1 - (p[2] - first) ELSE p[2] - first) + p[1]
              Here == {q \in m : q[2] \in first .. first + n - 1}
  <1>2. Load(m, big, first, n) = {Place(p) : p \in Here}
    BY DEF Load
  <1>3. \A p \in Here : p[1] \in 0..7 /\ p[2] \in first .. first + n - 1 /\ p = <<p[1], p[2]>>
    BY DEF AllMaps
  <1>4. ASSUME NEW p \in Here PROVE Place(p) \in 0 .. 8 * n - 1
    <2>1. PICK i, j : i = p[1] /\ j = p[2]
      OBVIOUS
    <2>2. i \in 0..7 /\ j \in first .. first + n - 1
      BY <1>3, <2>1
    <2>. QED  BY <1>1, <2>1, <2>2
  <1>5. ASSUME NEW i \in 0..7, NEW j \in 0 .. n - 1
        PROVE  8 * j + i \in {Place(p) : p \in Here} <=> <<i, RowOf(big, first, n, j)>> \in m
    <2>1. ASSUME <<i, RowOf(big, first, n, j)>> \in m
          PROVE  8 * j + i \in {Place(p) : p \in Here}
      <3>1. RowOf(big, first, n, j) \in first .. first + n - 1
        BY <1>1 DEF RowOf
      <3>2. Place(<<i, RowOf(big, first, n, j)>>) = 8 * j + i
        BY <1>1 DEF RowOf
      <3>. QED  BY <2>1, <3>1, <3>2
    <2>2. ASSUME NEW p \in Here, 8 * j + i = Place(p)
          PROVE  p = <<i, RowOf(big, first, n, j)>>
      <3>1. PICK k, l : k = p[1] /\ l = p[2]
        OBVIOUS
      <3>2. k \in 0..7 /\ l \in first .. first + n - 1
        BY <1>3, <3>1
      <3>3. 8 * j + i = 8 * (IF big THEN n - 1 - (l - first) ELSE l - first) + k
        BY <2>2, <3>1
      <3>4. i = k /\ l = RowOf(big, first, n, j)
        BY <1>1, <3>2, <3>3 DEF RowOf
      <3>. QED  BY <1>3, <3>1, <3>4
    <2>. QED  BY <2>1, <2>2
  <1>. QED  BY <1>2, <1>4, <1>5

(* Which byte a bit is in, and which of its bits it is. *)
LEMMA ByteAndBit ==
    ASSUME NEW k \in 0..63
    PROVE  /\ k % 8 \in 0..7 /\ k \div 8 \in 0..7 /\ k = 8 * (k \div 8) + (k % 8)
           /\ k < 32 => k \div 8 \in 0..3
  OBVIOUS

(* Writing a word is the inverse of reading it.                             *)
LEMMA StoreWrites ==
    ASSUME NEW big \in BOOLEAN, NEW first, NEW n, <<first, n>> \in Parts,
           NEW x \in SUBSET (0 .. 8 * n - 1)
    PROVE  /\ Store(x, big, first, n) \subseteq (0..7) \X (first .. first + n - 1)
           /\ \A i \in 0..7, j \in 0 .. n - 1 :
                <<i, RowOf(big, first, n, j)>> \in Store(x, big, first, n) <=> 8 * j + i \in x
  <1>1. n \in {4, 8} /\ first \in {0, 4} /\ first + n <= 8
    BY DEF Parts
  <1>2. ASSUME NEW k \in 0 .. 8 * n - 1
        PROVE  k % 8 \in 0..7 /\ k \div 8 \in 0 .. n - 1 /\ k = 8 * (k \div 8) + (k % 8)
    <2>1. k \in 0..63 /\ k < 8 * n
      BY <1>1, <1>2
    <2>. QED  BY <1>1, <2>1, ByteAndBit
  <1>3. Store(x, big, first, n) = {<<k % 8, RowOf(big, first, n, k \div 8)>> : k \in x}
    <2>1. \A k \in x : first + (IF big THEN n - 1 - (k \div 8) ELSE k \div 8) = RowOf(big, first, n, k \div 8)
      BY DEF RowOf
    <2>2. \A k : first + (IF big THEN n - 1 - (k \div 8) ELSE k \div 8)
              = (IF big THEN first + (n - 1 - (k \div 8)) ELSE first + (k \div 8))
      OBVIOUS
    <2>. QED  BY <2>1, <2>2 DEF Store
  <1>4. \A j \in 0 .. n - 1 : RowOf(big, first, n, j) \in first .. first + n - 1
    BY <1>1 DEF RowOf
  <1>5. \A j, l \in 0 .. n - 1 : RowOf(big, first, n, j) = RowOf(big, first, n, l) => j = l
    BY <1>1 DEF RowOf
  <1>6. \A i \in 0..7, j \in 0 .. n - 1 :
          8 * j + i \in 0 .. 8 * n - 1 /\ (8 * j + i) % 8 = i /\ (8 * j + i) \div 8 = j
    BY <1>1
  <1>7. \A i \in 0..7, j \in 0 .. n - 1 :
          <<i, RowOf(big, first, n, j)>> \in {<<k % 8, RowOf(big, first, n, k \div 8)>> : k \in x}
            <=> 8 * j + i \in x
    <2>1. SUFFICES ASSUME NEW i \in 0..7, NEW j \in 0 .. n - 1
                   PROVE  (\E k \in x : <<i, RowOf(big, first, n, j)>>
                                         = <<k % 8, RowOf(big, first, n, k \div 8)>>)
                            <=> 8 * j + i \in x
      OBVIOUS
    <2>2. ASSUME 8 * j + i \in x
          PROVE  \E k \in x : i = k % 8 /\ j = k \div 8
      BY <1>6, <2>2
    <2>3. ASSUME NEW k \in x, i = k % 8, RowOf(big, first, n, j) = RowOf(big, first, n, k \div 8)
          PROVE  8 * j + i \in x
      <3>1. k \div 8 \in 0 .. n - 1 /\ k = 8 * (k \div 8) + (k % 8)
        BY <1>2
      <3>2. j = k \div 8
        BY <1>5, <2>3, <3>1
      <3>. QED  BY <2>3, <3>1, <3>2
    <2>. QED  BY <2>2, <2>3
  <1>. QED  BY <1>2, <1>3, <1>4, <1>7

-----------------------------------------------------------------------------
(* Words of a map                                                           *)

(* What becomes of the rows of a map read as one word: bit i of byte j.     *)
OddTurned(x, y) ==
    /\ y \in SUBSET (0 .. 8 * 8 - 1)
    /\ \A i, j \in 0..7 : 8 * j + i \in y <=> 8 * (7 - i) + j \in x
EvenTurned(x, y) ==
    /\ y \in SUBSET (0 .. 8 * 8 - 1)
    /\ \A i, j \in 0..7 : 8 * j + i \in y <=> 8 * i + (7 - j) \in x

(* All six swaps exchange byte and bit and mirror one of them.              *)
LEMMA WholeTurned ==
    ASSUME NEW m \in AllMaps, NEW big \in BOOLEAN
    PROVE  /\ OddTurned(Load(m, big, 0, 8), Whole(m, big, TRUE))
           /\ EvenTurned(Load(m, big, 0, 8), Whole(m, big, FALSE))
  <1>. DEFINE x == Load(m, big, 0, 8)
  <1>1. x \in SUBSET (0 .. 64 - 1)
    <2>1. <<0, 8>> \in Parts /\ 8 * 8 - 1 = 64 - 1
      BY DEF Parts
    <2>. QED  BY <2>1, LoadReads
  <1>2. 64 \in {32, 64} /\ 0..63 = 0 .. 64 - 1 /\ 0 .. 8 * 8 - 1 = 0..63
    OBVIOUS
  <1>3. \A k \in Digit : 1 - k \in Digit /\ 64 \in Words(k)
    BY DEF Digit, Words
  <1>4. OddTurned(x, Whole(m, big, TRUE))
    <2>. DEFINE y == OddPairs(64, x)
                z == OddFours(64, y)
                v == OddEights(z)
    <2>1. Whole(m, big, TRUE) = v
      BY DEF Whole
    <2>. HIDE DEF x
    <2>2. OddPairsTurned(64, x, y)
      BY <1>1, <1>2, PairsTurned, Zenon
    <2>3. y \in SUBSET (0 .. 64 - 1)
      BY <2>2 DEF OddPairsTurned
    <2>. HIDE DEF y
    <2>4. OddFoursTurned(64, y, z)
      BY <1>2, <2>3, FoursTurned, Zenon
    <2>5. z \in SUBSET (0..63)
      BY <1>2, <2>4 DEF OddFoursTurned
    <2>. HIDE DEF z
    <2>6. OddEightsTurned(z, v)
      BY <2>5, EightsTurned, Zenon
    <2>. HIDE DEF v
    <2>7. v \in SUBSET (0 .. 8 * 8 - 1)
      BY <1>2, <2>6 DEF OddEightsTurned
    <2>8. ASSUME NEW i \in 0..7, NEW j \in 0..7
          PROVE  8 * j + i \in v <=> 8 * (7 - i) + j \in x
      <3>1. PICK c, b, a \in Digit : i = 4*c + 2*b + a
        BY EightNumbers
      <3>2. PICK f, e, d \in Digit : j = 4*f + 2*e + d
        BY EightNumbers
      <3>3. At(1 - c, 1 - b, d, f, e, a) \in y <=> At(1 - c, 1 - b, 1 - a, f, e, d) \in x
        BY <1>3, <2>2 DEF OddPairsTurned
      <3>4. At(1 - c, e, d, f, b, a) \in z <=> At(1 - c, 1 - b, d, f, e, a) \in y
        BY <1>3, <2>4 DEF OddFoursTurned
      <3>5. At(f, e, d, c, b, a) \in v <=> At(1 - c, e, d, f, b, a) \in z
        BY <1>3, <2>6 DEF OddEightsTurned
      <3>6. 8 * j + i = At(f, e, d, c, b, a) /\ 8 * (7 - i) + j = At(1 - c, 1 - b, 1 - a, f, e, d)
        BY <3>1, <3>2 DEF At, Digit
      <3>. QED  BY <3>3, <3>4, <3>5, <3>6
    <2>. QED  BY <2>1, <2>7, <2>8 DEF OddTurned
  <1>5. EvenTurned(x, Whole(m, big, FALSE))
    <2>. DEFINE y == EvenPairs(64, x)
                z == EvenFours(64, y)
                v == EvenEights(z)
    <2>1. Whole(m, big, FALSE) = v
      BY DEF Whole
    <2>. HIDE DEF x
    <2>2. EvenPairsTurned(64, x, y)
      BY <1>1, <1>2, PairsTurned, Zenon
    <2>3. y \in SUBSET (0 .. 64 - 1)
      BY <2>2 DEF EvenPairsTurned
    <2>. HIDE DEF y
    <2>4. EvenFoursTurned(64, y, z)
      BY <1>2, <2>3, FoursTurned, Zenon
    <2>5. z \in SUBSET (0..63)
      BY <1>2, <2>4 DEF EvenFoursTurned
    <2>. HIDE DEF z
    <2>6. EvenEightsTurned(z, v)
      BY <2>5, EightsTurned, Zenon
    <2>. HIDE DEF v
    <2>7. v \in SUBSET (0 .. 8 * 8 - 1)
      BY <1>2, <2>6 DEF EvenEightsTurned
    <2>8. ASSUME NEW i \in 0..7, NEW j \in 0..7
          PROVE  8 * j + i \in v <=> 8 * i + (7 - j) \in x
      <3>1. PICK c, b, a \in Digit : i = 4*c + 2*b + a
        BY EightNumbers
      <3>2. PICK f, e, d \in Digit : j = 4*f + 2*e + d
        BY EightNumbers
      <3>3. At(c, b, d, 1 - f, 1 - e, a) \in y <=> At(c, b, a, 1 - f, 1 - e, 1 - d) \in x
        BY <1>3, <2>2 DEF EvenPairsTurned
      <3>4. At(c, e, d, 1 - f, b, a) \in z <=> At(c, b, d, 1 - f, 1 - e, a) \in y
        BY <1>3, <2>4 DEF EvenFoursTurned
      <3>5. At(f, e, d, c, b, a) \in v <=> At(c, e, d, 1 - f, b, a) \in z
        BY <1>3, <2>6 DEF EvenEightsTurned
      <3>6. 8 * j + i = At(f, e, d, c, b, a) /\ 8 * i + (7 - j) = At(c, b, a, 1 - f, 1 - e, 1 - d)
        BY <3>1, <3>2 DEF At, Digit
      <3>. QED  BY <3>3, <3>4, <3>5, <3>6
    <2>. QED  BY <2>1, <2>7, <2>8 DEF EvenTurned
  <1>. QED  BY <1>4, <1>5

(* The same of half a map: bit 4c + h of byte l, where h and l are below 4. *)
OddHalfTurned(x, y) ==
    /\ y \in SUBSET (0 .. 8 * 4 - 1)
    /\ \A c \in Digit, h, l \in 0..3 :
         8 * l + 4 * c + h \in y <=> 8 * (3 - h) + 4 * c + l \in x
EvenHalfTurned(x, y) ==
    /\ y \in SUBSET (0 .. 8 * 4 - 1)
    /\ \A c \in Digit, h, l \in 0..3 :
         8 * l + 4 * c + h \in y <=> 8 * h + 4 * c + (3 - l) \in x

(* The first four do it within each quarter of the map.                     *)
LEMMA HalfTurned ==
    ASSUME NEW m \in AllMaps, NEW big \in BOOLEAN, NEW first \in {0, 4}
    PROVE  /\ OddHalfTurned(Load(m, big, first, 4), Half(m, big, first, TRUE))
           /\ EvenHalfTurned(Load(m, big, first, 4), Half(m, big, first, FALSE))
  <1>. DEFINE x == Load(m, big, first, 4)
  <1>1. x \in SUBSET (0 .. 32 - 1)
    <2>1. <<first, 4>> \in Parts /\ 8 * 4 - 1 = 32 - 1
      BY DEF Parts
    <2>. QED  BY <2>1, LoadReads
  <1>2. 32 \in {32, 64} /\ 0 .. 8 * 4 - 1 = 0 .. 32 - 1
    OBVIOUS
  <1>3. 0 \in Digit /\ 32 \in Words(0) /\ \A k \in Digit : 1 - k \in Digit
    BY DEF Digit, Words
  <1>4. \A n \in 0..3 : \E u, v \in Digit : n = 2*u + v
    <2>1. 0 \in Digit /\ 1 \in Digit
      BY DEF Digit
    <2>2. 0 = 2*0 + 0 /\ 1 = 2*0 + 1 /\ 2 = 2*1 + 0 /\ 3 = 2*1 + 1
      OBVIOUS
    <2>3. \A n \in 0..3 : n = 0 \/ n = 1 \/ n = 2 \/ n = 3
      OBVIOUS
    <2>. QED  BY <2>1, <2>2, <2>3, Zenon
  <1>5. OddHalfTurned(x, Half(m, big, first, TRUE))
    <2>. DEFINE y == OddPairs(32, x)
                z == OddFours(32, y)
    <2>1. Half(m, big, first, TRUE) = z
      BY DEF Half
    <2>. HIDE DEF x
    <2>2. OddPairsTurned(32, x, y)
      BY <1>1, <1>2, PairsTurned, Zenon
    <2>3. y \in SUBSET (0 .. 32 - 1)
      BY <2>2 DEF OddPairsTurned
    <2>. HIDE DEF y
    <2>4. OddFoursTurned(32, y, z)
      BY <1>2, <2>3, FoursTurned, Zenon
    <2>. HIDE DEF z
    <2>5. z \in SUBSET (0 .. 8 * 4 - 1)
      BY <1>2, <2>4 DEF OddFoursTurned
    <2>6. ASSUME NEW c \in Digit, NEW h \in 0..3, NEW l \in 0..3
          PROVE  8 * l + 4 * c + h \in z <=> 8 * (3 - h) + 4 * c + l \in x
      <3>1. PICK b, a \in Digit : h = 2*b + a
        BY <1>4
      <3>2. PICK e, d \in Digit : l = 2*e + d
        BY <1>4
      <3>3. At(0, 1 - b, d, c, e, a) \in y <=> At(0, 1 - b, 1 - a, c, e, d) \in x
        BY <1>3, <2>2, <2>6 DEF OddPairsTurned
      <3>4. At(0, e, d, c, b, a) \in z <=> At(0, 1 - b, d, c, e, a) \in y
        BY <1>3, <2>4, <2>6 DEF OddFoursTurned
      <3>5. 8 * l + 4 * c + h = At(0, e, d, c, b, a) /\ 8 * (3 - h) + 4 * c + l = At(0, 1 - b, 1 - a, c, e, d)
        BY <2>6, <3>1, <3>2 DEF At, Digit
      <3>. QED  BY <3>3, <3>4, <3>5
    <2>. QED  BY <2>1, <2>5, <2>6 DEF OddHalfTurned
  <1>6. EvenHalfTurned(x, Half(m, big, first, FALSE))
    <2>. DEFINE y == EvenPairs(32, x)
                z == EvenFours(32, y)
    <2>1. Half(m, big, first, FALSE) = z
      BY DEF Half
    <2>. HIDE DEF x
    <2>2. EvenPairsTurned(32, x, y)
      BY <1>1, <1>2, PairsTurned, Zenon
    <2>3. y \in SUBSET (0 .. 32 - 1)
      BY <2>2 DEF EvenPairsTurned
    <2>. HIDE DEF y
    <2>4. EvenFoursTurned(32, y, z)
      BY <1>2, <2>3, FoursTurned, Zenon
    <2>. HIDE DEF z
    <2>5. z \in SUBSET (0 .. 8 * 4 - 1)
      BY <1>2, <2>4 DEF EvenFoursTurned
    <2>6. ASSUME NEW c \in Digit, NEW h \in 0..3, NEW l \in 0..3
          PROVE  8 * l + 4 * c + h \in z <=> 8 * h + 4 * c + (3 - l) \in x
      <3>1. PICK b, a \in Digit : h = 2*b + a
        BY <1>4
      <3>2. PICK e, d \in Digit : l = 2*e + d
        BY <1>4
      <3>3. At(0, b, d, c, 1 - e, a) \in y <=> At(0, b, a, c, 1 - e, 1 - d) \in x
        BY <1>3, <2>2, <2>6 DEF EvenPairsTurned
      <3>4. At(0, e, d, c, b, a) \in z <=> At(0, b, d, c, 1 - e, a) \in y
        BY <1>3, <2>4, <2>6 DEF EvenFoursTurned
      <3>5. 8 * l + 4 * c + h = At(0, e, d, c, b, a) /\ 8 * h + 4 * c + (3 - l) = At(0, b, a, c, 1 - e, 1 - d)
        BY <2>6, <3>1, <3>2 DEF At, Digit
      <3>. QED  BY <3>3, <3>4, <3>5
    <2>. QED  BY <2>1, <2>5, <2>6 DEF EvenHalfTurned
  <1>. QED  BY <1>5, <1>6

(* The byte of a word of n bytes that is row r of those read. *)
ByteOfRow(big, n, r) == IF big THEN n - 1 - r ELSE r

(* Reading and writing by the rows of the map.                              *)
LEMMA PointsOfWords ==
    ASSUME NEW big \in BOOLEAN, NEW first, NEW n, <<first, n>> \in Parts
    PROVE  /\ \A m \in AllMaps : \A i \in 0..7, r \in 0 .. n - 1 :
                8 * ByteOfRow(big, n, r) + i \in Load(m, big, first, n)
                  <=> <<i, first + r>> \in m
           /\ \A x \in SUBSET (0 .. 8 * n - 1) : \A i \in 0..7, r \in 0 .. n - 1 :
                <<i, first + r>> \in Store(x, big, first, n)
                  <=> 8 * ByteOfRow(big, n, r) + i \in x
  <1>1. n \in {4, 8} /\ first \in {0, 4}
    BY DEF Parts
  <1>2. \A r \in 0 .. n - 1 : /\ ByteOfRow(big, n, r) \in 0 .. n - 1
                              /\ RowOf(big, first, n, ByteOfRow(big, n, r)) = first + r
    BY <1>1 DEF ByteOfRow, RowOf
  <1>3. ASSUME NEW m \in AllMaps, NEW i \in 0..7, NEW r \in 0 .. n - 1
        PROVE  8 * ByteOfRow(big, n, r) + i \in Load(m, big, first, n)
                 <=> <<i, first + r>> \in m
    BY <1>2, <1>3, LoadReads
  <1>4. ASSUME NEW x \in SUBSET (0 .. 8 * n - 1), NEW i \in 0..7, NEW r \in 0 .. n - 1
        PROVE  <<i, first + r>> \in Store(x, big, first, n)
                 <=> 8 * ByteOfRow(big, n, r) + i \in x
    BY <1>2, <1>4, StoreWrites
  <1>. QED  BY <1>3, <1>4

(* The swaps turn a whole map, and half a map but for the columns that are  *)
(* left to the other half.                                                  *)
WholeMap(m, big, x, y) ==
    /\ x \in SUBSET (0 .. 8 * 8 - 1) /\ y \in SUBSET (0 .. 8 * 8 - 1)
    /\ \A i, r \in 0..7 : 8 * ByteOfRow(big, 8, r) + i \in x <=> <<7 - r, i>> \in m
    /\ \A i, r \in 0..7 : 8 * ByteOfRow(big, 8, r) + i \in y <=> <<r, 7 - i>> \in m

(* With the swaps the byte order asks for, the word is the turned map.      *)
LEMMA WholeMapTurned ==
    ASSUME NEW m \in AllMaps, NEW big \in BOOLEAN
    PROVE  WholeMap(m, big, Whole(m, big, big), Whole(m, big, ~big))
  <1>. DEFINE x == Load(m, big, 0, 8)
              o == Whole(m, big, TRUE)
              e == Whole(m, big, FALSE)
  <1>1. OddTurned(x, o) /\ EvenTurned(x, e)
    BY WholeTurned, Zenon
  <1>2. ASSUME NEW i \in 0..7, NEW r \in 0..7
        PROVE  8 * ByteOfRow(big, 8, r) + i \in x <=> <<i, r>> \in m
    <2>1. <<0, 8>> \in Parts /\ 8 - 1 = 7 /\ 0 + r = r
      BY DEF Parts
    <2>2. 8 * ByteOfRow(big, 8, r) + i \in x <=> <<i, 0 + r>> \in m
      BY <2>1, PointsOfWords
    <2>. QED  BY <2>1, <2>2
  <1>. HIDE DEF x
  <1>3. CASE big = TRUE
    <2>1. Whole(m, big, big) = o /\ Whole(m, big, ~big) = e
      BY <1>3
    <2>. HIDE DEF o, e
    <2>2. \A r \in 0..7 : ByteOfRow(big, 8, r) = 7 - r /\ 7 - r \in 0..7 /\ 7 - (7 - r) = r
      BY <1>3 DEF ByteOfRow
    <2>3. ASSUME NEW i \in 0..7, NEW r \in 0..7
          PROVE  8 * (7 - r) + i \in o <=> <<7 - r, i>> \in m
      <3>1. 8 * (7 - r) + i \in o <=> 8 * (7 - i) + (7 - r) \in x
        BY <1>1, <2>2 DEF OddTurned
      <3>. QED  BY <1>2, <2>2, <3>1
    <2>4. ASSUME NEW i \in 0..7, NEW r \in 0..7
          PROVE  8 * (7 - r) + i \in e <=> <<r, 7 - i>> \in m
      <3>1. 8 * (7 - r) + i \in e <=> 8 * i + (7 - (7 - r)) \in x
        BY <1>1, <2>2 DEF EvenTurned
      <3>2. 8 * (7 - (7 - i)) + (7 - (7 - r)) \in x <=> <<r, 7 - i>> \in m
        BY <1>2, <2>2
      <3>. QED  BY <2>2, <3>1, <3>2
    <2>. QED  BY <1>1, <2>1, <2>2, <2>3, <2>4 DEF WholeMap, OddTurned, EvenTurned
  <1>4. CASE big = FALSE
    <2>1. Whole(m, big, big) = e /\ Whole(m, big, ~big) = o
      BY <1>4
    <2>. HIDE DEF o, e
    <2>2. \A r \in 0..7 : ByteOfRow(big, 8, r) = r /\ 7 - r \in 0..7
      BY <1>4 DEF ByteOfRow
    <2>3. ASSUME NEW i \in 0..7, NEW r \in 0..7
          PROVE  8 * r + i \in e <=> <<7 - r, i>> \in m
      <3>1. 8 * r + i \in e <=> 8 * i + (7 - r) \in x
        BY <1>1 DEF EvenTurned
      <3>. QED  BY <1>2, <2>2, <3>1
    <2>4. ASSUME NEW i \in 0..7, NEW r \in 0..7
          PROVE  8 * r + i \in o <=> <<r, 7 - i>> \in m
      <3>1. 8 * r + i \in o <=> 8 * (7 - i) + r \in x
        BY <1>1 DEF OddTurned
      <3>. QED  BY <1>2, <2>2, <3>1
    <2>. QED  BY <1>1, <2>1, <2>2, <2>3, <2>4 DEF WholeMap, OddTurned, EvenTurned
  <1>. QED  BY <1>3, <1>4

HalfMap(m, big, first, x, y) ==
    /\ x \in SUBSET (0 .. 8 * 4 - 1) /\ y \in SUBSET (0 .. 8 * 4 - 1)
    /\ \A c \in Digit, h, r \in 0..3 :
         8 * ByteOfRow(big, 4, r) + 4 * c + h \in x <=> <<4 * c + (3 - r), first + h>> \in m
    /\ \A c \in Digit, h, r \in 0..3 :
         8 * ByteOfRow(big, 4, r) + 4 * c + h \in y <=> <<4 * c + r, first + (3 - h)>> \in m

(* So are its halves, but for the quarters.                                 *)
LEMMA HalfMapTurned ==
    ASSUME NEW m \in AllMaps, NEW big \in BOOLEAN, NEW first \in {0, 4}
    PROVE  HalfMap(m, big, first, Half(m, big, first, big), Half(m, big, first, ~big))
  <1>. DEFINE x == Load(m, big, first, 4)
              o == Half(m, big, first, TRUE)
              e == Half(m, big, first, FALSE)
  <1>1. OddHalfTurned(x, o) /\ EvenHalfTurned(x, e)
    BY HalfTurned, Zenon
  <1>2. ASSUME NEW c \in Digit, NEW h \in 0..3, NEW r \in 0..3
        PROVE  8 * ByteOfRow(big, 4, r) + 4 * c + h \in x <=> <<4 * c + h, first + r>> \in m
    <2>1. <<first, 4>> \in Parts /\ 4 - 1 = 3 /\ 4 * c + h \in 0..7
      BY <1>2 DEF Parts, Digit
    <2>2. 8 * ByteOfRow(big, 4, r) + (4 * c + h) \in x <=> <<4 * c + h, first + r>> \in m
      BY <2>1, PointsOfWords
    <2>3. 8 * ByteOfRow(big, 4, r) + (4 * c + h) = 8 * ByteOfRow(big, 4, r) + 4 * c + h
      BY <1>2 DEF ByteOfRow, Digit
    <2>. QED  BY <2>2, <2>3
  <1>. HIDE DEF x
  <1>3. CASE big = TRUE
    <2>1. Half(m, big, first, big) = o /\ Half(m, big, first, ~big) = e
      BY <1>3
    <2>. HIDE DEF o, e
    <2>2. \A r \in 0..3 : ByteOfRow(big, 4, r) = 3 - r /\ 3 - r \in 0..3 /\ 3 - (3 - r) = r
      BY <1>3 DEF ByteOfRow
    <2>3. ASSUME NEW c \in Digit, NEW h \in 0..3, NEW r \in 0..3
          PROVE  8 * (3 - r) + 4 * c + h \in o <=> <<4 * c + (3 - r), first + h>> \in m
      <3>1. 8 * (3 - r) + 4 * c + h \in o <=> 8 * (3 - h) + 4 * c + (3 - r) \in x
        BY <1>1, <2>2, <2>3 DEF OddHalfTurned
      <3>. QED  BY <1>2, <2>2, <2>3, <3>1
    <2>4. ASSUME NEW c \in Digit, NEW h \in 0..3, NEW r \in 0..3
          PROVE  8 * (3 - r) + 4 * c + h \in e <=> <<4 * c + r, first + (3 - h)>> \in m
      <3>1. 8 * (3 - r) + 4 * c + h \in e <=> 8 * h + 4 * c + (3 - (3 - r)) \in x
        BY <1>1, <2>2, <2>4 DEF EvenHalfTurned
      <3>2. 8 * (3 - (3 - h)) + 4 * c + r \in x <=> <<4 * c + r, first + (3 - h)>> \in m
        BY <1>2, <2>2, <2>4
      <3>. QED  BY <2>2, <2>4, <3>1, <3>2
    <2>. QED  BY <1>1, <2>1, <2>2, <2>3, <2>4 DEF HalfMap, OddHalfTurned, EvenHalfTurned
  <1>4. CASE big = FALSE
    <2>1. Half(m, big, first, big) = e /\ Half(m, big, first, ~big) = o
      BY <1>4
    <2>. HIDE DEF o, e
    <2>2. \A r \in 0..3 : ByteOfRow(big, 4, r) = r /\ 3 - r \in 0..3
      BY <1>4 DEF ByteOfRow
    <2>3. ASSUME NEW c \in Digit, NEW h \in 0..3, NEW r \in 0..3
          PROVE  8 * r + 4 * c + h \in e <=> <<4 * c + (3 - r), first + h>> \in m
      <3>1. 8 * r + 4 * c + h \in e <=> 8 * h + 4 * c + (3 - r) \in x
        BY <1>1, <2>3 DEF EvenHalfTurned
      <3>. QED  BY <1>2, <2>2, <2>3, <3>1
    <2>4. ASSUME NEW c \in Digit, NEW h \in 0..3, NEW r \in 0..3
          PROVE  8 * r + 4 * c + h \in o <=> <<4 * c + r, first + (3 - h)>> \in m
      <3>1. 8 * r + 4 * c + h \in o <=> 8 * (3 - h) + 4 * c + r \in x
        BY <1>1, <2>4 DEF OddHalfTurned
      <3>. QED  BY <1>2, <2>2, <2>4, <3>1
    <2>. QED  BY <1>1, <2>1, <2>2, <2>3, <2>4 DEF HalfMap, OddHalfTurned, EvenHalfTurned
  <1>. QED  BY <1>3, <1>4

(* Words made of the upper halves of the bytes of x and y, or of the lower  *)
(* ones: those of x come first.                                             *)
Joined(z, x, y, c) ==
    /\ z \in SUBSET (0 .. 8 * 4 - 1)
    /\ \A l, h \in 0..3 : /\ 8 * l + h \in z <=> 8 * l + 4 * c + h \in x
                          /\ 8 * l + 4 + h \in z <=> 8 * l + 4 * c + h \in y

(* What is left of a word under the masks 0xF0F0F0F0 and 0x0F0F0F0F.        *)
LEMMA HalvesOfBytes ==
    ASSUME NEW x \in SUBSET (0 .. 8 * 4 - 1)
    PROVE  /\ Upper(x) \in SUBSET (0..31) /\ Lower(x) \in SUBSET (0..31)
           /\ \A k \in 0..31 : /\ k \in Upper(x) <=> k \in x /\ InCol(4, k)
                               /\ k \in Lower(x) <=> k \in x /\ ~InCol(4, k)
  <1>1. \A k \in 0..31 : k \in 0..63 /\ k \in 0 .. 32 - 1
    OBVIOUS
  <1>2. /\ Mask(32, <<xF0>>) = {k \in 0 .. 32 - 1 : k % 8 \in xF0}
        /\ Mask(32, <<x0F>>) = {k \in 0 .. 32 - 1 : k % 8 \in x0F}
    BY MasksOfOne
  <1>3. 8 * 4 - 1 = 31
    OBVIOUS
  <1>4. /\ \A k : k \in Upper(x) <=> k \in x /\ k \in Mask(32, <<xF0>>)
        /\ \A k : k \in Lower(x) <=> k \in x /\ k \in Mask(32, <<x0F>>)
    BY DEF Upper, Lower
  <1>. QED  BY <1>1, <1>2, <1>3, <1>4, Columns

(* The last two lines for a 32 bit machine put quarters next to each other. *)
LEMMA HalvesJoined ==
    ASSUME NEW x \in SUBSET (0 .. 8 * 4 - 1), NEW y \in SUBSET (0 .. 8 * 4 - 1)
    PROVE  /\ Joined(Shr(Upper(x), 4) \cup Upper(y), x, y, 1)
           /\ Joined(Lower(x) \cup Shl(32, Lower(y), 4), x, y, 0)
  <1>. DEFINE Up(z) == Upper(z)
              Low(z) == Lower(z)
  <1>1. ASSUME NEW z \in SUBSET (0 .. 8 * 4 - 1)
        PROVE  /\ Up(z) \in SUBSET (0..31) /\ Low(z) \in SUBSET (0..31)
               /\ \A l, h \in 0..3 : /\ 8 * l + 4 + h \in Up(z) <=> 8 * l + 4 + h \in z
                                     /\ 8 * l + h \notin Up(z)
                                     /\ 8 * l + h \in Low(z) <=> 8 * l + h \in z
                                     /\ 8 * l + 4 + h \notin Low(z)
    <2>1. \A l, h \in 0..3 : /\ 8 * l + h \in 0..31 /\ ~InCol(4, 8 * l + h)
                             /\ 8 * l + 4 + h \in 0..31 /\ InCol(4, 8 * l + 4 + h)
      BY DEF InCol
    <2>. QED  BY <2>1, HalvesOfBytes
  <1>. HIDE DEF Up, Low
  <1>2. ASSUME NEW z \in SUBSET (0..31), NEW k \in 0..31
        PROVE  /\ k \in Shr(z, 4) <=> k + 4 \in z
               /\ k \in Shl(32, z, 4) <=> k - 4 \in z
    BY <1>2 DEF Shr, Shl
  <1>3. ASSUME NEW z \in SUBSET (0..31)
        PROVE  Shr(z, 4) \in SUBSET (0..31) /\ Shl(32, z, 4) \in SUBSET (0..31)
    BY <1>3 DEF Shr, Shl
  <1>4. \A l, h \in 0..3 : 8 * l + h \in 0..31 /\ 8 * l + 4 + h \in 0..31
    OBVIOUS
  <1>5. Joined(Shr(Up(x), 4) \cup Up(y), x, y, 1)
    <2>1. \A l, h \in 0..3 : /\ 8 * l + h \in Shr(Up(x), 4) <=> 8 * l + 4 + h \in x
                             /\ 8 * l + 4 + h \notin Shr(Up(x), 4)
      <3>1. \A l, h \in 0..3 : /\ 8 * l + h + 4 = 8 * l + 4 + h
                               /\ 8 * l + 4 + h + 4 = 8 * (l + 1) + h
        OBVIOUS
      <3>2. \A l, h \in 0..3 : 8 * (l + 1) + h \notin Up(x)
        BY <1>1
      <3>. QED  BY <1>1, <1>2, <1>4, <3>1, <3>2
    <2>2. \A l, h \in 0..3 : 8 * l + 4 * 1 + h = 8 * l + 4 + h
      OBVIOUS
    <2>. QED  BY <1>1, <1>3, <2>1, <2>2 DEF Joined
  <1>6. Joined(Low(x) \cup Shl(32, Low(y), 4), x, y, 0)
    <2>1. \A l, h \in 0..3 : /\ 8 * l + 4 + h \in Shl(32, Low(y), 4) <=> 8 * l + h \in y
                             /\ 8 * l + h \notin Shl(32, Low(y), 4)
      <3>1. \A l, h \in 0..3 : /\ 8 * l + 4 + h - 4 = 8 * l + h
                               /\ 8 * l + h - 4 = 8 * (l - 1) + 4 + h
        OBVIOUS
      <3>2. \A l, h \in 0..3 : 8 * (l - 1) + 4 + h \notin Low(y)
        BY <1>1
      <3>. QED  BY <1>1, <1>2, <1>4, <3>1, <3>2
    <2>2. \A l, h \in 0..3 : 8 * l + 4 * 0 + h = 8 * l + h
      OBVIOUS
    <2>. QED  BY <1>1, <1>3, <2>1, <2>2 DEF Joined
  <1>. QED  BY <1>5, <1>6 DEF Up, Low

(* Where the LED that is at column i of row j after the turn was before it. *)
Source(r, i, j) ==
    IF r = 0 THEN <<i, j>> ELSE IF r = 1 THEN <<7 - j, i>>
    ELSE IF r = 2 THEN <<7 - i, 7 - j>> ELSE <<j, 7 - i>>

Turned(r, m, t) ==
    /\ t \in AllMaps
    /\ \A i, j \in 0..7 : <<i, j>> \in t <=> Source(r, i, j) \in m

(* What a 64 bit machine writes.                                            *)
LEMMA WholeStored ==
    ASSUME NEW big \in BOOLEAN, NEW x \in SUBSET (0 .. 8 * 8 - 1)
    PROVE  /\ Store(x, big, 0, 8) \in AllMaps
           /\ \A i, r \in 0..7 :
                <<i, r>> \in Store(x, big, 0, 8) <=> 8 * ByteOfRow(big, 8, r) + i \in x
  <1>1. <<0, 8>> \in Parts /\ 0 .. 8 - 1 = 0..7 /\ 0 .. 0 + 8 - 1 = 0..7
    BY DEF Parts
  <1>2. \A r \in 0..7 : 0 + r = r
    OBVIOUS
  <1>3. Store(x, big, 0, 8) \in AllMaps
    BY <1>1, StoreWrites DEF AllMaps
  <1>4. \A i \in 0..7, r \in 0 .. 8 - 1 :
          <<i, 0 + r>> \in Store(x, big, 0, 8) <=> 8 * ByteOfRow(big, 8, r) + i \in x
    BY <1>1, PointsOfWords
  <1>. QED  BY <1>1, <1>2, <1>3, <1>4

(* What a 32 bit machine writes.                                            *)
LEMMA HalvesStored ==
    ASSUME NEW big \in BOOLEAN,
           NEW x \in SUBSET (0 .. 8 * 4 - 1), NEW y \in SUBSET (0 .. 8 * 4 - 1)
    PROVE  LET both == Store(x, big, 0, 4) \cup Store(y, big, 4, 4)
           IN /\ both \in AllMaps
              /\ \A i \in 0..7, r \in 0..3 :
                   /\ <<i, r>> \in both <=> 8 * ByteOfRow(big, 4, r) + i \in x
                   /\ <<i, 4 + r>> \in both <=> 8 * ByteOfRow(big, 4, r) + i \in y
  <1>. DEFINE s == Store(x, big, 0, 4)
              t == Store(y, big, 4, 4)
  <1>1. /\ <<0, 4>> \in Parts /\ <<4, 4>> \in Parts /\ 0 .. 4 - 1 = 0..3
        /\ 0 .. 0 + 4 - 1 = 0..3 /\ 4 .. 4 + 4 - 1 = 4..7
    BY DEF Parts
  <1>2. s \subseteq (0..7) \X (0..3) /\ t \subseteq (0..7) \X (4..7)
    BY <1>1, StoreWrites
  <1>3. \A i \in 0..7, r \in 0 .. 4 - 1 :
          /\ <<i, 0 + r>> \in s <=> 8 * ByteOfRow(big, 4, r) + i \in x
          /\ <<i, 4 + r>> \in t <=> 8 * ByteOfRow(big, 4, r) + i \in y
    BY <1>1, PointsOfWords
  <1>. HIDE DEF s, t
  <1>4. \A r \in 0..3 : 0 + r = r /\ r \notin 4..7 /\ 4 + r \notin 0..3
    OBVIOUS
  <1>5. s \cup t \in AllMaps
    BY <1>2 DEF AllMaps
  <1>6. \A i \in 0..7, r \in 0..3 : <<i, r>> \notin t /\ <<i, 4 + r>> \notin s
    BY <1>2, <1>4
  <1>7. \A i \in 0..7, r \in 0..3 :
          /\ <<i, r>> \in s \cup t <=> 8 * ByteOfRow(big, 4, r) + i \in x
          /\ <<i, 4 + r>> \in s \cup t <=> 8 * ByteOfRow(big, 4, r) + i \in y
    BY <1>1, <1>3, <1>4, <1>6
  <1>. QED  BY <1>5, <1>7 DEF s, t

(* A quarter turn, on each of the four machines.                            *)
LEMMA r90_map_cbTurns ==
    ASSUME NEW m \in AllMaps, NEW mc \in [lp64 : BOOLEAN, big : BOOLEAN]
    PROVE  Turned(1, m, r90_map_cb(m, mc))
  <1>. DEFINE big == mc.big
  <1>1. big \in BOOLEAN /\ mc.lp64 \in BOOLEAN
    OBVIOUS
  <1>. HIDE DEF big
  <1>2. CASE mc.lp64
    <2>. DEFINE w == Whole(m, big, big)
    <2>1. r90_map_cb(m, mc) = Store(w, big, 0, 8)
      BY <1>2 DEF r90_map_cb, big
    <2>2. WholeMap(m, big, w, Whole(m, big, ~big))
      BY <1>1, WholeMapTurned, Zenon
    <2>. HIDE DEF w
    <2>3. /\ w \in SUBSET (0 .. 8 * 8 - 1)
          /\ \A i, r \in 0..7 : 8 * ByteOfRow(big, 8, r) + i \in w <=> <<7 - r, i>> \in m
      BY <2>2 DEF WholeMap
    <2>. QED  BY <1>1, <2>1, <2>3, WholeStored DEF Turned, Source
  <1>3. CASE ~mc.lp64
    <2>. DEFINE x == Half(m, big, 0, big)
                y == Half(m, big, 4, big)
                u == Shr(Upper(x), 4) \cup Upper(y)
                l == Lower(x) \cup Shl(32, Lower(y), 4)
    <2>1. r90_map_cb(m, mc) = Store(u, big, 0, 4) \cup Store(l, big, 4, 4)
      BY <1>3 DEF r90_map_cb, big
    <2>2. /\ HalfMap(m, big, 0, x, Half(m, big, 0, ~big))
          /\ HalfMap(m, big, 4, y, Half(m, big, 4, ~big))
      BY <1>1, HalfMapTurned
    <2>. HIDE DEF x, y
    <2>3. x \in SUBSET (0 .. 8 * 4 - 1) /\ y \in SUBSET (0 .. 8 * 4 - 1)
      BY <2>2 DEF HalfMap
    <2>4. Joined(u, x, y, 1) /\ Joined(l, x, y, 0)
      BY <2>3, HalvesJoined, Zenon
    <2>. HIDE DEF u, l
    <2>5. u \in SUBSET (0 .. 8 * 4 - 1) /\ l \in SUBSET (0 .. 8 * 4 - 1)
      BY <2>4 DEF Joined
    <2>. DEFINE both == Store(u, big, 0, 4) \cup Store(l, big, 4, 4)
    <2>6. /\ both \in AllMaps
          /\ \A i \in 0..7, r \in 0..3 :
               /\ <<i, r>> \in both <=> 8 * ByteOfRow(big, 4, r) + i \in u
               /\ <<i, 4 + r>> \in both <=> 8 * ByteOfRow(big, 4, r) + i \in l
      BY <1>1, <2>5, HalvesStored
    <2>. HIDE DEF both
    <2>7. ASSUME NEW h \in 0..3, NEW r \in 0..3
          PROVE  /\ <<h, r>> \in both <=> <<7 - r, h>> \in m
                 /\ <<4 + h, r>> \in both <=> <<7 - r, 4 + h>> \in m
                 /\ <<h, 4 + r>> \in both <=> <<3 - r, h>> \in m
                 /\ <<4 + h, 4 + r>> \in both <=> <<3 - r, 4 + h>> \in m
      <3>. DEFINE b == ByteOfRow(big, 4, r)
      <3>1. b \in 0..3 /\ h \in 0..7 /\ 4 + h \in 0..7 /\ 0 \in Digit /\ 1 \in Digit
        BY <1>1, <2>7 DEF ByteOfRow, Digit
      <3>. HIDE DEF b
      <3>2. /\ <<h, r>> \in both <=> 8 * b + h \in u
            /\ <<4 + h, r>> \in both <=> 8 * b + (4 + h) \in u
            /\ <<h, 4 + r>> \in both <=> 8 * b + h \in l
            /\ <<4 + h, 4 + r>> \in both <=> 8 * b + (4 + h) \in l
        BY <2>6, <2>7, <3>1 DEF b
      <3>3. 8 * b + (4 + h) = 8 * b + 4 + h
        BY <2>7, <3>1
      <3>4. /\ 8 * b + h \in u <=> 8 * b + 4 * 1 + h \in x
            /\ 8 * b + 4 + h \in u <=> 8 * b + 4 * 1 + h \in y
            /\ 8 * b + h \in l <=> 8 * b + 4 * 0 + h \in x
            /\ 8 * b + 4 + h \in l <=> 8 * b + 4 * 0 + h \in y
        BY <2>4, <2>7, <3>1 DEF Joined
      <3>5. /\ 8 * b + 4 * 1 + h \in x <=> <<4 * 1 + (3 - r), 0 + h>> \in m
            /\ 8 * b + 4 * 1 + h \in y <=> <<4 * 1 + (3 - r), 4 + h>> \in m
            /\ 8 * b + 4 * 0 + h \in x <=> <<4 * 0 + (3 - r), 0 + h>> \in m
            /\ 8 * b + 4 * 0 + h \in y <=> <<4 * 0 + (3 - r), 4 + h>> \in m
        BY <2>2, <2>7, <3>1 DEF HalfMap, b
      <3>6. 4 * 1 + (3 - r) = 7 - r /\ 4 * 0 + (3 - r) = 3 - r /\ 0 + h = h
        BY <2>7
      <3>. QED  BY <3>2, <3>3, <3>4, <3>5, <3>6
    <2>8. ASSUME NEW i \in 0..7, NEW j \in 0..7
          PROVE  <<i, j>> \in both <=> <<7 - j, i>> \in m
      <3>1. /\ i \in 0..3 \/ (i - 4 \in 0..3 /\ i = 4 + (i - 4))
            /\ j \in 0..3 \/ (j - 4 \in 0..3 /\ j = 4 + (j - 4) /\ 3 - (j - 4) = 7 - j)
        BY <2>8
      <3>. QED  BY <2>7, <3>1
    <2>. QED  BY <2>1, <2>6, <2>8 DEF Turned, Source, both
  <1>. QED  BY <1>1, <1>2, <1>3

(* A quarter turn the other way.                                            *)
LEMMA r270_map_cbTurns ==
    ASSUME NEW m \in AllMaps, NEW mc \in [lp64 : BOOLEAN, big : BOOLEAN]
    PROVE  Turned(3, m, r270_map_cb(m, mc))
  <1>. DEFINE big == mc.big
  <1>1. big \in BOOLEAN /\ mc.lp64 \in BOOLEAN
    OBVIOUS
  <1>. HIDE DEF big
  <1>2. CASE mc.lp64
    <2>. DEFINE w == Whole(m, big, ~big)
    <2>1. r270_map_cb(m, mc) = Store(w, big, 0, 8)
      BY <1>2 DEF r270_map_cb, big
    <2>2. WholeMap(m, big, Whole(m, big, big), w)
      BY <1>1, WholeMapTurned, Zenon
    <2>. HIDE DEF w
    <2>3. /\ w \in SUBSET (0 .. 8 * 8 - 1)
          /\ \A i, r \in 0..7 : 8 * ByteOfRow(big, 8, r) + i \in w <=> <<r, 7 - i>> \in m
      BY <2>2 DEF WholeMap
    <2>. QED  BY <1>1, <2>1, <2>3, WholeStored DEF Turned, Source
  <1>3. CASE ~mc.lp64
    <2>. DEFINE x == Half(m, big, 0, ~big)
                y == Half(m, big, 4, ~big)
                u == Shl(32, Lower(x), 4) \cup Lower(y)
                l == Upper(x) \cup Shr(Upper(y), 4)
    <2>1. r270_map_cb(m, mc) = Store(u, big, 0, 4) \cup Store(l, big, 4, 4)
      BY <1>3 DEF r270_map_cb, big
    <2>2. /\ HalfMap(m, big, 0, Half(m, big, 0, big), x)
          /\ HalfMap(m, big, 4, Half(m, big, 4, big), y)
      BY <1>1, HalfMapTurned
    <2>. HIDE DEF x, y
    <2>3. x \in SUBSET (0 .. 8 * 4 - 1) /\ y \in SUBSET (0 .. 8 * 4 - 1)
      BY <2>2 DEF HalfMap
    <2>4. Joined(u, y, x, 0) /\ Joined(l, y, x, 1)
      <3>1. /\ u = Lower(y) \cup Shl(32, Lower(x), 4)
            /\ l = Shr(Upper(y), 4) \cup Upper(x)
        OBVIOUS
      <3>. HIDE DEF u, l
      <3>. QED  BY <2>3, <3>1, HalvesJoined
    <2>. HIDE DEF u, l
    <2>5. u \in SUBSET (0 .. 8 * 4 - 1) /\ l \in SUBSET (0 .. 8 * 4 - 1)
      BY <2>4 DEF Joined
    <2>. DEFINE both == Store(u, big, 0, 4) \cup Store(l, big, 4, 4)
    <2>6. /\ both \in AllMaps
          /\ \A i \in 0..7, r \in 0..3 :
               /\ <<i, r>> \in both <=> 8 * ByteOfRow(big, 4, r) + i \in u
               /\ <<i, 4 + r>> \in both <=> 8 * ByteOfRow(big, 4, r) + i \in l
      BY <1>1, <2>5, HalvesStored
    <2>. HIDE DEF both
    <2>7. ASSUME NEW h \in 0..3, NEW r \in 0..3
          PROVE  /\ <<h, r>> \in both <=> <<r, 7 - h>> \in m
                 /\ <<4 + h, r>> \in both <=> <<r, 3 - h>> \in m
                 /\ <<h, 4 + r>> \in both <=> <<4 + r, 7 - h>> \in m
                 /\ <<4 + h, 4 + r>> \in both <=> <<4 + r, 3 - h>> \in m
      <3>. DEFINE b == ByteOfRow(big, 4, r)
      <3>1. b \in 0..3 /\ h \in 0..7 /\ 4 + h \in 0..7 /\ 0 \in Digit /\ 1 \in Digit
        BY <1>1, <2>7 DEF ByteOfRow, Digit
      <3>. HIDE DEF b
      <3>2. /\ <<h, r>> \in both <=> 8 * b + h \in u
            /\ <<4 + h, r>> \in both <=> 8 * b + (4 + h) \in u
            /\ <<h, 4 + r>> \in both <=> 8 * b + h \in l
            /\ <<4 + h, 4 + r>> \in both <=> 8 * b + (4 + h) \in l
        BY <2>6, <2>7, <3>1 DEF b
      <3>3. 8 * b + (4 + h) = 8 * b + 4 + h
        BY <2>7, <3>1
      <3>4. /\ 8 * b + h \in u <=> 8 * b + 4 * 0 + h \in y
            /\ 8 * b + 4 + h \in u <=> 8 * b + 4 * 0 + h \in x
            /\ 8 * b + h \in l <=> 8 * b + 4 * 1 + h \in y
            /\ 8 * b + 4 + h \in l <=> 8 * b + 4 * 1 + h \in x
        BY <2>4, <2>7, <3>1 DEF Joined
      <3>5. /\ 8 * b + 4 * 1 + h \in x <=> <<4 * 1 + r, 0 + (3 - h)>> \in m
            /\ 8 * b + 4 * 1 + h \in y <=> <<4 * 1 + r, 4 + (3 - h)>> \in m
            /\ 8 * b + 4 * 0 + h \in x <=> <<4 * 0 + r, 0 + (3 - h)>> \in m
            /\ 8 * b + 4 * 0 + h \in y <=> <<4 * 0 + r, 4 + (3 - h)>> \in m
        BY <2>2, <2>7, <3>1 DEF HalfMap, b
      <3>6. /\ 4 * 1 + r = 4 + r /\ 4 * 0 + r = r
            /\ 0 + (3 - h) = 3 - h /\ 4 + (3 - h) = 7 - h
        BY <2>7
      <3>. QED  BY <3>2, <3>3, <3>4, <3>5, <3>6
    <2>8. ASSUME NEW i \in 0..7, NEW j \in 0..7
          PROVE  <<i, j>> \in both <=> <<j, 7 - i>> \in m
      <3>1. /\ i \in 0..3 \/ (i - 4 \in 0..3 /\ i = 4 + (i - 4) /\ 3 - (i - 4) = 7 - i)
            /\ j \in 0..3 \/ (j - 4 \in 0..3 /\ j = 4 + (j - 4))
        BY <2>8
      <3>. QED  BY <2>7, <3>1
    <2>. QED  BY <2>1, <2>6, <2>8 DEF Turned, Source, both
  <1>. QED  BY <1>1, <1>2, <1>3

(* Half a turn.                                                             *)
LEMMA r180_map_cbTurns ==
    ASSUME NEW m \in AllMaps, NEW mc \in [lp64 : BOOLEAN, big : BOOLEAN]
    PROVE  Turned(2, m, r180_map_cb(m, mc))
  <1>. DEFINE big == mc.big
  <1>1. big \in BOOLEAN /\ mc.lp64 \in BOOLEAN
    OBVIOUS
  <1>. HIDE DEF big
  <1>2. CASE mc.lp64
    <2>. DEFINE x == Load(m, big, 0, 8)
                w == Reversal(64, x)
    <2>1. r180_map_cb(m, mc) = Store(w, big, 0, 8)
      BY <1>2 DEF r180_map_cb, big
    <2>2. <<0, 8>> \in Parts /\ 8 * 8 - 1 = 64 - 1 /\ 0 .. 8 * 8 - 1 = 0 .. 64 - 1
          /\ 0 .. 8 - 1 = 0..7 /\ 64 \in {32, 64}
      BY DEF Parts
    <2>3. x \in SUBSET (0 .. 64 - 1)
      BY <1>1, <2>2, LoadReads
    <2>4. ASSUME NEW i \in 0..7, NEW r \in 0..7
          PROVE  8 * ByteOfRow(big, 8, r) + i \in x <=> <<i, 0 + r>> \in m
      <3>1. <<0, 8>> \in Parts /\ 8 - 1 = 7
        BY DEF Parts
      <3>. QED  BY <1>1, <2>4, <3>1, PointsOfWords
    <2>. HIDE DEF x
    <2>5. /\ w \in SUBSET (0 .. 64 - 1)
          /\ \A k \in 0 .. 64 - 1 : k \in w <=> 64 - 1 - k \in x
      BY <2>2, <2>3, ReversalIs
    <2>. HIDE DEF w
    <2>6. ASSUME NEW i \in 0..7, NEW r \in 0..7
          PROVE  8 * ByteOfRow(big, 8, r) + i \in w <=> <<7 - i, 7 - r>> \in m
      <3>1. /\ 8 * ByteOfRow(big, 8, r) + i \in 0 .. 64 - 1
            /\ 64 - 1 - (8 * ByteOfRow(big, 8, r) + i) = 8 * ByteOfRow(big, 8, 7 - r) + (7 - i)
        BY <1>1, <2>6 DEF ByteOfRow
      <3>2. 7 - i \in 0..7 /\ 7 - r \in 0..7 /\ 0 + (7 - r) = 7 - r
        BY <2>6
      <3>3. 8 * ByteOfRow(big, 8, 7 - r) + (7 - i) \in x <=> <<7 - i, 0 + (7 - r)>> \in m
        BY <2>4, <3>2
      <3>. QED  BY <2>5, <3>1, <3>2, <3>3
    <2>7. w \in SUBSET (0 .. 8 * 8 - 1)
      BY <2>2, <2>5
    <2>8. /\ Store(w, big, 0, 8) \in AllMaps
          /\ \A i, r \in 0..7 :
               <<i, r>> \in Store(w, big, 0, 8) <=> 8 * ByteOfRow(big, 8, r) + i \in w
      BY <1>1, <2>7, WholeStored
    <2>. QED  BY <2>1, <2>6, <2>8 DEF Turned, Source
  <1>3. CASE ~mc.lp64
    <2>. DEFINE x == Load(m, big, 0, 4)
                y == Load(m, big, 4, 4)
                u == Reversal(32, y)
                l == Reversal(32, x)
    <2>1. r180_map_cb(m, mc) = Store(u, big, 0, 4) \cup Store(l, big, 4, 4)
      BY <1>3 DEF r180_map_cb, big
    <2>2. /\ <<0, 4>> \in Parts /\ <<4, 4>> \in Parts
          /\ 8 * 4 - 1 = 32 - 1 /\ 0 .. 8 * 4 - 1 = 0 .. 32 - 1 /\ 0 .. 4 - 1 = 0..3 /\ 32 \in {32, 64}
      BY DEF Parts
    <2>3. x \in SUBSET (0 .. 32 - 1) /\ y \in SUBSET (0 .. 32 - 1)
      BY <1>1, <2>2, LoadReads
    <2>4. ASSUME NEW i \in 0..7, NEW r \in 0..3
          PROVE  /\ 8 * ByteOfRow(big, 4, r) + i \in x <=> <<i, 0 + r>> \in m
                 /\ 8 * ByteOfRow(big, 4, r) + i \in y <=> <<i, 4 + r>> \in m
      <3>1. <<0, 4>> \in Parts /\ <<4, 4>> \in Parts /\ 4 - 1 = 3
        BY DEF Parts
      <3>. QED  BY <1>1, <2>4, <3>1, PointsOfWords
    <2>. HIDE DEF x, y
    <2>5. /\ u \in SUBSET (0 .. 32 - 1)
          /\ \A k \in 0 .. 32 - 1 : k \in u <=> 32 - 1 - k \in y
          /\ l \in SUBSET (0 .. 32 - 1)
          /\ \A k \in 0 .. 32 - 1 : k \in l <=> 32 - 1 - k \in x
      BY <2>2, <2>3, ReversalIs
    <2>. HIDE DEF u, l
    <2>. DEFINE both == Store(u, big, 0, 4) \cup Store(l, big, 4, 4)
    <2>6. /\ both \in AllMaps
          /\ \A i \in 0..7, r \in 0..3 :
               /\ <<i, r>> \in both <=> 8 * ByteOfRow(big, 4, r) + i \in u
               /\ <<i, 4 + r>> \in both <=> 8 * ByteOfRow(big, 4, r) + i \in l
      <3>1. u \in SUBSET (0 .. 8 * 4 - 1) /\ l \in SUBSET (0 .. 8 * 4 - 1)
        BY <2>2, <2>5
      <3>. QED  BY <1>1, <3>1, HalvesStored
    <2>. HIDE DEF both
    <2>7. ASSUME NEW i \in 0..7, NEW r \in 0..3
          PROVE  /\ <<i, r>> \in both <=> <<7 - i, 7 - r>> \in m
                 /\ <<i, 4 + r>> \in both <=> <<7 - i, 3 - r>> \in m
      <3>1. /\ 8 * ByteOfRow(big, 4, r) + i \in 0 .. 32 - 1
            /\ 32 - 1 - (8 * ByteOfRow(big, 4, r) + i) = 8 * ByteOfRow(big, 4, 3 - r) + (7 - i)
        BY <1>1, <2>7 DEF ByteOfRow
      <3>2. /\ 7 - i \in 0..7 /\ 3 - r \in 0..3
            /\ 0 + (3 - r) = 3 - r /\ 4 + (3 - r) = 7 - r
        BY <2>7
      <3>3. /\ 8 * ByteOfRow(big, 4, 3 - r) + (7 - i) \in x <=> <<7 - i, 0 + (3 - r)>> \in m
            /\ 8 * ByteOfRow(big, 4, 3 - r) + (7 - i) \in y <=> <<7 - i, 4 + (3 - r)>> \in m
        BY <2>4, <3>2
      <3>. QED  BY <2>5, <2>6, <2>7, <3>1, <3>2, <3>3
    <2>8. ASSUME NEW i \in 0..7, NEW j \in 0..7
          PROVE  <<i, j>> \in both <=> <<7 - i, 7 - j>> \in m
      <3>1. j \in 0..3 \/ (j - 4 \in 0..3 /\ j = 4 + (j - 4) /\ 3 - (j - 4) = 7 - j)
        BY <2>8
      <3>. QED  BY <2>7, <2>8, <3>1
    <2>. QED  BY <2>1, <2>6, <2>8 DEF Turned, Source, both
  <1>. QED  BY <1>1, <1>2, <1>3

(* A picture is known by its LEDs. *)
LEMMA SamePicture ==
    ASSUME NEW r, NEW m, NEW t, NEW u, Turned(r, m, t), Turned(r, m, u)
    PROVE  t = u
  <1>1. t \subseteq (0..7) \X (0..7) /\ u \subseteq (0..7) \X (0..7)
    BY DEF Turned, AllMaps
  <1>2. ASSUME NEW p \in (0..7) \X (0..7) PROVE p \in t <=> p \in u
    <2>1. PICK i, j \in 0..7 : p = <<i, j>>
      BY <1>2
    <2>2. /\ <<i, j>> \in t <=> Source(r, i, j) \in m
          /\ <<i, j>> \in u <=> Source(r, i, j) \in m
      BY DEF Turned
    <2>. QED  BY <2>1, <2>2
  <1>. QED  BY <1>1, <1>2

(* Where output_cb sends an LED of an 8 by 8 map: nothing wraps round.      *)
LEMMA OutputOfMap ==
    ASSUME NEW r \in 0..3, NEW i \in 0..7, NEW j \in 0..7
    PROVE  output_cb(r, 8, 8, <<i, j>>)
             = IF r = 0 THEN <<i, j>> ELSE IF r = 1 THEN <<j, 7 - i>>
               ELSE IF r = 2 THEN <<7 - i, 7 - j>> ELSE <<7 - j, i>>
  <1>1. UintRange \in Nat /\ UintRange >= 256
    BY SizeAssumption, UintAssumption DEF ByteRange
  <1>2. ASSUME NEW n \in 0..7 PROVE (7 - n) % UintRange = 7 - n
    BY <1>1, <1>2
  <1>3. 8 - 1 = 7 /\ <<i, j>>[1] = i /\ <<i, j>>[2] = j
    OBVIOUS
  <1>4. /\ monome_get_cols(r, 8, 8) = 8
        /\ monome_get_rows(r, 8, 8) = 8
    BY DEF monome_get_cols, monome_get_rows
  <1>. QED  BY <1>2, <1>3, <1>4 DEF output_cb, r90_output_cb, r180_output_cb,
                 r270_output_cb, Sub

(* The turn of each LED by itself is the turn of the picture.               *)
LEMMA LedsTurn ==
    ASSUME NEW r \in 0..3, NEW m \in AllMaps
    PROVE  Turned(r, m, {output_cb(r, 8, 8, p) : p \in m})
  <1>. DEFINE t == {output_cb(r, 8, 8, p) : p \in m}
              Goes(i, j) == IF r = 0 THEN <<i, j>> ELSE IF r = 1 THEN <<j, 7 - i>>
                            ELSE IF r = 2 THEN <<7 - i, 7 - j>> ELSE <<7 - j, i>>
  <1>1. \A p \in m : \E i, j \in 0..7 : p = <<i, j>>
    BY DEF AllMaps
  <1>2. \A i, j \in 0..7 : output_cb(r, 8, 8, <<i, j>>) = Goes(i, j)
    BY OutputOfMap
  <1>3. \A i, j \in 0..7 : Goes(i, j) \in (0..7) \X (0..7)
    OBVIOUS
  <1>4. t \in AllMaps
    <2>1. ASSUME NEW p \in m PROVE output_cb(r, 8, 8, p) \in (0..7) \X (0..7)
      <3>1. PICK i, j \in 0..7 : p = <<i, j>>
        BY <1>1, <2>1
      <3>2. output_cb(r, 8, 8, <<i, j>>) = Goes(i, j)
        BY <1>2
      <3>. HIDE DEF Goes
      <3>3. Goes(i, j) \in (0..7) \X (0..7)
        BY <1>3
      <3>. QED  BY <3>1, <3>2, <3>3
    <2>. QED  BY <2>1 DEF AllMaps
  <1>5. ASSUME NEW i \in 0..7, NEW j \in 0..7
        PROVE  <<i, j>> \in t <=> Source(r, i, j) \in m
    <2>1. ASSUME Source(r, i, j) \in m PROVE <<i, j>> \in t
      <3>1. \E k, l \in 0..7 : Source(r, i, j) = <<k, l>> /\ Goes(k, l) = <<i, j>>
        <4>1. 7 - i \in 0..7 /\ 7 - j \in 0..7 /\ 7 - (7 - i) = i /\ 7 - (7 - j) = j
          BY <1>5
        <4>2. CASE r = 0 BY <1>5, <4>2 DEF Source
        <4>3. CASE r = 1 BY <1>5, <4>1, <4>3 DEF Source
        <4>4. CASE r = 2 BY <1>5, <4>1, <4>4 DEF Source
        <4>5. CASE r = 3 BY <1>5, <4>1, <4>5 DEF Source
        <4>. QED  BY <4>2, <4>3, <4>4, <4>5
      <3>2. PICK k, l \in 0..7 : Source(r, i, j) = <<k, l>> /\ Goes(k, l) = <<i, j>>
        BY <3>1
      <3>3. output_cb(r, 8, 8, <<k, l>>) = <<i, j>>
        BY <1>2, <3>2
      <3>. QED  BY <2>1, <3>2, <3>3
    <2>2. ASSUME NEW p \in m, output_cb(r, 8, 8, p) = <<i, j>>
          PROVE  p = Source(r, i, j)
      <3>1. PICK k, l \in 0..7 : p = <<k, l>>
        BY <1>1, <2>2
      <3>2. Goes(k, l) = <<i, j>>
        BY <1>2, <2>2, <3>1
      <3>. QED  BY <1>5, <3>1, <3>2 DEF Source
    <2>. QED  BY <2>1, <2>2
  <1>. QED  BY <1>4, <1>5 DEF Turned

(* The map callbacks turn every map. *)
LEMMA map_cbTurns ==
    ASSUME NEW r \in 0..3, NEW m \in AllMaps, NEW mc \in [lp64 : BOOLEAN, big : BOOLEAN]
    PROVE  Turned(r, m, map_cb(r, m, mc))
  <1>1. CASE r = 0
    <2>1. map_cb(r, m, mc) = m
      BY <1>1 DEF map_cb
    <2>. QED  BY <1>1, <2>1 DEF Turned, Source
  <1>2. CASE r = 1
    <2>1. map_cb(r, m, mc) = r90_map_cb(m, mc)
      BY <1>2 DEF map_cb
    <2>. QED  BY <1>2, <2>1, r90_map_cbTurns
  <1>3. CASE r = 2
    <2>1. map_cb(r, m, mc) = r180_map_cb(m, mc)
      BY <1>3 DEF map_cb
    <2>. QED  BY <1>3, <2>1, r180_map_cbTurns
  <1>4. CASE r = 3
    <2>1. map_cb(r, m, mc) = r270_map_cb(m, mc)
      BY <1>4 DEF map_cb
    <2>. QED  BY <1>4, <2>1, r270_map_cbTurns
  <1>. QED  BY <1>1, <1>2, <1>3, <1>4

(* So does the index arithmetic of the level maps. *)
LEMMA level_map_cbTurns ==
    ASSUME NEW r \in 0..3, NEW m \in AllMaps
    PROVE  Turned(r, m, Lit(level_map_cb(r, Levels(m))))
  <1>. DEFINE from(k) == IF r = 0 THEN k ELSE IF r = 1 THEN r90_level_source(k)
                         ELSE IF r = 2 THEN r180_level_source(k)
                         ELSE r270_level_source(k)
              lv == level_map_cb(r, Levels(m))
  <1>1. \A k \in 0..63 : lv[k] = Levels(m)[from(k)]
    BY DEF level_map_cb
  <1>. HIDE DEF lv
  <1>2. \A n \in 0..63 : Levels(m)[n] > 0 <=> <<n % 8, n \div 8>> \in m
    BY DEF Levels
  <1>3. ASSUME NEW i \in 0..7, NEW j \in 0..7
        PROVE  /\ i + 8 * j \in 0..63 /\ from(i + 8 * j) \in 0..63
               /\ <<from(i + 8 * j) % 8, from(i + 8 * j) \div 8>> = Source(r, i, j)
    <2>1. (i + 8 * j) \div 8 = j /\ (i + 8 * j) % 8 = i /\ i + 8 * j \in 0..63
      BY <1>3
    <2>2. CASE r = 0
      BY <2>1, <2>2 DEF Source
    <2>3. CASE r = 1
      <3>1. from(i + 8 * j) = (7 - j) + 8 * i
        BY <2>1, <2>3 DEF r90_level_source
      <3>. QED  BY <1>3, <2>1, <2>3, <3>1 DEF Source
    <2>4. CASE r = 2
      <3>1. from(i + 8 * j) = (7 - i) + 8 * (7 - j)
        BY <1>3, <2>4 DEF r180_level_source
      <3>. QED  BY <1>3, <2>1, <2>4, <3>1 DEF Source
    <2>5. CASE r = 3
      <3>1. from(i + 8 * j) = j + 8 * (7 - i)
        BY <2>1, <2>5 DEF r270_level_source
      <3>. QED  BY <1>3, <2>1, <2>5, <3>1 DEF Source
    <2>. QED  BY <2>2, <2>3, <2>4, <2>5
  <1>. HIDE DEF from
  <1>4. \A i, j \in 0..7 : <<i, j>> \in Lit(lv) <=> lv[i + 8 * j] > 0
    BY DEF Lit, Points
  <1>5. Lit(lv) \in AllMaps
    BY DEF Lit, Points, AllMaps
  <1>. QED  BY <1>1, <1>2, <1>3, <1>4, <1>5 DEF Turned, lv

-----------------------------------------------------------------------------
(* Rows *)

(* Words that have no bit in common are added without carries. *)
LEMMA PlusOfDisjoint ==
    ASSUME NEW x \in SUBSET (0..31), NEW y \in SUBSET (0..31), x \cap y = {}
    PROVE  Plus(32, x, y) = x \cup y
  <1>. DEFINE Step(c) == [i \in 0..32 |->
                  /\ i > 0
                  /\ \/ i - 1 \in x /\ i - 1 \in y
                     \/ (i - 1 \in x \/ i - 1 \in y) /\ c[i - 1]]
              carry == CHOOSE c : c = Step(c)
  <1>1. Plus(32, x, y) = {i \in 0 .. 32 - 1 : ((i \in x) # (i \in y)) # carry[i]}
    BY DEF Plus
  <1>2. \E c : c = Step(c)
    <2>. DEFINE none == [i \in 0..32 |-> FALSE]
    <2>1. Step(none) = none
      <3>1. ASSUME NEW i \in 0..32
            PROVE  (/\ i > 0
                    /\ \/ i - 1 \in x /\ i - 1 \in y
                       \/ (i - 1 \in x \/ i - 1 \in y) /\ none[i - 1]) = FALSE
        <4>1. i > 0 => none[i - 1] = FALSE
          BY <3>1
        <4>2. ~ (i - 1 \in x /\ i - 1 \in y)
          OBVIOUS
        <4>. HIDE DEF none
        <4>. QED  BY <4>1, <4>2
      <3>. QED  BY <3>1, Zenon
    <2>. QED  BY <2>1
  <1>3. carry = Step(carry)
    BY <1>2, Zenon
  <1>. HIDE DEF carry
  <1>4. \A i \in 0..32 : carry[i] =
          (/\ i > 0
           /\ \/ i - 1 \in x /\ i - 1 \in y
              \/ (i - 1 \in x \/ i - 1 \in y) /\ carry[i - 1])
    BY <1>3, Zenon
  <1>5. \A i \in 0..32 : ~ carry[i]
    <2>. DEFINE S == {i \in Nat : i \in 0..32 => ~ carry[i]}
    <2>1. 0 \in S
      <3>1. 0 \in 0..32 /\ ~ (0 > 0) /\ 0 \in Nat
        OBVIOUS
      <3>2. ~ carry[0]
        BY <1>4, <3>1, Zenon
      <3>. QED  BY <3>1, <3>2
    <2>2. ASSUME NEW n \in Nat, n \in S PROVE n + 1 \in S
      <3>1. SUFFICES ASSUME n + 1 \in 0..32 PROVE ~ carry[n + 1]
        OBVIOUS
      <3>2. n \in 0..32 /\ (n + 1) - 1 = n
        BY <2>2, <3>1
      <3>3. ~ carry[n] /\ ~ (n \in x /\ n \in y)
        BY <2>2, <3>2
      <3>4. carry[n + 1] => \/ (n + 1) - 1 \in x /\ (n + 1) - 1 \in y
                            \/ carry[(n + 1) - 1]
        BY <1>4, <3>1, Zenon
      <3>. QED  BY <3>2, <3>3, <3>4, Zenon
    <2>. HIDE DEF S
    <2>3. Nat \subseteq S
      BY <2>1, <2>2, NatByInduction
    <2>. QED  BY <2>3 DEF S
  <1>6. ASSUME NEW i \in 0 .. 32 - 1
        PROVE  (((i \in x) # (i \in y)) # carry[i]) <=> i \in x \cup y
    <2>1. i \in 0..32
      OBVIOUS
    <2>2. ~ carry[i] /\ carry[i] \in BOOLEAN
      <3>1. carry[i] \in BOOLEAN
        BY <1>4, <2>1, Zenon
      <3>. QED  BY <1>5, <2>1, <3>1, Zenon
    <2>3. carry[i] = FALSE
      BY <2>2, Zenon
    <2>4. ~ (i \in x /\ i \in y)
      OBVIOUS
    <2>5. ((i \in x) # (i \in y)) <=> i \in x \cup y
      BY <2>4
    <2>. QED  BY <2>3, <2>5, Zenon
  <1>7. x \cup y \subseteq 0 .. 32 - 1
    OBVIOUS
  <1>8. \A i : i \in Plus(32, x, y)
                <=> i \in 0 .. 32 - 1 /\ (((i \in x) # (i \in y)) # carry[i])
    BY <1>1, Zenon
  <1>9. \A i : i \in Plus(32, x, y) <=> i \in x \cup y
    BY <1>6, <1>7, <1>8, Zenon
  <1>. QED  BY <1>9, Zenon

(* The sums behind REVERSE_BYTE have no carries, and 17 bits of its         *)
(* products tell the byte reversed.                                         *)
LEMMA ReverseByte ==
    ASSUME NEW x \in SUBSET (0..7)
    PROVE  /\ REVERSE_BYTE(x) \in SUBSET (0..7)
           /\ \A i \in 0..7 : i \in REVERSE_BYTE(x) <=> 7 - i \in x
  <1>. DEFINE s(z, n) == Shl(32, z, n)
              odd  == Plus(32, s(x, 1), s(x, 11))
              even == Plus(32, s(x, 5), s(x, 15))
              v == (odd \cap {4, 8, 13, 17}) \cup (even \cap {6, 10, 15, 19})
              p == Plus(32, v, s(v, 8))
              q == Plus(32, p, s(v, 16))
  <1>1. REVERSE_BYTE(x) = Shr(q \cap 16..23, 16)
    BY Zenon DEF REVERSE_BYTE, Middle
  <1>2. ASSUME NEW z \in SUBSET (0..31), NEW n \in 0..31
        PROVE  /\ s(z, n) \in SUBSET (0..31)
               /\ \A k \in 0..31 : k \in s(z, n) <=> k - n \in z
    BY <1>2 DEF Shl
  <1>3. x \in SUBSET (0..31)
    OBVIOUS
  <1>. HIDE DEF s
  <1>4. odd = s(x, 1) \cup s(x, 11)
    <2>1. s(x, 1) \cap s(x, 11) = {} /\ s(x, 1) \in SUBSET (0..31) /\ s(x, 11) \in SUBSET (0..31)
      BY <1>2, <1>3
    <2>. QED  BY <2>1, PlusOfDisjoint, Zenon
  <1>5. even = s(x, 5) \cup s(x, 15)
    <2>1. s(x, 5) \cap s(x, 15) = {} /\ s(x, 5) \in SUBSET (0..31) /\ s(x, 15) \in SUBSET (0..31)
      BY <1>2, <1>3
    <2>. QED  BY <2>1, PlusOfDisjoint, Zenon
  <1>. HIDE DEF odd, even
  <1>6. /\ v \subseteq {4, 6, 8, 10, 13, 15, 17, 19} /\ v \in SUBSET (0..31)
        /\ 4 \in v <=> 3 \in x
        /\ 6 \in v <=> 1 \in x
        /\ 8 \in v <=> 7 \in x
        /\ 10 \in v <=> 5 \in x
        /\ 13 \in v <=> 2 \in x
        /\ 15 \in v <=> 0 \in x
        /\ 17 \in v <=> 6 \in x
        /\ 19 \in v <=> 4 \in x
    <2>1. v \subseteq {4, 6, 8, 10, 13, 15, 17, 19} /\ v \in SUBSET (0..31)
      OBVIOUS
    <2>2. /\ 4 \in v <=> 4 \in odd
          /\ 8 \in v <=> 8 \in odd
          /\ 13 \in v <=> 13 \in odd
          /\ 17 \in v <=> 17 \in odd
          /\ 6 \in v <=> 6 \in even
          /\ 10 \in v <=> 10 \in even
          /\ 15 \in v <=> 15 \in even
          /\ 19 \in v <=> 19 \in even
      OBVIOUS
    <2>. HIDE DEF v
    <2>3. /\ 4 \in odd <=> 3 \in x
          /\ 8 \in odd <=> 7 \in x
          /\ 13 \in odd <=> 2 \in x
          /\ 17 \in odd <=> 6 \in x
      <3>1. \A k \in 0..31 : k \in odd <=> k - 1 \in x \/ k - 11 \in x
        BY <1>2, <1>3, <1>4
      <3>. QED  BY <3>1
    <2>4. /\ 6 \in even <=> 1 \in x
          /\ 10 \in even <=> 5 \in x
          /\ 15 \in even <=> 0 \in x
          /\ 19 \in even <=> 4 \in x
      <3>1. \A k \in 0..31 : k \in even <=> k - 5 \in x \/ k - 15 \in x
        BY <1>2, <1>3, <1>5
      <3>. QED  BY <3>1
    <2>. QED  BY <2>1, <2>2, <2>3, <2>4
  <1>. HIDE DEF v
  <1>7. p = v \cup s(v, 8)
    <2>1. s(v, 8) \in SUBSET (0..31)
      BY <1>2, <1>6
    <2>2. ASSUME NEW k \in v PROVE k \notin s(v, 8)
      <3>1. k \in 0..31 /\ k \in {4, 6, 8, 10, 13, 15, 17, 19}
        BY <1>6, <2>2
      <3>2. k - 8 \notin v
        BY <1>6, <3>1
      <3>. QED  BY <1>2, <1>6, <3>1, <3>2
    <2>. QED  BY <1>6, <2>1, <2>2, PlusOfDisjoint
  <1>8. q = p \cup s(v, 16)
    <2>1. /\ s(v, 8) \in SUBSET (0..31) /\ s(v, 16) \in SUBSET (0..31)
          /\ \A k \in 0..31 : k \in s(v, 8) <=> k - 8 \in v
          /\ \A k \in 0..31 : k \in s(v, 16) <=> k - 16 \in v
      <3>1. 8 \in 0..31 /\ 16 \in 0..31 /\ v \in SUBSET (0..31)
        BY <1>6
      <3>. QED  BY <1>2, <3>1, Zenon
    <2>2. ASSUME NEW k \in 0..31, k - 16 \in v PROVE k \notin v /\ k - 8 \notin v
      <3>1. k - 16 \in {4, 6, 8, 10, 13, 15, 17, 19}
        BY <1>6, <2>2
      <3>2. k \in {20, 22, 24, 26, 29, 31}
        BY <2>2, <3>1
      <3>. QED  BY <1>6, <3>2
    <2>3. p \in SUBSET (0..31)
      BY <1>6, <1>7, <2>1
    <2>4. p \cap s(v, 16) = {}
      <3>1. ASSUME NEW k \in s(v, 16) PROVE k \notin p
        <4>1. k \in 0..31 /\ k - 16 \in v
          BY <2>1, <3>1
        <4>2. k \notin v /\ k \notin s(v, 8)
          BY <2>1, <2>2, <4>1
        <4>. QED  BY <1>7, <4>2, Zenon
      <3>. QED  BY <3>1, Zenon
    <2>. QED  BY <2>1, <2>3, <2>4, PlusOfDisjoint, Zenon
  <1>. HIDE DEF p, q
  <1>9. \A k \in 0..31 : k \in q <=> k \in v \/ k - 8 \in v \/ k - 16 \in v
    BY <1>2, <1>6, <1>7, <1>8
  <1>10. /\ REVERSE_BYTE(x) \in SUBSET (0..7)
         /\ \A i \in 0..7 : i \in REVERSE_BYTE(x) <=> i + 16 \in q
    BY <1>1 DEF Shr
  <1>11. ASSUME NEW i \in 0..7 PROVE i + 16 \in q <=> 7 - i \in x
    <2>1. i + 16 \in q <=> i + 16 \in v \/ i + 8 \in v \/ i \in v
      BY <1>9
    <2>2. i \in {0, 1, 2, 3, 4, 5, 6, 7}
      OBVIOUS
    <2>3. \A k \in 0..31 : k \notin {4, 6, 8, 10, 13, 15, 17, 19} => k \notin v
      BY <1>6
    <2>4. CASE i = 0 BY <1>6, <2>1, <2>3, <2>4
    <2>5. CASE i = 1 BY <1>6, <2>1, <2>3, <2>5
    <2>6. CASE i = 2 BY <1>6, <2>1, <2>3, <2>6
    <2>7. CASE i = 3 BY <1>6, <2>1, <2>3, <2>7
    <2>8. CASE i = 4 BY <1>6, <2>1, <2>3, <2>8
    <2>9. CASE i = 5 BY <1>6, <2>1, <2>3, <2>9
    <2>10. CASE i = 6 BY <1>6, <2>1, <2>3, <2>10
    <2>11. CASE i = 7 BY <1>6, <2>1, <2>3, <2>11
    <2>. QED  BY <2>2, <2>4, <2>5, <2>6, <2>7, <2>8, <2>9, <2>10, <2>11
  <1>. QED  BY <1>10, <1>11

(* The first row of a map, reversed.                                        *)
LEMMA RowReversed ==
    ASSUME NEW m \in AllMaps
    PROVE  FirstRow(REVERSE_BYTE(ByteOf(m)))
             = {<<7 - p[1], 0>> : p \in {q \in m : q[2] = 0}}
  <1>. DEFINE b == ByteOf(m)
              r == REVERSE_BYTE(b)
              t == {<<7 - p[1], 0>> : p \in {q \in m : q[2] = 0}}
  <1>1. b \in SUBSET (0..7) /\ \A i \in 0..7 : i \in b <=> <<i, 0>> \in m
    BY DEF ByteOf
  <1>. HIDE DEF b
  <1>2. r \in SUBSET (0..7) /\ \A i \in 0..7 : i \in r <=> 7 - i \in b
    BY <1>1, ReverseByte
  <1>. HIDE DEF r
  <1>3. FirstRow(r) = r \X {0}
    BY DEF FirstRow
  <1>4. \A q \in m : \E i, j \in 0..7 : q = <<i, j>>
    BY DEF AllMaps
  <1>5. t \subseteq (0..7) \X {0}
    BY <1>4
  <1>6. ASSUME NEW i \in 0..7 PROVE <<i, 0>> \in t <=> i \in r
    <2>1. ASSUME i \in r PROVE <<i, 0>> \in t
      <3>1. <<7 - i, 0>> \in m /\ 7 - (7 - i) = i
        BY <1>1, <1>2, <1>6, <2>1
      <3>2. <<7 - i, 0>>[1] = 7 - i /\ <<7 - i, 0>>[2] = 0
        OBVIOUS
      <3>. QED  BY <3>1, <3>2
    <2>2. ASSUME NEW q \in m, q[2] = 0, <<7 - q[1], 0>> = <<i, 0>> PROVE i \in r
      <3>1. PICK k, l \in 0..7 : q = <<k, l>>
        BY <1>4, <2>2
      <3>2. q = <<7 - i, 0>> /\ 7 - i \in 0..7
        BY <1>6, <2>2, <3>1
      <3>. QED  BY <1>1, <1>2, <1>6, <2>2, <3>2
    <2>. QED  BY <2>1, <2>2
  <1>7. \A e \in (0..7) \X {0} : e \in t <=> e \in r \X {0}
    BY <1>6
  <1>. HIDE DEF t
  <1>8. t = r \X {0}
    BY <1>2, <1>5, <1>7
  <1>. QED  BY <1>3, <1>8 DEF r, b, t

-----------------------------------------------------------------------------
(* The theorems about maps and rows                                         *)

(* The map stays one, and what was done to it is what was asked for. *)
MapsInv ==
    /\ rot \in 0..3 /\ given \in AllMaps
    /\ machine \in [lp64 : BOOLEAN, big : BOOLEAN]
    /\ MapTurnsEveryLed
    /\ LevelMapTurnsEveryLed
    /\ RowIsReversed

(* Whatever was called did its work.                                        *)
LEMMA MapsInvariance == MapSpec => []MapsInv
  <1>. USE DEF MapTurnsEveryLed, LevelMapTurnsEveryLed, RowIsReversed
  <1>1. MapInit => MapsInv
    BY BitmapsAssumption DEF MapInit, MapsInv, Rotations, Points, AllMaps
  <1>2. MapsInv /\ [MapNext]_mapVars => MapsInv'
    <2>. SUFFICES ASSUME MapsInv, [MapNext]_mapVars PROVE MapsInv'
      OBVIOUS
    <2>1. /\ rot \in 0..3 /\ given \in AllMaps
          /\ machine \in [lp64 : BOOLEAN, big : BOOLEAN]
      BY DEF MapsInv
    <2>. DEFINE leds == {output_cb(rot, 8, 8, p) : p \in given}
    <2>2. Turned(rot, given, leds)
      BY <2>1, LedsTurn
    <2>3. map_cb(rot, given, machine) = leds
      BY <2>1, <2>2, map_cbTurns, SamePicture
    <2>4. Lit(level_map_cb(rot, Levels(given))) = leds
      BY <2>1, <2>2, level_map_cbTurns, SamePicture
    <2>5. FirstRow(REVERSE_BYTE(ByteOf(given)))
            = {<<7 - p[1], 0>> : p \in {q \in given : q[2] = 0}}
      BY <2>1, RowReversed
    <2>6. CASE CallMap
      BY <2>1, <2>3, <2>6 DEF MapsInv, CallMap, Call
    <2>7. CASE CallLevelMap
      BY <2>1, <2>4, <2>7 DEF MapsInv, CallLevelMap, Call
    <2>8. CASE CallReverse
      BY <2>1, <2>5, <2>8 DEF MapsInv, CallReverse, Call
    <2>9. CASE UNCHANGED mapVars
      BY <2>9 DEF MapsInv, mapVars
    <2>. QED  BY <2>6, <2>7, <2>8, <2>9 DEF MapNext
  <1>. QED  BY <1>1, <1>2, PTL DEF MapSpec

(* The shifts and masks of the map callbacks turn every one of the 2^64     *)
(* maps as output_cb turns its LEDs, in every rotation and on every         *)
(* machine.                                                                 *)
THEOREM EveryMapTurns == MapSpec => []MapTurnsEveryLed
  <1>1. MapsInv => MapTurnsEveryLed
    BY DEF MapsInv
  <1>. QED  BY <1>1, MapsInvariance, PTL

(* The index arithmetic of the level map callbacks turns every map of       *)
(* levels alike, so that monome_led_map() and monome_led_level_map() agree. *)
THEOREM EveryLevelMapTurns == MapSpec => []LevelMapTurnsEveryLed
  <1>1. MapsInv => LevelMapTurnsEveryLed
    BY DEF MapsInv
  <1>. QED  BY <1>1, MapsInvariance, PTL

(* REVERSE_BYTE puts bit 7 - i of every byte where bit i was.               *)
THEOREM EveryRowIsReversed == MapSpec => []RowIsReversed
  <1>1. MapsInv => RowIsReversed
    BY DEF MapsInv
  <1>. QED  BY <1>1, MapsInvariance, PTL

=============================================================================
