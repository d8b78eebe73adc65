---------------------------- MODULE SharedLemmas ----------------------------
(***************************************************************************)
(* What several of the proofs need to know: of sequences, how they are     *)
(* cut, shortened at the front and lengthened at the end; of module        *)
(* Rotation, that its two translations are inverse to each other and stay  *)
(* inside the grid, for grids of every size; and that what holds of 0 and  *)
(* of the successor of each number it holds of holds of all.               *)
(***************************************************************************)
EXTENDS Rotation, Sequences, SequenceTheorems, WellFoundedInduction, TLAPS

(* A set that has 0, and with each number the next, has all. *)
LEMMA NatByInduction ==
    ASSUME NEW S, 0 \in S, \A n \in Nat : n \in S => n + 1 \in S
    PROVE  Nat \subseteq S
  <1>. DEFINE T == Nat \ S
              R == OpToRel(<, Nat)
  <1>1. SUFFICES ASSUME T # {} PROVE FALSE
    OBVIOUS
  <1>2. IsWellFoundedOn(R, Nat)
    BY NatLessThanWellFounded
  <1>3. T \subseteq Nat
    OBVIOUS
  <1>. HIDE DEF T, R
  <1>4. \E x \in T : \A y \in T : ~ (<<y, x>> \in R)
    BY <1>1, <1>2, <1>3, WFMin
  <1>5. PICK x \in T : \A y \in T : ~ (<<y, x>> \in R)
    BY <1>4
  <1>6. x \in Nat /\ x \notin S /\ x # 0
    BY <1>5 DEF T
  <1>7. x - 1 \in Nat /\ x - 1 \notin S
    BY <1>6
  <1>8. x - 1 \in T
    BY <1>7 DEF T
  <1>9. <<x - 1, x>> \in R
    BY <1>6, <1>7 DEF R, OpToRel
  <1>. QED  BY <1>5, <1>8, <1>9

-----------------------------------------------------------------------------
(* Sequences                                                                *)

(* A sequence cut in two, as a read() cuts the input buffer and the line a  *)
(* stream.                                                                  *)
LEMMA Pieces ==
    ASSUME NEW S, NEW s \in Seq(S), NEW k \in 0..Len(s)
    PROVE  /\ SubSeq(s, 1, k) \in Seq(S) /\ SubSeq(s, k + 1, Len(s)) \in Seq(S)
           /\ s = SubSeq(s, 1, k) \o SubSeq(s, k + 1, Len(s))
  <1>1. \A i \in 1..Len(s) : s[i] \in S
    BY ElementOfSeq
  <1>2. Len(s) \in Nat /\ k \in Int /\ k <= Len(s) /\ 0 <= k
    BY LenProperties
  <1>3. SubSeq(s, 1, k) \in Seq(S)
    <2>1. \A i \in 1..k : s[i] \in S
      BY <1>1, <1>2
    <2>. QED  BY <1>2, <2>1, SubSeqProperties
  <1>4. SubSeq(s, k + 1, Len(s)) \in Seq(S)
    <2>1. \A i \in k + 1 .. Len(s) : s[i] \in S
      BY <1>1, <1>2
    <2>2. k + 1 \in Int /\ Len(s) \in Int
      BY <1>2
    <2>. QED  BY <2>1, <2>2, SubSeqProperties, Zenon
  <1>5. SubSeq(s, 1, k) \o SubSeq(s, k + 1, Len(s)) = s
    <2>1. /\ 1 \in 1 .. Len(s) + 1 /\ k \in 1 - 1 .. Len(s)
          /\ Len(s) \in k .. Len(s)
      BY <1>2
    <2>2. SubSeq(s, 1, k) \o SubSeq(s, k + 1, Len(s)) = SubSeq(s, 1, Len(s))
      BY <2>1, ConcatAdjacentSubSeq, Zenon
    <2>. QED  BY <2>2, SubSeqFull
  <1>. QED  BY <1>3, <1>4, <1>5

(* The first element and the others. *)
LEMMA FirstIsHead ==
    ASSUME NEW T, NEW s \in Seq(T), s # <<>>
    PROVE  s = <<Head(s)>> \o Tail(s)
  <1>. PICK len \in Nat \ {0} : len = Len(s)
    BY EmptySeq, LenProperties, Zenon
  <1>1. 1 \in 1..len /\ len \in 1..len
    OBVIOUS
  <1>2. SubSeq(s, 1, len) = <<s[1]>> \o SubSeq(s, 2, len)
    BY <1>1, SubSeqRecursiveFirst
  <1>3. SubSeq(s, 1, len) = s /\ SubSeq(s, 2, len) = Tail(s)
    BY SubSeqFull, TailIsSubSeq
  <1>4. Head(s) = s[1]
    BY <1>1, <1>3, HeadTailOfSubSeq
  <1>. QED  BY <1>2, <1>3, <1>4

(* What is first stays first when a queue grows at the end. *)
LEMMA HeadTailConcat ==
    ASSUME NEW T, NEW p \in Seq(T), NEW x \in Seq(T), p # <<>>
    PROVE  /\ p \o x # <<>>
           /\ Head(p \o x) = Head(p)
           /\ Tail(p \o x) = Tail(p) \o x
  <1>1. Len(p) \in Nat \ {0} /\ Len(x) \in Nat
    BY EmptySeq, LenProperties
  <1>2. /\ p \o x \in Seq(T) /\ Len(p \o x) = Len(p) + Len(x)
        /\ \A i \in 1 .. Len(p) + Len(x) : (p \o x)[i] =
                     IF i <= Len(p) THEN p[i] ELSE x[i - Len(p)]
    BY ConcatProperties
  <1>3. p \o x # <<>>
    BY <1>1, <1>2
  <1>4. Head(p \o x) = Head(p)
    <2>1. 1 \in 1 .. Len(p) + Len(x) /\ 1 <= Len(p)
      BY <1>1
    <2>2. (p \o x)[1] = p[1]
      BY <1>2, <2>1
    <2>. QED  BY <1>2, <1>3, <2>2
  <1>5. Tail(p \o x) = Tail(p) \o x
    <2>1. /\ Tail(p) \in Seq(T) /\ Len(Tail(p)) = Len(p) - 1
          /\ \A i \in 1 .. Len(Tail(p)) : Tail(p)[i] = p[i + 1]
      BY HeadTailProperties
    <2>2. /\ Tail(p \o x) \in Seq(T) /\ Len(Tail(p \o x)) = Len(p) + Len(x) - 1
          /\ \A i \in 1 .. Len(Tail(p \o x)) : Tail(p \o x)[i] = (p \o x)[i + 1]
      BY <1>2, <1>3, HeadTailProperties
    <2>3. /\ Tail(p) \o x \in Seq(T) /\ Len(Tail(p) \o x) = Len(p) - 1 + Len(x)
          /\ \A i \in 1 .. Len(p) - 1 + Len(x) : (Tail(p) \o x)[i] =
                 IF i <= Len(p) - 1 THEN Tail(p)[i] ELSE x[i - (Len(p) - 1)]
      BY <2>1, ConcatProperties
    <2>4. ASSUME NEW i \in 1 .. Len(Tail(p \o x))
          PROVE  Tail(p \o x)[i] = (Tail(p) \o x)[i]
      <3>. i \in 1 .. Len(p) + Len(x) - 1 /\ i + 1 \in 1 .. Len(p) + Len(x)
        BY <1>1, <2>2
      <3>1. Tail(p \o x)[i] = (p \o x)[i + 1]
        BY <2>2
      <3>2. (p \o x)[i + 1] = IF i + 1 <= Len(p) THEN p[i + 1] ELSE x[i + 1 - Len(p)]
        BY <1>2
      <3>3. i \in 1 .. Len(p) - 1 + Len(x)
        BY <1>1
      <3>4. (Tail(p) \o x)[i] = IF i <= Len(p) - 1 THEN Tail(p)[i] ELSE x[i - (Len(p) - 1)]
        BY <2>3, <3>3
      <3>5. i <= Len(p) - 1 <=> i + 1 <= Len(p)
        BY <1>1
      <3>6. i + 1 - Len(p) = i - (Len(p) - 1)
        BY <1>1
      <3>7. i <= Len(p) - 1 => Tail(p)[i] = p[i + 1]
        BY <1>1, <2>1
      <3>. QED  BY <3>1, <3>2, <3>4, <3>5, <3>6, <3>7
    <2>5. Len(Tail(p \o x)) = Len(Tail(p) \o x)
      BY <1>1, <2>2, <2>3
    <2>. QED  BY <2>2, <2>3, <2>4, <2>5, SeqEqual
  <1>. QED  BY <1>3, <1>4, <1>5

(* A sequence of one element. *)
LEMMA OneElement ==
    ASSUME NEW e
    PROVE  <<e>> # <<>> /\ Head(<<e>>) = e /\ Tail(<<e>>) = <<>>
  OBVIOUS

(* The first k elements of a sequence stay when it grows. *)
LEMMA PrefixStays ==
    ASSUME NEW T, NEW s \in Seq(T), NEW e \in T, NEW k \in 0..Len(s)
    PROVE  /\ SubSeq(Append(s, e), 1, k) = SubSeq(s, 1, k)
           /\ Len(SubSeq(s, 1, k)) = k
  <1>. Len(s) \in Nat
    BY LenProperties
  <1>1. SubSeq(Append(s, e), 1, k) = SubSeq(s, 1, k)
    <2>1. CASE k = 0
      BY <2>1, SubSeqEmpty
    <2>2. CASE k # 0
      <3>1. 1 \in 1..Len(s) /\ k \in 1..Len(s)
        BY <2>2
      <3>2. <<e>> \in Seq(T) /\ Append(s, e) = s \o <<e>>
        BY AppendIsConcat
      <3>. QED  BY <3>1, <3>2, SubSeqOfConcat1
    <2>. QED  BY <2>1, <2>2
  <1>2. Len(SubSeq(s, 1, k)) = k
    <2>1. \A i \in 1..k : s[i] \in T
      BY ElementOfSeq
    <2>2. 1 \in Int /\ k \in Int
      OBVIOUS
    <2>3. Len(SubSeq(s, 1, k)) = IF 1 <= k THEN k - 1 + 1 ELSE 0
      BY <2>1, <2>2, SubSeqProperties
    <2>. QED  BY <2>3
  <1>. QED  BY <1>1, <1>2

(* What is left of a sequence of which n elements were used. *)
LEMMA WhatIsLeft ==
    ASSUME NEW T, NEW h \in Seq(T), NEW n \in 0..Len(h), NEW q,
           q = SubSeq(h, n + 1, Len(h))
    PROVE  /\ q \in Seq(T)
           /\ q # <<>> => /\ n + 1 \in 0..Len(h)
                          /\ Tail(q) = SubSeq(h, n + 1 + 1, Len(h))
  <1>. PICK len \in Nat : len = Len(h)
    BY LenProperties
  <1>0. n \in 0..len
    OBVIOUS
  <1>1. q \in Seq(T)
    BY Pieces
  <1>2. ASSUME q # <<>>
        PROVE  n + 1 \in 0..Len(h) /\ Tail(q) = SubSeq(h, n + 1 + 1, Len(h))
    <2>1. n # len
      <3>1. SUFFICES ASSUME n = len PROVE FALSE
        OBVIOUS
      <3>2. n + 1 \in Int /\ len \in Int /\ len < n + 1
        BY <1>0, <3>1
      <3>. QED  BY <1>2, <3>2, SubSeqEmpty
    <2>2. n + 1 \in 1..len /\ len \in n + 1 .. len
      BY <1>0, <2>1
    <2>3. Tail(SubSeq(h, n + 1, len)) = SubSeq(h, n + 1 + 1, len)
      BY <2>2, HeadTailOfSubSeq
    <2>. QED  BY <2>2, <2>3
  <1>. QED  BY <1>1, <1>2

(* What is left grows with the sequence. *)
LEMMA LeftGrows ==
    ASSUME NEW T, NEW h \in Seq(T), NEW n \in 0..Len(h), NEW e \in T
    PROVE  SubSeq(Append(h, e), n + 1, Len(Append(h, e)))
             = SubSeq(h, n + 1, Len(h)) \o <<e>>
  <1>. PICK len \in Nat : len = Len(h)
    BY LenProperties
  <1>0. n \in 0..len
    OBVIOUS
  <1>. DEFINE g == Append(h, e)
  <1>1. /\ g \in Seq(T) /\ Len(g) = len + 1 /\ g[len + 1] = e
        /\ g = h \o <<e>> /\ <<e>> \in Seq(T)
    BY AppendProperties, AppendIsConcat
  <1>. HIDE DEF g
  <1>2. n + 1 \in 1..Len(g) /\ Len(g) \in n + 1 .. Len(g) /\ Len(g) - 1 = len
    BY <1>0, <1>1
  <1>3. SubSeq(g, n + 1, Len(g)) = SubSeq(g, n + 1, Len(g) - 1) \o <<g[Len(g)]>>
    BY <1>1, <1>2, SubSeqRecursiveSecond
  <1>4. SubSeq(g, n + 1, len) = SubSeq(h, n + 1, len)
    <2>1. CASE n = len
      <3>1. n + 1 \in Int /\ len \in Int /\ len < n + 1
        BY <2>1
      <3>. QED  BY <3>1, SubSeqEmpty
    <2>2. CASE n # len
      <3>1. n + 1 \in 1..len /\ len \in 1..len
        BY <1>0, <2>2
      <3>. QED  BY <1>1, <3>1, SubSeqOfConcat1
    <2>. QED  BY <2>1, <2>2
  <1>. QED  BY <1>1, <1>2, <1>3, <1>4 DEF g

-----------------------------------------------------------------------------
(* Rotation                                                                 *)

(* Reducing a number that is in range changes nothing. *)
LEMMA ModSmall ==
    ASSUME NEW n \in Nat \ {0}, NEW x \in 0 .. n - 1
    PROVE  x % n = x
  BY SMT

(* An unsigned subtraction that does not go below zero does not wrap. *)
LEMMA SubExact ==
    ASSUME NEW a \in Nat, NEW b \in 0 .. a, a < UintRange
    PROVE  Sub(a, b) = a - b
  <1>1. UintRange \in Nat \ {0} /\ a - b \in 0 .. UintRange - 1
    BY UintAssumption
  <1>. QED  BY <1>1, ModSmall DEF Sub

(* Counting a coordinate from the other end of n places, reduced modulo n   *)
(* or not, yields a coordinate again.                                       *)
LEMMA Mirror ==
    ASSUME NEW n \in 1 .. UintRange, NEW i \in 0 .. n - 1
    PROVE  /\ Sub(n - 1, i) = n - 1 - i
           /\ Sub(n - 1, i) % n = n - 1 - i
           /\ n - 1 - i \in 0 .. n - 1
  <1>. UintRange \in Nat \ {0}
    BY UintAssumption
  <1>1. n \in Nat \ {0} /\ n - 1 \in Nat /\ i \in 0 .. n - 1 /\ n - 1 < UintRange
    OBVIOUS
  <1>2. Sub(n - 1, i) = n - 1 - i
    BY <1>1, SubExact
  <1>3. n - 1 - i \in 0 .. n - 1
    BY <1>1
  <1>. QED  BY <1>1, <1>2, <1>3, ModSmall

(* Sizes the translations are defined for. *)
GridSize == 1 .. UintRange

(* What monome_set_rotation() stores is one of the four rotations. *)
LEMMA RotationOfInRange ==
    ASSUME NEW arg \in Int
    PROVE  RotationOf(arg) \in Rotations
  BY DEF RotationOf, Rotations

(* What the application addresses inside the grid is a place of the         *)
(* hardware.                                                                *)
LEMMA OutputStaysInside ==
    ASSUME NEW rot \in Rotations, NEW c \in GridSize, NEW r \in GridSize,
           NEW p \in LogicalGrid(rot, c, r)
    PROVE  output_cb(rot, c, r, p) \in HardwareGrid(c, r)
  <1>. USE DEF LogicalGrid, HardwareGrid, output_cb, r90_output_cb,
               r180_output_cb, r270_output_cb, monome_get_cols,
               monome_get_rows, ROW_COL_SWAP, GridSize
  <1>1. CASE rot = 0
    BY <1>1
  <1>2. CASE rot = 1
    <2>1. p[1] \in 0 .. r - 1 /\ p[2] \in 0 .. c - 1
      BY <1>2
    <2>2. Sub(r - 1, p[1]) \in 0 .. r - 1
      BY <2>1, Mirror
    <2>. QED  BY <1>2, <2>1, <2>2
  <1>3. CASE rot = 2
    <2>1. p[1] \in 0 .. c - 1 /\ p[2] \in 0 .. r - 1
      BY <1>3
    <2>2. Sub(c - 1, p[1]) \in 0 .. c - 1 /\ Sub(r - 1, p[2]) \in 0 .. r - 1
      BY <2>1, Mirror
    <2>. QED  BY <1>3, <2>1, <2>2
  <1>4. CASE rot = 3
    <2>1. p[1] \in 0 .. r - 1 /\ p[2] \in 0 .. c - 1
      BY <1>4
    <2>2. Sub(c - 1, p[2]) \in 0 .. c - 1
      BY <2>1, Mirror
    <2>. QED  BY <1>4, <2>1, <2>2
  <1>. QED  BY <1>1, <1>2, <1>3, <1>4 DEF Rotations

(* A key inside the grid yields coordinates inside the grid as it lies, and  *)
(* addressing them leads back to the key.                                   *)
LEMMA InputStaysInside ==
    ASSUME NEW rot \in Rotations, NEW c \in GridSize, NEW r \in GridSize,
           NEW k \in HardwareGrid(c, r)
    PROVE  /\ input_cb(rot, c, r, k) \in LogicalGrid(rot, c, r)
           /\ output_cb(rot, c, r, input_cb(rot, c, r, k)) = k
  <1>. USE DEF LogicalGrid, HardwareGrid, output_cb, r90_output_cb,
               r180_output_cb, r270_output_cb, input_cb, r90_input_cb,
               r180_input_cb, r270_input_cb, monome_get_cols,
               monome_get_rows, ROW_COL_SWAP, GridSize
  <1>1. PICK i \in 0 .. c - 1, j \in 0 .. r - 1 : k = <<i, j>>
    OBVIOUS
  <1>2. /\ Sub(c - 1, i) % c = c - 1 - i /\ c - 1 - i \in 0 .. c - 1
        /\ Sub(r - 1, j) % r = r - 1 - j /\ r - 1 - j \in 0 .. r - 1
    BY Mirror
  <1>3. /\ Sub(c - 1, c - 1 - i) = i
        /\ Sub(r - 1, r - 1 - j) = j
    <2>1. /\ Sub(c - 1, c - 1 - i) = c - 1 - (c - 1 - i)
          /\ Sub(r - 1, r - 1 - j) = r - 1 - (r - 1 - j)
      BY <1>2, Mirror
    <2>. QED  BY <2>1
  <1>4. CASE rot = 0
    BY <1>1, <1>4
  <1>5. CASE rot = 1
    <2>1. input_cb(rot, c, r, k) = <<r - 1 - j, i>>
      BY <1>1, <1>2, <1>5
    <2>. QED  BY <1>1, <1>2, <1>3, <1>5, <2>1
  <1>6. CASE rot = 2
    <2>1. input_cb(rot, c, r, k) = <<c - 1 - i, r - 1 - j>>
      BY <1>1, <1>2, <1>6
    <2>. QED  BY <1>1, <1>2, <1>3, <1>6, <2>1
  <1>7. CASE rot = 3
    <2>1. input_cb(rot, c, r, k) = <<j, c - 1 - i>>
      BY <1>1, <1>2, <1>7
    <2>. QED  BY <1>1, <1>2, <1>3, <1>7, <2>1
  <1>. QED  BY <1>4, <1>5, <1>6, <1>7, SMT DEF Rotations

(* Wherever the key is, the coordinates are numbers of the order of the     *)
(* grid's size or of the key's own coordinates.                             *)
LEMMA InputIsBounded ==
    ASSUME NEW rot \in Rotations, NEW c \in GridSize, NEW r \in GridSize,
           NEW i \in Nat, NEW j \in Nat
    PROVE  input_cb(rot, c, r, <<i, j>>)
               \in (0 .. i + j + c + r) \X (0 .. i + j + c + r)
  <1>. USE DEF input_cb, r90_input_cb, r180_input_cb, r270_input_cb,
               monome_get_cols, monome_get_rows, ROW_COL_SWAP, GridSize
  <1>. DEFINE bound == i + j + c + r
  <1>1. UintRange \in Nat \ {0} /\ c \in Nat \ {0} /\ r \in Nat \ {0}
    BY UintAssumption
  <1>2. \A n \in {c, r}, k \in {i, j} : Sub(n - 1, k) % n \in 0 .. n - 1
    <2>1. SUFFICES ASSUME NEW n \in {c, r}, NEW k \in {i, j}
                   PROVE  Sub(n - 1, k) % n \in 0 .. n - 1
      OBVIOUS
    <2>2. n \in Nat \ {0} /\ n - 1 - k \in Int
      BY <1>1
    <2>3. Sub(n - 1, k) \in Int
      BY <1>1, <2>2 DEF Sub
    <2>. QED  BY <2>2, <2>3
  <1>3. /\ Sub(c - 1, j) % c \in 0 .. bound
        /\ Sub(c - 1, i) % c \in 0 .. bound
        /\ Sub(r - 1, j) % r \in 0 .. bound
        /\ Sub(r - 1, i) % r \in 0 .. bound
        /\ i \in 0 .. bound /\ j \in 0 .. bound
    BY <1>1, <1>2
  <1>4. CASE rot = 0
    BY <1>3, <1>4
  <1>5. CASE rot = 1
    BY <1>3, <1>5
  <1>6. CASE rot = 2
    BY <1>3, <1>6
  <1>7. CASE rot = 3
    BY <1>3, <1>7
  <1>. QED  BY <1>4, <1>5, <1>6, <1>7 DEF Rotations

=============================================================================
