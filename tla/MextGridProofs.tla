--------------------------- MODULE MextGridProofs ---------------------------
(***************************************************************************)
(* Proofs about the LED functions of the mext protocol: what they send is  *)
(* well formed, and once the device has executed it the application sees   *)
(* the picture that GridFrame promises, for grids of all sizes, in every   *)
(* rotation, with any messages under way and any that were not written.    *)
(***************************************************************************)
EXTENDS MextGrid, SharedLemmas, SequenceTheorems, FiniteSetTheorems, TLAPS

-----------------------------------------------------------------------------
(* Messages are executed in the order they were sent                        *)

(* The largest of the numbers from 1 on. *)
LEMMA LargestIn ==
    ASSUME NEW n \in Nat, NEW t \in SUBSET (1..n), t # {}
    PROVE  Max(t) \in t /\ \A i \in t : i <= Max(t)
  <1>. DEFINE S == {k \in Nat : \A u \in SUBSET (1..k) : u # {} => \E m \in u : \A i \in u : i <= m}
  <1>1. 0 \in S
    <2>1. \A u \in SUBSET (1..0) : u = {}
      OBVIOUS
    <2>. QED  BY <2>1
  <1>2. ASSUME NEW k \in Nat, k \in S
        PROVE  k + 1 \in S
    <2>1. SUFFICES ASSUME NEW u \in SUBSET (1 .. k + 1), u # {}
                   PROVE  \E m \in u : \A i \in u : i <= m
      OBVIOUS
    <2>2. CASE k + 1 \in u
      BY <2>2
    <2>3. CASE k + 1 \notin u
      <3>1. u \in SUBSET (1..k)
        BY <2>3
      <3>. QED  BY <1>2, <3>1, <2>1
    <2>. QED  BY <2>2, <2>3
  <1>. HIDE DEF S
  <1>3. n \in S
    BY <1>1, <1>2, NatByInduction
  <1>4. \E m \in t : \A i \in t : i <= m
    BY <1>3 DEF S
  <1>5. \A i, j \in t : i >= j <=> j <= i
    OBVIOUS
  <1>. QED  BY <1>4, <1>5 DEF Max

(* What a message does to the LEDs, or to the brightness. *)
Parts == {"lit", "brightness"}
Step(part, x, m) == IF part = "lit" THEN Shown(x, m) ELSE Dimmed(x, m)
Fold(part, b, s) == IF part = "lit" THEN FoldLeft(Shown, b, s)
                                    ELSE FoldLeft(Dimmed, b, s)

(* The function of which FoldLeft takes one value. *)
Folding(part, b, s, D, f) ==
    f = [t \in SUBSET D |->
            IF t = {} THEN b ELSE Step(part, f[t \ {Max(t)}], s[Max(t)])]

(* FoldLeft, by the definitions of the community modules.                   *)
LEMMA FoldIs ==
    ASSUME NEW part \in Parts, NEW b, NEW s
    PROVE  Fold(part, b, s) = (CHOOSE f : Folding(part, b, s, DOMAIN s, f))[DOMAIN s]
  <1>1. CASE part = "lit"
    <2>1. \A f : Folding(part, b, s, DOMAIN s, f) <=>
              f = [t \in SUBSET (DOMAIN s) |->
                     IF t = {} THEN b ELSE Shown(f[t \ {Max(t)}], s[Max(t)])]
      BY <1>1 DEF Folding, Step
    <2>2. FoldLeft(Shown, b, s) =
            (CHOOSE f : f = [t \in SUBSET (DOMAIN s) |->
               IF t = {} THEN b ELSE Shown(f[t \ {Max(t)}], s[Max(t)])])[DOMAIN s]
      BY Zenon DEF FoldLeft, MapThenFoldSet
    <2>3. (CHOOSE f : Folding(part, b, s, DOMAIN s, f)) =
            (CHOOSE f : f = [t \in SUBSET (DOMAIN s) |->
               IF t = {} THEN b ELSE Shown(f[t \ {Max(t)}], s[Max(t)])])
      BY <2>1, Zenon
    <2>. QED  BY <1>1, <2>2, <2>3, Zenon DEF Fold
  <1>2. CASE part = "brightness"
    <2>1. \A f : Folding(part, b, s, DOMAIN s, f) <=>
              f = [t \in SUBSET (DOMAIN s) |->
                     IF t = {} THEN b ELSE Dimmed(f[t \ {Max(t)}], s[Max(t)])]
      BY <1>2 DEF Folding, Step
    <2>2. FoldLeft(Dimmed, b, s) =
            (CHOOSE f : f = [t \in SUBSET (DOMAIN s) |->
               IF t = {} THEN b ELSE Dimmed(f[t \ {Max(t)}], s[Max(t)])])[DOMAIN s]
      BY Zenon DEF FoldLeft, MapThenFoldSet
    <2>3. (CHOOSE f : Folding(part, b, s, DOMAIN s, f)) =
            (CHOOSE f : f = [t \in SUBSET (DOMAIN s) |->
               IF t = {} THEN b ELSE Dimmed(f[t \ {Max(t)}], s[Max(t)])])
      BY <2>1, Zenon
    <2>. QED  BY <1>2, <2>2, <2>3, Zenon DEF Fold
  <1>. QED  BY <1>1, <1>2 DEF Parts

(* There is such a function. *)
LEMMA FoldingExists ==
    ASSUME NEW part, NEW b, NEW s, NEW n \in Nat
    PROVE  \E f : Folding(part, b, s, 1..n, f)
  <1>. DEFINE S == {k \in Nat : \E f : Folding(part, b, s, 1..k, f)}
  <1>1. 0 \in S
    <2>. DEFINE f == [t \in SUBSET (1..0) |-> b]
    <2>1. \A t \in SUBSET (1..0) : t = {}
      OBVIOUS
    <2>2. Folding(part, b, s, 1..0, f)
      BY <2>1 DEF Folding
    <2>. QED  BY <2>2
  <1>2. ASSUME NEW k \in Nat, k \in S
        PROVE  k + 1 \in S
    <2>1. PICK f : Folding(part, b, s, 1..k, f)
      BY <1>2
    <2>. DEFINE g == [t \in SUBSET (1 .. k + 1) |->
                        IF t = {} THEN b ELSE Step(part, f[t \ {Max(t)}], s[Max(t)])]
    <2>2. \A u \in SUBSET (1..k) : g[u] = f[u]
      <3>1. \A u \in SUBSET (1..k) : u \in SUBSET (1 .. k + 1)
        OBVIOUS
      <3>2. \A u \in SUBSET (1..k) :
               f[u] = IF u = {} THEN b ELSE Step(part, f[u \ {Max(u)}], s[Max(u)])
        BY <2>1, Zenon DEF Folding
      <3>. QED  BY <3>1, <3>2, Zenon
    <2>3. \A t \in SUBSET (1 .. k + 1) : t # {} => t \ {Max(t)} \in SUBSET (1..k)
      <3>1. SUFFICES ASSUME NEW t \in SUBSET (1 .. k + 1), t # {}, NEW i \in t \ {Max(t)}
                     PROVE  i \in 1..k
        OBVIOUS
      <3>2. k + 1 \in Nat
        OBVIOUS
      <3>3. Max(t) \in t /\ i <= Max(t)
        BY <3>1, <3>2, LargestIn
      <3>4. PICK m : m = Max(t)
        OBVIOUS
      <3>5. m \in 1 .. k + 1 /\ i \in 1 .. k + 1 /\ i <= m /\ i # m
        BY <3>1, <3>3, <3>4
      <3>. QED  BY <3>5
    <2>4. g = [t \in SUBSET (1 .. k + 1) |->
                 IF t = {} THEN b ELSE Step(part, g[t \ {Max(t)}], s[Max(t)])]
      <3>1. \A t \in SUBSET (1 .. k + 1) :
              (IF t = {} THEN b ELSE Step(part, f[t \ {Max(t)}], s[Max(t)]))
                = IF t = {} THEN b ELSE Step(part, g[t \ {Max(t)}], s[Max(t)])
        <4>. HIDE DEF g
        <4>. QED  BY <2>2, <2>3, Zenon
      <3>2. g = [t \in SUBSET (1 .. k + 1) |->
                   IF t = {} THEN b ELSE Step(part, f[t \ {Max(t)}], s[Max(t)])]
        OBVIOUS
      <3>. HIDE DEF g
      <3>. QED  BY <3>1, <3>2, Zenon
    <2>. HIDE DEF g
    <2>5. Folding(part, b, s, 1 .. k + 1, g)
      BY <2>4 DEF Folding
    <2>. QED  BY <2>5
  <1>. HIDE DEF S
  <1>3. n \in S
    BY <1>1, <1>2, NatByInduction
  <1>. QED  BY <1>3 DEF S

(* What was drawn after each message. *)
Run(part, b, s, n, h) ==
    /\ h[0] = b
    /\ \A i \in 1..n : h[i] = Step(part, h[i - 1], s[i])

(* What the messages make of b is the last of these.                        *)
LEMMA FoldRuns ==
    ASSUME NEW part \in Parts, NEW b, NEW n \in Nat, NEW s, DOMAIN s = 1..n
    PROVE  \E h : Run(part, b, s, n, h) /\ Fold(part, b, s) = h[n]
  <1>. DEFINE f == CHOOSE g : Folding(part, b, s, 1..n, g)
              h == [i \in 0..n |-> f[1..i]]
  <1>1. Folding(part, b, s, 1..n, f)
    BY FoldingExists, Zenon
  <1>2. Fold(part, b, s) = f[1..n]
    BY FoldIs
  <1>. HIDE DEF f
  <1>3. \A t \in SUBSET (1..n) :
          f[t] = IF t = {} THEN b ELSE Step(part, f[t \ {Max(t)}], s[Max(t)])
    BY <1>1, Zenon DEF Folding
  <1>4. h[0] = b
    <2>1. 1..0 = {} /\ 1..0 \in SUBSET (1..n) /\ 0 \in 0..n
      OBVIOUS
    <2>2. f[1..0] = b
      BY <1>3, <2>1, Zenon
    <2>. QED  BY <2>1, <2>2, Zenon
  <1>5. ASSUME NEW i \in 1..n
        PROVE  h[i] = Step(part, h[i - 1], s[i])
    <2>1. 1..i \in SUBSET (1..n) /\ 1..i # {} /\ i \in 0..n /\ i - 1 \in 0..n /\ i \in Nat
      <3>1. i \in 1..i
        OBVIOUS
      <3>2. 1..i \in SUBSET (1..n) /\ i \in 0..n /\ i - 1 \in 0..n /\ i \in Nat
        OBVIOUS
      <3>. QED  BY <3>1, <3>2, Zenon
    <2>2. Max(1..i) \in 1..i /\ i <= Max(1..i)
      <3>1. 1..i \in SUBSET (1..i) /\ i \in 1..i
        OBVIOUS
      <3>. QED  BY <2>1, <3>1, LargestIn
    <2>3. Max(1..i) = i /\ (1..i) \ {i} = 1 .. i - 1
      BY <2>2
    <2>4. f[1..i] = Step(part, f[1 .. i - 1], s[i])
      BY <1>3, <2>1, <2>3, Zenon
    <2>. QED  BY <2>1, <2>4, Zenon
  <1>6. h[n] = f[1..n]
    OBVIOUS
  <1>. HIDE DEF h
  <1>. QED  BY <1>2, <1>4, <1>5, <1>6 DEF Run

(* Sequence t holds s, from place off on. *)
Holds(t, off, s, n) == \A i \in 1..n : s[i] = t[i + off]

(* There is only one way to draw the same messages. *)
LEMMA RunsAgree ==
    ASSUME NEW part, NEW b, NEW c, NEW s, NEW t, NEW n \in Nat, NEW m \in Nat,
           NEW off \in Nat, n + off <= m, NEW h, NEW g,
           Run(part, b, s, n, h), Run(part, c, t, m, g), g[off] = b,
           Holds(t, off, s, n)
    PROVE  h[n] = g[n + off]
  <1>. DEFINE S == {k \in Nat : k <= n => h[k] = g[k + off]}
  <1>1. 0 \in S
    BY DEF Run
  <1>2. ASSUME NEW k \in Nat, k \in S
        PROVE  k + 1 \in S
    <2>1. SUFFICES ASSUME k + 1 <= n PROVE h[k + 1] = g[k + 1 + off]
      OBVIOUS
    <2>2. k + 1 \in 1..n /\ k + 1 + off \in 1..m /\ k + 1 - 1 = k /\ k + 1 + off - 1 = k + off
      BY <2>1
    <2>3. h[k + 1] = Step(part, h[k], s[k + 1])
      <3>1. h[k + 1] = Step(part, h[k + 1 - 1], s[k + 1])
        BY <2>2 DEF Run
      <3>. QED  BY <2>2, <3>1
    <2>4. g[k + 1 + off] = Step(part, g[k + off], t[k + 1 + off])
      <3>1. g[k + 1 + off] = Step(part, g[k + 1 + off - 1], t[k + 1 + off])
        BY <2>2 DEF Run
      <3>. QED  BY <2>2, <3>1
    <2>5. h[k] = g[k + off]
      BY <1>2, <2>1
    <2>6. s[k + 1] = t[k + 1 + off]
      BY <2>2 DEF Holds
    <2>. QED  BY <2>3, <2>4, <2>5, <2>6, Zenon
  <1>. HIDE DEF S
  <1>3. n \in S
    BY <1>1, <1>2, NatByInduction
  <1>. QED  BY <1>3 DEF S

(* No messages change nothing.                                              *)
LEMMA FoldNothing ==
    ASSUME NEW part \in Parts, NEW b
    PROVE  Fold(part, b, <<>>) = b
  <1>1. DOMAIN <<>> = 1..0
    OBVIOUS
  <1>2. PICK h : Run(part, b, <<>>, 0, h) /\ Fold(part, b, <<>>) = h[0]
    BY <1>1, FoldRuns
  <1>. QED  BY <1>2 DEF Run

(* One message more, at the end, or one less, at the beginning.             *)
LEMMA OneMore ==
    ASSUME NEW part \in Parts, NEW b, NEW n \in Nat, NEW k \in Nat, k = n + 1,
           NEW s, DOMAIN s = 1..n, NEW a, DOMAIN a = 1..k, Holds(a, 0, s, n)
    PROVE  Fold(part, b, a) = Step(part, Fold(part, b, s), a[k])
  <1>1. PICK h : Run(part, b, s, n, h) /\ Fold(part, b, s) = h[n]
    BY FoldRuns
  <1>2. PICK g : Run(part, b, a, k, g) /\ Fold(part, b, a) = g[k]
    BY FoldRuns
  <1>3. h[n] = g[n]
    <2>1. g[0] = b /\ 0 \in Nat /\ n + 0 <= k /\ n + 0 = n
      BY <1>2 DEF Run
    <2>3. h[n] = g[n + 0]
      BY <1>1, <1>2, <2>1, RunsAgree
    <2>. QED  BY <2>1, <2>3
  <1>4. g[k] = Step(part, g[n], a[k])
    <2>1. k \in 1..k /\ k - 1 = n
      OBVIOUS
    <2>2. g[k] = Step(part, g[k - 1], a[k])
      BY <1>2, <2>1 DEF Run
    <2>. QED  BY <2>1, <2>2
  <1>. QED  BY <1>1, <1>2, <1>3, <1>4

(* The first message may be executed before the others.                     *)
LEMMA OneLess ==
    ASSUME NEW part \in Parts, NEW b, NEW n \in Nat, NEW k \in Nat, k = n + 1,
           NEW s, DOMAIN s = 1..k, NEW t, DOMAIN t = 1..n,
           Holds(s, 1, t, n),
           NEW c, c = Step(part, b, s[1])
    PROVE  Fold(part, c, t) = Fold(part, b, s)
  <1>1. PICK h : Run(part, c, t, n, h) /\ Fold(part, c, t) = h[n]
    BY FoldRuns
  <1>2. PICK g : Run(part, b, s, k, g) /\ Fold(part, b, s) = g[k]
    BY FoldRuns
  <1>3. g[1] = c
    <2>1. 1 \in 1..k /\ 1 - 1 = 0
      OBVIOUS
    <2>2. g[1] = Step(part, g[1 - 1], s[1]) /\ g[0] = b
      BY <1>2, <2>1 DEF Run
    <2>. QED  BY <2>1, <2>2
  <1>4. h[n] = g[n + 1]
    <2>1. 1 \in Nat /\ n + 1 <= k
      OBVIOUS
    <2>. QED  BY <1>1, <1>2, <1>3, <2>1, RunsAgree
  <1>. QED  BY <1>1, <1>2, <1>4

(* What is written last is executed last.                                   *)
LEMMA FoldAppend ==
    ASSUME NEW part \in Parts, NEW b, NEW T, NEW s \in Seq(T), NEW m \in T
    PROVE  Fold(part, b, Append(s, m)) = Step(part, Fold(part, b, s), m)
  <1>1. PICK n \in Nat : n = Len(s)
    BY LenProperties
  <1>2. PICK k \in Nat : k = n + 1
    OBVIOUS
  <1>3. PICK a : a = Append(s, m)
    OBVIOUS
  <1>4. /\ DOMAIN s = 1..n /\ DOMAIN a = 1..k /\ a[k] = m
        /\ \A i \in 1..n : s[i] = a[i]
    BY <1>1, <1>2, <1>3, AppendProperties, LenProperties
  <1>5. Holds(a, 0, s, n)
    BY <1>4 DEF Holds
  <1>6. Fold(part, b, a) = Step(part, Fold(part, b, s), a[k])
    BY <1>2, <1>4, <1>5, OneMore
  <1>. QED  BY <1>3, <1>4, <1>6

(* Messages are executed in the order they were sent. *)
LEMMA FoldHead ==
    ASSUME NEW part \in Parts, NEW b, NEW T, NEW s \in Seq(T), s # <<>>
    PROVE  Fold(part, Step(part, b, Head(s)), Tail(s)) = Fold(part, b, s)
  <1>1. PICK k \in Nat : k = Len(s)
    BY LenProperties
  <1>2. k - 1 \in Nat
    BY <1>1, EmptySeq
  <1>3. PICK n \in Nat : k = n + 1
    BY <1>2
  <1>4. PICK t : t = Tail(s)
    OBVIOUS
  <1>5. /\ t \in Seq(T) /\ Len(t) = Len(s) - 1
        /\ \A i \in 1..Len(t) : t[i] = s[i + 1]
    BY <1>4, HeadTailProperties
  <1>6. DOMAIN s = 1..k /\ DOMAIN t = 1..n /\ Head(s) = s[1] /\ Len(t) = n
    <2>1. Len(t) = n
      <3>1. Len(t) = k - 1
        BY <1>1, <1>5, Zenon
      <3>2. k - 1 = n
        BY <1>3
      <3>. QED  BY <3>1, <3>2, Zenon
    <2>2. DOMAIN s = 1..k /\ DOMAIN t = 1..n
      BY <1>1, <1>5, <2>1, LenProperties
    <2>3. Head(s) = s[1]
      OBVIOUS
    <2>. QED  BY <2>1, <2>2, <2>3
  <1>7. Holds(s, 1, t, n)
    BY <1>5, <1>6 DEF Holds
  <1>8. PICK c : c = Step(part, b, s[1])
    OBVIOUS
  <1>9. Fold(part, c, t) = Fold(part, b, s)
    BY <1>3, <1>6, <1>7, <1>8, OneLess
  <1>. QED  BY <1>4, <1>6, <1>8, <1>9

-----------------------------------------------------------------------------
(* Numbers                                                                  *)

(* What the assumptions say, in one place.                                  *)
LEMMA Constants ==
    /\ Section \in {1, 2, 4, 8} /\ Cols \in 1..255 /\ Rows \in 1..255
    /\ Cols % Section = 0 /\ Rows % Section = 0
    /\ MaxLevel \in Nat /\ UintRange \in Nat \ {0} /\ UintRange % 256 = 0 /\ UintRange >= 256
  <1>1. UintRange \in Nat \ {0} /\ UintRange % 256 = 0 /\ UintRange >= 256
    BY UintAssumption, GridAssumption
  <1>. QED  BY <1>1, GridAssumption

(* A subtraction that wraps round, cut to a byte.                           *)
LEMMA SubBelow ==
    ASSUME NEW a \in 0..255, NEW b \in 0..255, b > a
    PROVE  Sub(a, b) % 256 = a - b + 256
  <1>1. PICK U \in Nat \ {0} : U = UintRange /\ U >= 256 /\ U % 256 = 0
    BY Constants
  <1>2. PICK d \in Int : d = a - b
    OBVIOUS
  <1>3. d \in -255 .. -1
    BY <1>2
  <1>4. d % U = d + U
    <2>1. d + U \in 0 .. U - 1
      BY <1>1, <1>3
    <2>2. d = U * (-1) + (d + U)
      OBVIOUS
    <2>. QED  BY <1>1, <1>3, <2>1, <2>2
  <1>5. (d + U) % 256 = d + 256
    BY <1>1, <1>3
  <1>. QED  BY <1>1, <1>2, <1>4, <1>5 DEF Sub

(* A coordinate counted from the other end of the grid, cut to a byte.      *)
LEMMA FarEnd ==
    ASSUME NEW n \in 1..255, NEW a \in 0..255
    PROVE  Sub(n - 1, a) % 256 = IF a < n THEN n - 1 - a ELSE n - 1 - a + 256
  <1>1. CASE a < n
    <2>1. n - 1 \in Nat /\ a \in 0 .. n - 1 /\ n - 1 < UintRange
      BY <1>1, Constants
    <2>2. Sub(n - 1, a) = n - 1 - a
      BY <2>1, SubExact
    <2>3. n - 1 - a \in 0 .. 256 - 1
      BY <1>1
    <2>4. (n - 1 - a) % 256 = n - 1 - a
      BY <2>3, ModSmall
    <2>. QED  BY <1>1, <2>2, <2>4
  <1>2. CASE ~(a < n)
    <2>1. n - 1 \in 0..255 /\ a > n - 1
      BY <1>2
    <2>2. Sub(n - 1, a) % 256 = n - 1 - a + 256
      BY <2>1, SubBelow
    <2>. QED  BY <1>2, <2>2
  <1>. QED  BY <1>1, <1>2

(* The section that begins at a multiple of its size has this beginning.    *)
LEMMA FloorIs ==
    ASSUME NEW a \in 0..511, NEW k \in Nat, a % Section = 0, k < Section
    PROVE  Floor(a + k) = a
  <1>1. CASE Section = 1 BY <1>1 DEF Floor
  <1>2. CASE Section = 2 BY <1>2 DEF Floor
  <1>3. CASE Section = 4 BY <1>3 DEF Floor
  <1>4. CASE Section = 8 BY <1>4 DEF Floor
  <1>. QED  BY <1>1, <1>2, <1>3, <1>4, Constants

(* Sums and differences of section boundaries are section boundaries.       *)
LEMMA Multiples ==
    ASSUME NEW x \in Int, NEW y \in Int, x % Section = 0, y % Section = 0
    PROVE  (x + y) % Section = 0 /\ (x - y) % Section = 0
  <1>1. CASE Section = 1 BY <1>1
  <1>2. CASE Section = 2 BY <1>2
  <1>3. CASE Section = 4 BY <1>3
  <1>4. CASE Section = 8 BY <1>4
  <1>. QED  BY <1>1, <1>2, <1>3, <1>4, Constants

(* Offsets of sections, and lengths of lines of sections. *)
Corners == {a \in 0 .. 256 - Section : a % Section = 0}
Lengths == {n \in 1..255 : n % Section = 0}

(* The places from a on that a section covers. *)
Span(a) == a .. a + Section - 1

(* f is where the section at a begins, for one who counts from the other end. *)
Opposite(n, a, f) ==
    \A i \in 0 .. n - 1 :
       /\ n - 1 - i \in Span(f) <=> i \in Span(a)
       /\ i \in Span(a) => n - 1 - i - f = Section - 1 - (i - a)

(* The section that begins at a, seen from the other end of n places.       *)
LEMMA FarSection ==
    ASSUME NEW n \in Lengths, NEW a \in Corners
    PROVE  Opposite(n, a, Floor(Sub(n - 1, a) % 256))
  <1>. DEFINE c == n - Section - a + (IF a < n THEN 0 ELSE 256)
  <1>0. /\ n \in 1..255 /\ n % Section = 0
        /\ a \in 0 .. 256 - Section /\ a % Section = 0
    BY DEF Lengths, Corners
  <1>1. c \in 0..511 /\ c % Section = 0
    <2>1. Section = 1 \/ Section = 2 \/ Section = 4 \/ Section = 8
      BY Constants
    <2>2. Section % Section = 0 /\ 256 % Section = 0 /\ 0 % Section = 0 /\ Section \in Int
      BY <2>1
    <2>3. PICK d \in Int : d = n - a
      BY <1>0
    <2>4. d % Section = 0
      BY <1>0, <2>3, Multiples
    <2>5. PICK b \in Int : b = d - Section
      BY <2>2
    <2>6. b % Section = 0
      BY <2>2, <2>4, <2>5, Multiples
    <2>7. CASE a < n
      <3>1. d > 0
        BY <1>0, <2>3, <2>7
      <3>2. b \in 0..511
        <4>1. d <= 255
          BY <1>0, <2>1, <2>3
        <4>2. CASE Section = 1 BY <2>4, <2>5, <3>1, <4>1, <4>2
        <4>3. CASE Section = 2 BY <2>4, <2>5, <3>1, <4>1, <4>3
        <4>4. CASE Section = 4 BY <2>4, <2>5, <3>1, <4>1, <4>4
        <4>5. CASE Section = 8 BY <2>4, <2>5, <3>1, <4>1, <4>5
        <4>. QED  BY <2>1, <4>2, <4>3, <4>4, <4>5
      <3>3. c = b
        BY <1>0, <2>2, <2>3, <2>5, <2>7
      <3>. QED  BY <2>6, <3>2, <3>3
    <2>8. CASE ~(a < n)
      <3>1. c = b + 256
        BY <1>0, <2>2, <2>3, <2>5, <2>8
      <3>2. (b + 256) % Section = 0
        <4>1. PICK z \in Int : z = 256
          OBVIOUS
        <4>2. (b + z) % Section = 0
          BY <2>2, <2>6, <4>1, Multiples
        <4>. QED  BY <4>1, <4>2
      <3>3. c \in 0..511
        <4>1. a <= 256 - Section /\ a >= n /\ n >= 1 /\ Section >= 1
          BY <1>0, <2>1, <2>8
        <4>2. b + 256 >= 0 /\ b <= 0
          BY <1>0, <2>2, <2>3, <2>5, <4>1
        <4>. QED  BY <3>1, <4>2
      <3>. QED  BY <3>1, <3>2, <3>3
    <2>. QED  BY <2>7, <2>8
  <1>2. Section \in 1..8 /\ Section - 1 \in Nat /\ Section - 1 < Section
    BY Constants
  <1>3. Sub(n - 1, a) % 256 = c + (Section - 1)
    <2>1. a \in 0..255
      BY <1>0, <1>2
    <2>2. Sub(n - 1, a) % 256 = IF a < n THEN n - 1 - a ELSE n - 1 - a + 256
      BY <1>0, <2>1, FarEnd
    <2>. QED  BY <1>0, <1>2, <2>1, <2>2
  <1>4. Floor(Sub(n - 1, a) % 256) = c
    <2>. HIDE DEF c
    <2>. QED  BY <1>1, <1>2, <1>3, FloorIs
  <1>5. ASSUME NEW i \in 0 .. n - 1
        PROVE  /\ n - 1 - i \in c .. c + Section - 1 <=> i \in a .. a + Section - 1
               /\ i \in a .. a + Section - 1 => n - 1 - i - c = Section - 1 - (i - a)
    <2>1. CASE a < n
      BY <1>0, <1>2, <2>1
    <2>2. CASE ~(a < n)
      BY <1>0, <1>2, <2>2
    <2>. QED  BY <2>1, <2>2
  <1>. HIDE DEF c
  <1>6. Opposite(n, a, c)
    BY <1>5 DEF Opposite, Span
  <1>. QED  BY <1>4, <1>6

(* The same from this end. *)
LEMMA NearSection ==
    ASSUME NEW a \in Corners
    PROVE  a % 256 = a /\ Floor(a % 256) = a /\ a \in 0..255 /\ a \in Nat
  <1>1. Section \in 1..8 /\ a \in 0 .. 256 - Section /\ a % Section = 0
    BY Constants DEF Corners
  <1>2. a \in 0 .. 256 - 1 /\ a \in 0..511 /\ 0 \in Nat /\ 0 < Section
    BY <1>1
  <1>3. a % 256 = a
    BY <1>2, ModSmall
  <1>4. Floor(a + 0) = a
    BY <1>1, <1>2, FloorIs
  <1>. QED  BY <1>1, <1>2, <1>3, <1>4

-----------------------------------------------------------------------------
(* Places                                                                   *)

(* The places of the application, and where they are. *)
Logical == LogicalGrid(rotation, Cols, Rows)
Place(p) == output_cb(rotation, Cols, Rows, p)

(* The sizes the application sees, here and in GridFrame.                   *)
LEMMA Sizes ==
    ASSUME rotation \in 0..3
    PROVE  /\ width \in 1..255 /\ height \in 1..255
           /\ width % Section = 0 /\ height % Section = 0
           /\ Logical = (0 .. width - 1) \X (0 .. height - 1)
           /\ Promise!Places(rotation) = Logical
           /\ Promise!Width(rotation) = width /\ Promise!Height(rotation) = height
  <1>1. /\ Logical = (0 .. width - 1) \X (0 .. height - 1)
        /\ width = IF rotation \in {1, 3} THEN Rows ELSE Cols
        /\ height = IF rotation \in {1, 3} THEN Cols ELSE Rows
    BY DEF Logical, LogicalGrid, width, height, monome_get_cols, monome_get_rows, ROW_COL_SWAP
  <1>3. rotation % 2 = 0 <=> rotation \in {0, 2}
    OBVIOUS
  <1>4. Promise!Width(rotation) = width /\ Promise!Height(rotation) = height
    BY <1>1, <1>3 DEF Promise!Width, Promise!Height
  <1>5. Promise!Places(rotation) = Logical
    BY <1>1, <1>4 DEF Promise!Places
  <1>6. width \in 1..255 /\ height \in 1..255 /\ width % Section = 0 /\ height % Section = 0
    BY <1>1, Constants
  <1>. QED  BY <1>1, <1>4, <1>5, <1>6

(* Where the places of the application are, in each of the four rotations. *)
LEMMA PlaceIs ==
    ASSUME rotation \in 0..3, NEW p \in Logical
    PROVE  /\ p = <<p[1], p[2]>>
           /\ p[1] \in 0 .. width - 1 /\ p[2] \in 0 .. height - 1
           /\ rotation = 0 => Place(p) = p
           /\ rotation = 1 => Place(p) = <<p[2], width - 1 - p[1]>>
           /\ rotation = 2 => Place(p) = <<width - 1 - p[1], height - 1 - p[2]>>
           /\ rotation = 3 => Place(p) = <<height - 1 - p[2], p[1]>>
  <1>1. width \in 1..UintRange /\ height \in 1..UintRange
    BY Sizes, Constants
  <1>2. p = <<p[1], p[2]>> /\ p[1] \in 0 .. width - 1 /\ p[2] \in 0 .. height - 1
    BY Sizes
  <1>3. /\ Sub(width - 1, p[1]) = width - 1 - p[1]
        /\ Sub(height - 1, p[2]) = height - 1 - p[2]
    BY <1>1, <1>2, Mirror
  <1>4. Place(p) = CASE rotation = 0 -> p
                     [] rotation = 1 -> <<p[2], Sub(width - 1, p[1])>>
                     [] rotation = 2 -> <<Sub(width - 1, p[1]), Sub(height - 1, p[2])>>
                     [] rotation = 3 -> <<Sub(height - 1, p[2]), p[1]>>
    BY DEF Place, output_cb, width, height, r90_output_cb, r180_output_cb, r270_output_cb
  <1>. QED  BY <1>2, <1>3, <1>4

(* Each place of the application is one of the hardware's.                  *)
LEMMA PlaceOnHardware ==
    ASSUME rotation \in 0..3, NEW p \in Logical
    PROVE  Place(p) \in Hardware
  <1>1. Cols \in GridSize /\ Rows \in GridSize /\ rotation \in Rotations
    BY Constants DEF GridSize, Rotations
  <1>. QED  BY <1>1, OutputStaysInside DEF Logical, Place, Hardware

(* No two of them are the same.                                             *)
LEMMA PlacesDiffer ==
    ASSUME rotation \in 0..3, NEW p \in Logical, NEW q \in Logical, Place(p) = Place(q)
    PROVE  p = q
  <1>1. width \in Int /\ height \in Int
    BY Sizes
  <1>2. p[1] \in Int /\ q[1] \in Int /\ p[2] \in Int /\ q[2] \in Int
    BY PlaceIs
  <1>3. p[1] = q[1] /\ p[2] = q[2]
    <2>1. CASE rotation = 0
      BY <2>1, PlaceIs
    <2>2. CASE rotation = 1
      <3>1. <<p[2], width - 1 - p[1]>> = <<q[2], width - 1 - q[1]>>
        BY <2>2, PlaceIs
      <3>. QED  BY <1>1, <1>2, <3>1
    <2>3. CASE rotation = 2
      <3>1. <<width - 1 - p[1], height - 1 - p[2]>>
              = <<width - 1 - q[1], height - 1 - q[2]>>
        BY <2>3, PlaceIs
      <3>. QED  BY <1>1, <1>2, <3>1
    <2>4. CASE rotation = 3
      <3>1. <<height - 1 - p[2], p[1]>> = <<height - 1 - q[2], q[1]>>
        BY <2>4, PlaceIs
      <3>. QED  BY <1>1, <1>2, <3>1
    <2>. QED  BY <2>1, <2>2, <2>3, <2>4
  <1>. QED  BY <1>3, PlaceIs

(* What is sent for a place of the grid. *)
LEMMA CoordinatesOnGrid ==
    ASSUME rotation \in 0..3, NEW p \in Logical
    PROVE  ROTATE_COORDS(p[1], p[2]) = Place(p)
  <1>1. PICK i \in 0 .. Cols - 1, j \in 0 .. Rows - 1 : Place(p) = <<i, j>>
    BY PlaceOnHardware DEF Hardware, HardwareGrid
  <1>2. i \in 0 .. 256 - 1 /\ j \in 0 .. 256 - 1
    BY <1>1, Constants
  <1>3. i % 256 = i /\ j % 256 = j
    BY <1>2, ModSmall
  <1>4. output_cb(rotation, Cols, Rows, <<p[1], p[2]>>) = <<i, j>>
    BY <1>1, PlaceIs DEF Place
  <1>. QED  BY <1>1, <1>3, <1>4 DEF ROTATE_COORDS

(* How a point of a section is turned.                                      *)
LEMMA PointTurned ==
    ASSUME rotation \in 0..3, NEW i \in 0 .. Section - 1, NEW j \in 0 .. Section - 1
    PROVE  output_cb(rotation, Section, Section, <<i, j>>) =
             CASE rotation = 0 -> <<i, j>>
               [] rotation = 1 -> <<j, Section - 1 - i>>
               [] rotation = 2 -> <<Section - 1 - i, Section - 1 - j>>
               [] rotation = 3 -> <<Section - 1 - j, i>>
  <1>1. Section \in 1..UintRange
    BY Constants
  <1>2. Sub(Section - 1, i) = Section - 1 - i /\ Sub(Section - 1, j) = Section - 1 - j
    BY <1>1, Mirror
  <1>3. /\ monome_get_cols(rotation, Section, Section) = Section
        /\ monome_get_rows(rotation, Section, Section) = Section
    BY DEF monome_get_cols, monome_get_rows
  <1>. QED  BY <1>2, <1>3 DEF output_cb, r90_output_cb, r180_output_cb, r270_output_cb

(* The section of the hardware that holds the corner that is sent is the    *)
(* one the application means, and the points in it are turned like those of *)
(* a map.                                                                   *)
LEMMA MapPlaces ==
    ASSUME rotation \in 0..3, NEW x \in Corners, NEW y \in Corners, NEW p \in Logical,
           NEW at, at = ROTATE_COORDS(x, y), NEW q, q = Place(p)
    PROVE  /\ q \in Span(Floor(at[1])) \X Span(Floor(at[2]))
                <=> p \in Span(x) \X Span(y)
           /\ p \in Span(x) \X Span(y) =>
                /\ p[1] - x \in 0 .. Section - 1 /\ p[2] - y \in 0 .. Section - 1
                /\ <<q[1] - Floor(at[1]), q[2] - Floor(at[2])>>
                     = output_cb(rotation, Section, Section, <<p[1] - x, p[2] - y>>)
  <1>1. x % 256 = x /\ y % 256 = y /\ x \in Nat /\ y \in Nat
    BY NearSection
  <1>2. /\ p[1] \in 0 .. width - 1 /\ p[2] \in 0 .. height - 1 /\ p = <<p[1], p[2]>>
    BY PlaceIs
  <1>3. width \in Lengths /\ height \in Lengths
    BY Sizes DEF Lengths
  <1>. DEFINE near1 == Floor(x % 256)  far1 == Floor(Sub(width - 1, x) % 256)
              near2 == Floor(y % 256)  far2 == Floor(Sub(height - 1, y) % 256)
  <1>4. near1 = x /\ near2 = y
    BY NearSection
  <1>a. Opposite(width, x, far1) /\ Opposite(height, y, far2)
    BY <1>3, FarSection
  <1>. HIDE DEF far1, far2
  <1>5. /\ width - 1 - p[1] \in Span(far1) <=> p[1] \in Span(x)
        /\ p[1] \in Span(x) => width - 1 - p[1] - far1 = Section - 1 - (p[1] - x)
    BY <1>2, <1>a, Zenon DEF Opposite
  <1>6. /\ height - 1 - p[2] \in Span(far2) <=> p[2] \in Span(y)
        /\ p[2] \in Span(y) => height - 1 - p[2] - far2 = Section - 1 - (p[2] - y)
    BY <1>2, <1>a, Zenon DEF Opposite
  <1>7. /\ p[1] \in Span(x) => p[1] - x \in 0 .. Section - 1
        /\ p[2] \in Span(y) => p[2] - y \in 0 .. Section - 1
    <2>1. Section \in 1..8
      BY Constants
    <2>. QED  BY <1>1, <1>2, <2>1 DEF Span
  <1>8. p \in Span(x) \X Span(y) <=> p[1] \in Span(x) /\ p[2] \in Span(y)
    BY <1>2
  <1>. HIDE DEF Span, near1, far1, near2, far2
  <1>9. \A a, b, S, T : <<a, b>> \in S \X T <=> a \in S /\ b \in T
    OBVIOUS
  <1>10. CASE rotation = 0
    <2>a. at = <<x % 256, y % 256>>
      BY <1>10 DEF ROTATE_COORDS, output_cb, width, height,
            r90_output_cb, r180_output_cb, r270_output_cb
    <2>b. q = <<p[1], p[2]>>
      BY <1>2, <1>10, PlaceIs
    <2>1. at = <<x % 256, y % 256>> /\ q = <<p[1], p[2]>>
      BY <2>a, <2>b
    <2>2. /\ Floor(at[1]) = x /\ Floor(at[2]) = y
      BY <1>4, <2>1 DEF near1, near2
    <2>3. p \in Span(x) \X Span(y) =>
            output_cb(rotation, Section, Section, <<p[1] - x, p[2] - y>>)
              = <<p[1] - x, p[2] - y>>
      BY <1>7, <1>8, <1>10, PointTurned
    <2>. QED  BY <1>7, <1>8, <2>1, <2>2, <2>3
  <1>11. CASE rotation = 1
    <2>a. at = <<y % 256, Sub(width - 1, x) % 256>>
      BY <1>11 DEF ROTATE_COORDS, output_cb, width, height,
            r90_output_cb, r180_output_cb, r270_output_cb
    <2>b. q = <<p[2], width - 1 - p[1]>>
      BY <1>2, <1>11, PlaceIs
    <2>1. at = <<y % 256, Sub(width - 1, x) % 256>> /\ q = <<p[2], width - 1 - p[1]>>
      BY <2>a, <2>b
    <2>2. Floor(at[1]) = y /\ Floor(at[2]) = far1
      BY <1>4, <2>1 DEF near2, far1
    <2>3. p \in Span(x) \X Span(y) =>
            output_cb(rotation, Section, Section, <<p[1] - x, p[2] - y>>)
              = <<p[2] - y, Section - 1 - (p[1] - x)>>
      BY <1>7, <1>8, <1>11, PointTurned
    <2>. QED  BY <1>5, <1>7, <1>8, <1>9, <2>1, <2>2, <2>3
  <1>12. CASE rotation = 2
    <2>a. at = <<Sub(width - 1, x) % 256, Sub(height - 1, y) % 256>>
      BY <1>12 DEF ROTATE_COORDS, output_cb, width, height,
            r90_output_cb, r180_output_cb, r270_output_cb
    <2>b. q = <<width - 1 - p[1], height - 1 - p[2]>>
      BY <1>2, <1>12, PlaceIs
    <2>1. at = <<Sub(width - 1, x) % 256, Sub(height - 1, y) % 256>> /\ q = <<width - 1 - p[1], height - 1 - p[2]>>
      BY <2>a, <2>b
    <2>2. Floor(at[1]) = far1 /\ Floor(at[2]) = far2
      BY <2>1 DEF far1, far2
    <2>3. p \in Span(x) \X Span(y) =>
            output_cb(rotation, Section, Section, <<p[1] - x, p[2] - y>>)
              = <<Section - 1 - (p[1] - x), Section - 1 - (p[2] - y)>>
      BY <1>7, <1>8, <1>12, PointTurned
    <2>. QED  BY <1>5, <1>6, <1>7, <1>8, <1>9, <2>1, <2>2, <2>3
  <1>13. CASE rotation = 3
    <2>a. at = <<Sub(height - 1, y) % 256, x % 256>>
      BY <1>13 DEF ROTATE_COORDS, output_cb, width, height,
            r90_output_cb, r180_output_cb, r270_output_cb
    <2>b. q = <<height - 1 - p[2], p[1]>>
      BY <1>2, <1>13, PlaceIs
    <2>1. at = <<Sub(height - 1, y) % 256, x % 256>> /\ q = <<height - 1 - p[2], p[1]>>
      BY <2>a, <2>b
    <2>2. Floor(at[1]) = far2 /\ Floor(at[2]) = x
      BY <1>4, <2>1 DEF far2, near1
    <2>3. p \in Span(x) \X Span(y) =>
            output_cb(rotation, Section, Section, <<p[1] - x, p[2] - y>>)
              = <<Section - 1 - (p[2] - y), p[1] - x>>
      BY <1>7, <1>8, <1>13, PointTurned
    <2>. QED  BY <1>6, <1>7, <1>8, <1>9, <2>1, <2>2, <2>3
  <1>. QED  BY <1>10, <1>11, <1>12, <1>13

-----------------------------------------------------------------------------
(* Rows and columns                                                         *)

(* The levels of a row or column, section by section. *)
LineLevel(m, i) ==
    IF m.cmd \in {"LED_ROW", "LED_COLUMN"} THEN OnOff(i \in m.data) ELSE m.data[i + 1]

RowPlaces(m) == Span(Floor(m.at[1])) \X {m.at[2]}
ColPlaces(m) == {m.at[1]} \X Span(Floor(m.at[2]))

(* What messages about a row or a column draw.                              *)
LEMMA PaintedLine ==
    ASSUME NEW m
    PROVE  /\ m.cmd \in {"LED_ROW", "LED_LEVEL_ROW"} =>
                /\ DOMAIN Painted(m) = RowPlaces(m)
                /\ \A q \in RowPlaces(m) :
                      Painted(m)[q] = LineLevel(m, q[1] - Floor(m.at[1]))
           /\ m.cmd \in {"LED_COLUMN", "LED_LEVEL_COLUMN"} =>
                /\ DOMAIN Painted(m) = ColPlaces(m)
                /\ \A q \in ColPlaces(m) :
                      Painted(m)[q] = LineLevel(m, q[2] - Floor(m.at[2]))
  <1>. USE DEF RowPlaces, ColPlaces, Span
  <1>1. CASE m.cmd = "LED_ROW"
    <2>1. Painted(m) = [p \in RowPlaces(m) |-> OnOff(p[1] - Floor(m.at[1]) \in m.data)]
      BY <1>1 DEF Painted
    <2>. QED  BY <1>1, <2>1 DEF LineLevel
  <1>2. CASE m.cmd = "LED_LEVEL_ROW"
    <2>1. Painted(m) = [p \in RowPlaces(m) |-> m.data[p[1] - Floor(m.at[1]) + 1]]
      BY <1>2 DEF Painted
    <2>. QED  BY <1>2, <2>1 DEF LineLevel
  <1>3. CASE m.cmd = "LED_COLUMN"
    <2>1. Painted(m) = [p \in ColPlaces(m) |-> OnOff(p[2] - Floor(m.at[2]) \in m.data)]
      BY <1>3 DEF Painted
    <2>. QED  BY <1>3, <2>1 DEF LineLevel
  <1>4. CASE m.cmd = "LED_LEVEL_COLUMN"
    <2>1. Painted(m) = [p \in ColPlaces(m) |-> m.data[p[2] - Floor(m.at[2]) + 1]]
      BY <1>4 DEF Painted
    <2>. QED  BY <1>4, <2>1 DEF LineLevel
  <1>. QED  BY <1>1, <1>2, <1>3, <1>4

(* The place of LED i of the section, counted from the end it is sent from. *)
Counted(rev, i) == IF rev THEN Section - 1 - i ELSE i

(* A section of a row lies where the application means it, counted from the *)
(* end that ROW_REVBITS tells, be it sent as a row or as a column.          *)
LEMMA RowMessage ==
    ASSUME rotation \in 0..3, NEW x \in Corners, NEW y, y \in 0 .. height - 1, NEW p \in Logical,
           NEW cmd \in {"LED_ROW", "LED_LEVEL_ROW"}, NEW data, NEW m,
           m = mext_led_row_col(cmd, x, y, data)
    PROVE  /\ Place(p) \in DOMAIN Painted(m) <=> p \in Span(x) \X {y}
           /\ p \in Span(x) \X {y} =>
                Painted(m)[Place(p)] = LineLevel(m, Counted(rotation \in ROW_REVBITS, p[1] - x))
  <1>. DEFINE q == Place(p)
              far == Floor(Sub(width - 1, x) % 256)
  <1>1. x % 256 = x /\ x \in Nat /\ Floor(x % 256) = x
    BY NearSection
  <1>2. p[1] \in 0 .. width - 1 /\ p[2] \in 0 .. height - 1 /\ p = <<p[1], p[2]>>
    BY PlaceIs
  <1>3. width \in Lengths /\ height \in Lengths /\ height \in 1..255
    BY Sizes DEF Lengths
  <1>4. y % 256 = y /\ Sub(height - 1, y) % 256 = height - 1 - y
    <2>1. y \in 0 .. 256 - 1 /\ y \in 0..255 /\ y < height
      BY <1>3
    <2>2. Sub(height - 1, y) = height - 1 - y
      <3>1. height \in 1..UintRange
        BY <1>3, Constants
      <3>. QED  BY <3>1, Mirror
    <2>3. PICK z \in 0 .. 256 - 1 : z = height - 1 - y
      BY <1>3
    <2>4. y % 256 = y /\ z % 256 = z
      BY <2>1, ModSmall
    <2>. QED  BY <2>2, <2>3, <2>4
  <1>5. Opposite(width, x, far)
    BY <1>3, FarSection
  <1>. HIDE DEF far
  <1>6. /\ width - 1 - p[1] \in Span(far) <=> p[1] \in Span(x)
        /\ p[1] \in Span(x) => width - 1 - p[1] - far = Section - 1 - (p[1] - x)
    BY <1>2, <1>5, Zenon DEF Opposite
  <1>7. height - 1 - p[2] = height - 1 - y <=> p[2] = y
    BY <1>2, <1>3
  <1>8. p \in Span(x) \X {y} <=> p[1] \in Span(x) /\ p[2] = y
    BY <1>2
  <1>9. \A a, b, S, c : /\ <<a, b>> \in S \X {c} <=> a \in S /\ b = c
                        /\ <<a, b>> \in {c} \X S <=> b \in S /\ a = c
    OBVIOUS
  <1>10. m.cmd = Crossed(cmd) /\ m.at = ROTATE_COORDS(x, y)
    BY DEF Msg, mext_led_row_col
  <1>. USE DEF RowPlaces, ColPlaces, Counted, ROW_REVBITS
  <1>11. CASE rotation = 0
    <2>1. m.at = <<x, y>> /\ q = <<p[1], p[2]>>
      <3>1. m.at = <<x % 256, y % 256>>
        BY <1>10, <1>11 DEF ROTATE_COORDS, output_cb
      <3>. QED  BY <1>1, <1>2, <1>4, <1>11, <3>1, PlaceIs
    <2>2. m.cmd \in {"LED_ROW", "LED_LEVEL_ROW"}
      BY <1>10, <1>11 DEF Crossed, ROW_COL_SWAP
    <2>3. RowPlaces(m) = Span(x) \X {y} /\ Floor(m.at[1]) = x
      BY <1>1, <2>1
    <2>. HIDE DEF RowPlaces
    <2>4. q \in RowPlaces(m) <=> p \in Span(x) \X {y}
      BY <1>8, <1>9, <2>1, <2>3
    <2>5. q[1] - Floor(m.at[1]) = p[1] - x
      BY <2>1, <2>3
    <2>6. /\ DOMAIN Painted(m) = RowPlaces(m)
          /\ q \in RowPlaces(m) => Painted(m)[q] = LineLevel(m, q[1] - Floor(m.at[1]))
      BY <2>2, PaintedLine
    <2>. QED  BY <1>11, <2>4, <2>5, <2>6
  <1>12. CASE rotation = 1
    <2>1. m.at = <<y, Sub(width - 1, x) % 256>> /\ q = <<p[2], width - 1 - p[1]>>
      <3>1. m.at = <<y % 256, Sub(width - 1, x) % 256>>
        BY <1>10, <1>12 DEF ROTATE_COORDS, output_cb, width, r90_output_cb
      <3>. QED  BY <1>4, <1>12, <3>1, PlaceIs
    <2>2. m.cmd \in {"LED_COLUMN", "LED_LEVEL_COLUMN"}
      BY <1>10, <1>12 DEF Crossed, ROW_COL_SWAP
    <2>3. ColPlaces(m) = {y} \X Span(far) /\ Floor(m.at[2]) = far
      BY <2>1 DEF far
    <2>. HIDE DEF ColPlaces
    <2>4. q \in ColPlaces(m) <=> p \in Span(x) \X {y}
      BY <1>6, <1>8, <1>9, <2>1, <2>3
    <2>5. p \in Span(x) \X {y} => q[2] - Floor(m.at[2]) = Section - 1 - (p[1] - x)
      BY <1>6, <1>8, <2>1, <2>3
    <2>6. /\ DOMAIN Painted(m) = ColPlaces(m)
          /\ q \in ColPlaces(m) => Painted(m)[q] = LineLevel(m, q[2] - Floor(m.at[2]))
      BY <2>2, PaintedLine
    <2>. QED  BY <1>12, <2>4, <2>5, <2>6
  <1>13. CASE rotation = 2
    <2>1. m.at = <<Sub(width - 1, x) % 256, height - 1 - y>>
          /\ q = <<width - 1 - p[1], height - 1 - p[2]>>
      <3>1. m.at = <<Sub(width - 1, x) % 256, Sub(height - 1, y) % 256>>
        BY <1>10, <1>13 DEF ROTATE_COORDS, output_cb, width, height, r180_output_cb
      <3>. QED  BY <1>4, <1>13, <3>1, PlaceIs
    <2>2. m.cmd \in {"LED_ROW", "LED_LEVEL_ROW"}
      BY <1>10, <1>13 DEF Crossed, ROW_COL_SWAP
    <2>3. RowPlaces(m) = Span(far) \X {height - 1 - y} /\ Floor(m.at[1]) = far
      BY <2>1 DEF far
    <2>. HIDE DEF RowPlaces
    <2>4. q \in RowPlaces(m) <=> p \in Span(x) \X {y}
      BY <1>6, <1>7, <1>8, <1>9, <2>1, <2>3
    <2>5. p \in Span(x) \X {y} => q[1] - Floor(m.at[1]) = Section - 1 - (p[1] - x)
      BY <1>6, <1>8, <2>1, <2>3
    <2>6. /\ DOMAIN Painted(m) = RowPlaces(m)
          /\ q \in RowPlaces(m) => Painted(m)[q] = LineLevel(m, q[1] - Floor(m.at[1]))
      BY <2>2, PaintedLine
    <2>. QED  BY <1>13, <2>4, <2>5, <2>6
  <1>14. CASE rotation = 3
    <2>1. m.at = <<height - 1 - y, x>> /\ q = <<height - 1 - p[2], p[1]>>
      <3>1. m.at = <<Sub(height - 1, y) % 256, x % 256>>
        BY <1>10, <1>14 DEF ROTATE_COORDS, output_cb, height, r270_output_cb
      <3>. QED  BY <1>1, <1>4, <1>14, <3>1, PlaceIs
    <2>2. m.cmd \in {"LED_COLUMN", "LED_LEVEL_COLUMN"}
      BY <1>10, <1>14 DEF Crossed, ROW_COL_SWAP
    <2>3. ColPlaces(m) = {height - 1 - y} \X Span(x) /\ Floor(m.at[2]) = x
      BY <1>1, <2>1
    <2>. HIDE DEF ColPlaces
    <2>4. q \in ColPlaces(m) <=> p \in Span(x) \X {y}
      BY <1>7, <1>8, <1>9, <2>1, <2>3
    <2>5. q[2] - Floor(m.at[2]) = p[1] - x
      BY <2>1, <2>3
    <2>6. /\ DOMAIN Painted(m) = ColPlaces(m)
          /\ q \in ColPlaces(m) => Painted(m)[q] = LineLevel(m, q[2] - Floor(m.at[2]))
      BY <2>2, PaintedLine
    <2>. QED  BY <1>14, <2>4, <2>5, <2>6
  <1>. QED  BY <1>11, <1>12, <1>13, <1>14

(* The same of columns, with COL_REVBITS.                                   *)
LEMMA ColMessage ==
    ASSUME rotation \in 0..3, NEW x, x \in 0 .. width - 1, NEW y \in Corners, NEW p \in Logical,
           NEW cmd \in {"LED_COLUMN", "LED_LEVEL_COLUMN"}, NEW data, NEW m,
           m = mext_led_row_col(cmd, x, y, data)
    PROVE  /\ Place(p) \in DOMAIN Painted(m) <=> p \in {x} \X Span(y)
           /\ p \in {x} \X Span(y) =>
                Painted(m)[Place(p)] = LineLevel(m, Counted(rotation \in COL_REVBITS, p[2] - y))
  <1>. DEFINE q == Place(p)
              far == Floor(Sub(height - 1, y) % 256)
  <1>1. y % 256 = y /\ y \in Nat /\ Floor(y % 256) = y
    BY NearSection
  <1>2. p[1] \in 0 .. width - 1 /\ p[2] \in 0 .. height - 1 /\ p = <<p[1], p[2]>>
    BY PlaceIs
  <1>3. width \in Lengths /\ height \in Lengths /\ width \in 1..255
    BY Sizes DEF Lengths
  <1>4. x % 256 = x /\ Sub(width - 1, x) % 256 = width - 1 - x
    <2>1. x \in 0 .. 256 - 1
      BY <1>3
    <2>2. Sub(width - 1, x) = width - 1 - x
      <3>1. width \in 1..UintRange
        BY <1>3, Constants
      <3>. QED  BY <3>1, Mirror
    <2>3. PICK z \in 0 .. 256 - 1 : z = width - 1 - x
      BY <1>3
    <2>4. x % 256 = x /\ z % 256 = z
      BY <2>1, ModSmall
    <2>. QED  BY <2>2, <2>3, <2>4
  <1>5. Opposite(height, y, far)
    BY <1>3, FarSection
  <1>. HIDE DEF far
  <1>6. /\ height - 1 - p[2] \in Span(far) <=> p[2] \in Span(y)
        /\ p[2] \in Span(y) => height - 1 - p[2] - far = Section - 1 - (p[2] - y)
    BY <1>2, <1>5, Zenon DEF Opposite
  <1>7. width - 1 - p[1] = width - 1 - x <=> p[1] = x
    BY <1>2, <1>3
  <1>8. p \in {x} \X Span(y) <=> p[1] = x /\ p[2] \in Span(y)
    BY <1>2
  <1>9. \A a, b, S, c : /\ <<a, b>> \in S \X {c} <=> a \in S /\ b = c
                        /\ <<a, b>> \in {c} \X S <=> b \in S /\ a = c
    OBVIOUS
  <1>10. m.cmd = Crossed(cmd) /\ m.at = ROTATE_COORDS(x, y)
    BY DEF Msg, mext_led_row_col
  <1>. USE DEF RowPlaces, ColPlaces, Counted, COL_REVBITS
  <1>11. CASE rotation = 0
    <2>1. m.at = <<x, y>> /\ q = <<p[1], p[2]>>
      <3>1. m.at = <<x % 256, y % 256>>
        BY <1>10, <1>11 DEF ROTATE_COORDS, output_cb
      <3>. QED  BY <1>1, <1>2, <1>4, <1>11, <3>1, PlaceIs
    <2>2. m.cmd \in {"LED_COLUMN", "LED_LEVEL_COLUMN"}
      BY <1>10, <1>11 DEF Crossed, ROW_COL_SWAP
    <2>3. ColPlaces(m) = {x} \X Span(y) /\ Floor(m.at[2]) = y
      BY <1>1, <2>1
    <2>. HIDE DEF ColPlaces
    <2>4. q \in ColPlaces(m) <=> p \in {x} \X Span(y)
      BY <1>8, <1>9, <2>1, <2>3
    <2>5. q[2] - Floor(m.at[2]) = p[2] - y
      BY <2>1, <2>3
    <2>6. /\ DOMAIN Painted(m) = ColPlaces(m)
          /\ q \in ColPlaces(m) => Painted(m)[q] = LineLevel(m, q[2] - Floor(m.at[2]))
      BY <2>2, PaintedLine
    <2>. QED  BY <1>11, <2>4, <2>5, <2>6
  <1>12. CASE rotation = 1
    <2>1. m.at = <<y, width - 1 - x>> /\ q = <<p[2], width - 1 - p[1]>>
      <3>1. m.at = <<y % 256, Sub(width - 1, x) % 256>>
        BY <1>10, <1>12 DEF ROTATE_COORDS, output_cb, width, r90_output_cb
      <3>. QED  BY <1>1, <1>4, <1>12, <3>1, PlaceIs
    <2>2. m.cmd \in {"LED_ROW", "LED_LEVEL_ROW"}
      BY <1>10, <1>12 DEF Crossed, ROW_COL_SWAP
    <2>3. RowPlaces(m) = Span(y) \X {width - 1 - x} /\ Floor(m.at[1]) = y
      BY <1>1, <2>1
    <2>. HIDE DEF RowPlaces
    <2>4. q \in RowPlaces(m) <=> p \in {x} \X Span(y)
      BY <1>7, <1>8, <1>9, <2>1, <2>3
    <2>5. q[1] - Floor(m.at[1]) = p[2] - y
      BY <2>1, <2>3
    <2>6. /\ DOMAIN Painted(m) = RowPlaces(m)
          /\ q \in RowPlaces(m) => Painted(m)[q] = LineLevel(m, q[1] - Floor(m.at[1]))
      BY <2>2, PaintedLine
    <2>. QED  BY <1>12, <2>4, <2>5, <2>6
  <1>13. CASE rotation = 2
    <2>1. m.at = <<width - 1 - x, Sub(height - 1, y) % 256>>
          /\ q = <<width - 1 - p[1], height - 1 - p[2]>>
      <3>1. m.at = <<Sub(width - 1, x) % 256, Sub(height - 1, y) % 256>>
        BY <1>10, <1>13 DEF ROTATE_COORDS, output_cb, width, height, r180_output_cb
      <3>. QED  BY <1>4, <1>13, <3>1, PlaceIs
    <2>2. m.cmd \in {"LED_COLUMN", "LED_LEVEL_COLUMN"}
      BY <1>10, <1>13 DEF Crossed, ROW_COL_SWAP
    <2>3. ColPlaces(m) = {width - 1 - x} \X Span(far) /\ Floor(m.at[2]) = far
      BY <2>1 DEF far
    <2>. HIDE DEF ColPlaces
    <2>4. q \in ColPlaces(m) <=> p \in {x} \X Span(y)
      BY <1>6, <1>7, <1>8, <1>9, <2>1, <2>3
    <2>5. p \in {x} \X Span(y) => q[2] - Floor(m.at[2]) = Section - 1 - (p[2] - y)
      BY <1>6, <1>8, <2>1, <2>3
    <2>6. /\ DOMAIN Painted(m) = ColPlaces(m)
          /\ q \in ColPlaces(m) => Painted(m)[q] = LineLevel(m, q[2] - Floor(m.at[2]))
      BY <2>2, PaintedLine
    <2>. QED  BY <1>13, <2>4, <2>5, <2>6
  <1>14. CASE rotation = 3
    <2>1. m.at = <<Sub(height - 1, y) % 256, x>> /\ q = <<height - 1 - p[2], p[1]>>
      <3>1. m.at = <<Sub(height - 1, y) % 256, x % 256>>
        BY <1>10, <1>14 DEF ROTATE_COORDS, output_cb, height, r270_output_cb
      <3>. QED  BY <1>4, <1>14, <3>1, PlaceIs
    <2>2. m.cmd \in {"LED_ROW", "LED_LEVEL_ROW"}
      BY <1>10, <1>14 DEF Crossed, ROW_COL_SWAP
    <2>3. RowPlaces(m) = Span(far) \X {x} /\ Floor(m.at[1]) = far
      BY <2>1 DEF far
    <2>. HIDE DEF RowPlaces
    <2>4. q \in RowPlaces(m) <=> p \in {x} \X Span(y)
      BY <1>6, <1>8, <1>9, <2>1, <2>3
    <2>5. p \in {x} \X Span(y) => q[1] - Floor(m.at[1]) = Section - 1 - (p[2] - y)
      BY <1>6, <1>8, <2>1, <2>3
    <2>6. /\ DOMAIN Painted(m) = RowPlaces(m)
          /\ q \in RowPlaces(m) => Painted(m)[q] = LineLevel(m, q[1] - Floor(m.at[1]))
      BY <2>2, PaintedLine
    <2>. QED  BY <1>14, <2>4, <2>5, <2>6
  <1>. QED  BY <1>11, <1>12, <1>13, <1>14

(* What a message draws of the application's picture. *)
Draws(m, f) ==
    \A p \in Logical :
       /\ Place(p) \in DOMAIN Painted(m) <=> p \in DOMAIN f
       /\ p \in DOMAIN f => Painted(m)[Place(p)] = f[p]

-----------------------------------------------------------------------------
(* Maps *)
(* A bit of a map is where its point is turned to.                          *)
LEMMA BitsTurned ==
    ASSUME rotation \in 0..3, NEW bits \in SUBSET Points, NEW d \in Points
    PROVE  output_cb(rotation, Section, Section, d) \in map_cb(bits) <=> d \in bits
  <1>. DEFINE Out(p) == output_cb(rotation, Section, Section, p)
  <1>1. Section \in Int
    BY Constants
  <1>2. ASSUME NEW b \in Points, Out(b) = Out(d) PROVE b = d
    <2>1. PICK i \in 0 .. Section - 1, j \in 0 .. Section - 1 : b = <<i, j>>
      BY DEF Points
    <2>2. PICK k \in 0 .. Section - 1, l \in 0 .. Section - 1 : d = <<k, l>>
      BY DEF Points
    <2>3. i \in Int /\ j \in Int /\ k \in Int /\ l \in Int
      BY <1>1
    <2>4. CASE rotation = 0
      BY <1>2, <2>1, <2>2, <2>4, PointTurned
    <2>5. CASE rotation = 1
      <3>1. <<j, Section - 1 - i>> = <<l, Section - 1 - k>>
        BY <1>2, <2>1, <2>2, <2>5, PointTurned
      <3>. QED  BY <1>1, <2>1, <2>2, <2>3, <3>1
    <2>6. CASE rotation = 2
      <3>1. <<Section - 1 - i, Section - 1 - j>> = <<Section - 1 - k, Section - 1 - l>>
        BY <1>2, <2>1, <2>2, <2>6, PointTurned
      <3>. QED  BY <1>1, <2>1, <2>2, <2>3, <3>1
    <2>7. CASE rotation = 3
      <3>1. <<Section - 1 - j, i>> = <<Section - 1 - l, k>>
        BY <1>2, <2>1, <2>2, <2>7, PointTurned
      <3>. QED  BY <1>1, <2>1, <2>2, <2>3, <3>1
    <2>. QED  BY <2>4, <2>5, <2>6, <2>7
  <1>3. Out(d) \in map_cb(bits) <=> \E b \in bits : Out(b) = Out(d)
    BY DEF map_cb
  <1>. HIDE DEF Out
  <1>4. Out(d) \in map_cb(bits) <=> d \in bits
    BY <1>2, <1>3
  <1>. QED  BY <1>4 DEF Out

(* A section is as wide as it is high, and turned like the grid. *)
LEMMA PointsTurned ==
    ASSUME rotation \in 0..3, NEW d \in Points
    PROVE  /\ output_cb(rotation, Section, Section, d) \in Points
           /\ input_cb(rotation, Section, Section,
                       output_cb(rotation, Section, Section, d)) = d
           /\ input_cb(rotation, Section, Section, d) \in Points
  <1>1. Section \in GridSize /\ rotation \in Rotations
    BY Constants DEF GridSize, Rotations
  <1>2. /\ Points = HardwareGrid(Section, Section)
        /\ Points = LogicalGrid(rotation, Section, Section)
    BY DEF Points, HardwareGrid, LogicalGrid, monome_get_cols, monome_get_rows
  <1>. DEFINE Out(p) == output_cb(rotation, Section, Section, p)
              In(p) == input_cb(rotation, Section, Section, p)
  <1>3. \A p \in Points : Out(p) \in Points
    BY <1>1, <1>2, OutputStaysInside
  <1>4. \A p \in Points : In(p) \in Points /\ Out(In(p)) = p
    BY <1>1, <1>2, InputStaysInside
  <1>5. \A b \in Points : Out(b) = Out(d) => b = d
    <2>1. SUFFICES ASSUME NEW b \in Points, Out(b) = Out(d) PROVE b = d
      OBVIOUS
    <2>2. Out(d) \in map_cb({b}) <=> d \in {b}
      BY BitsTurned
    <2>3. Out(d) \in map_cb({b})
      BY <2>1 DEF map_cb
    <2>. QED  BY <2>2, <2>3
  <1>. HIDE DEF Out, In
  <1>6. In(Out(d)) = d
    BY <1>3, <1>4, <1>5
  <1>7. Out(d) \in Points /\ In(Out(d)) = d /\ In(d) \in Points
    BY <1>3, <1>4, <1>6
  <1>. QED  BY <1>7 DEF Out, In

(* A level is what four bits hold. *)
LEMMA LevelFits ==
    ASSUME NEW level \in Level
    PROVE  level % LevelRange = level
  <1>1. MaxLevel + 1 \in Nat \ {0} /\ level \in 0 .. (MaxLevel + 1) - 1
    BY Constants DEF Level
  <1>2. PICK n \in Nat \ {0} : n = MaxLevel + 1
    BY <1>1
  <1>3. level % n = level
    BY <1>1, <1>2, ModSmall
  <1>. QED  BY <1>2, <1>3 DEF LevelRange

MapLevel(m, d) == IF m.cmd = "LED_MAP" THEN OnOff(d \in m.data) ELSE m.data[d]
MapOf(at) == Span(Floor(at[1])) \X Span(Floor(at[2]))

(* What messages about a map draw.                                          *)
LEMMA PaintedMap ==
    ASSUME NEW m, m.cmd \in {"LED_MAP", "LED_LEVEL_MAP"}
    PROVE  /\ DOMAIN Painted(m) = MapOf(m.at)
           /\ \A q \in MapOf(m.at) :
                 Painted(m)[q] = MapLevel(m, <<q[1] - Floor(m.at[1]), q[2] - Floor(m.at[2])>>)
  <1>. USE DEF MapOf, Span
  <1>1. CASE m.cmd = "LED_MAP"
    <2>1. Painted(m) = [p \in MapOf(m.at) |->
            OnOff(<<p[1] - Floor(m.at[1]), p[2] - Floor(m.at[2])>> \in m.data)]
      BY <1>1 DEF Painted
    <2>. QED  BY <1>1, <2>1 DEF MapLevel
  <1>2. CASE m.cmd = "LED_LEVEL_MAP"
    <2>1. Painted(m) = [p \in MapOf(m.at) |->
            m.data[<<p[1] - Floor(m.at[1]), p[2] - Floor(m.at[2])>>]]
      BY <1>2 DEF Painted
    <2>. QED  BY <1>2, <2>1 DEF MapLevel
  <1>. QED  BY <1>1, <1>2

(* The picture of a map at a corner. *)
MapPicture(x, y, levels) ==
    [p \in (x .. x + Section - 1) \X (y .. y + Section - 1) |->
        levels[<<p[1] - x, p[2] - y>>]]

(* A map that is turned like its section draws the application's map.       *)
LEMMA MapMessage ==
    ASSUME rotation \in 0..3, NEW x \in Corners, NEW y \in Corners, NEW levels,
           NEW m, m.cmd \in {"LED_MAP", "LED_LEVEL_MAP"}, m.at = ROTATE_COORDS(x, y),
           \A d \in Points :
              MapLevel(m, output_cb(rotation, Section, Section, d)) = levels[d]
    PROVE  Draws(m, MapPicture(x, y, levels))
  <1>. DEFINE f == MapPicture(x, y, levels)
  <1>1. /\ DOMAIN f = Span(x) \X Span(y)
        /\ \A p \in Span(x) \X Span(y) : f[p] = levels[<<p[1] - x, p[2] - y>>]
    BY DEF MapPicture, Span
  <1>. HIDE DEF f
  <1>2. ASSUME NEW p \in Logical
        PROVE  /\ Place(p) \in DOMAIN Painted(m) <=> p \in DOMAIN f
               /\ p \in DOMAIN f => Painted(m)[Place(p)] = f[p]
    <2>a. PICK q : q = Place(p)
      OBVIOUS
    <2>b. PICK at : at = ROTATE_COORDS(x, y)
      OBVIOUS
    <2>c. m.at = at
      BY <2>b
    <2>. DEFINE d == <<p[1] - x, p[2] - y>>
                e == <<q[1] - Floor(at[1]), q[2] - Floor(at[2])>>
    <2>1. /\ q \in MapOf(at) <=> p \in Span(x) \X Span(y)
          /\ p \in Span(x) \X Span(y) =>
               /\ p[1] - x \in 0 .. Section - 1 /\ p[2] - y \in 0 .. Section - 1
               /\ e = output_cb(rotation, Section, Section, d)
      BY <2>a, <2>b, MapPlaces DEF MapOf
    <2>2. q \in DOMAIN Painted(m) <=> p \in DOMAIN f
      BY <1>1, <2>1, <2>c, PaintedMap
    <2>3. ASSUME p \in DOMAIN f PROVE Painted(m)[q] = f[p]
      <3>1. p \in Span(x) \X Span(y)
        BY <1>1, <2>3
      <3>2. d \in Points
        BY <2>1, <3>1 DEF Points
      <3>3. Painted(m)[q] = MapLevel(m, e)
        <4>1. \A r \in MapOf(at) : Painted(m)[r] =
                 MapLevel(m, <<r[1] - Floor(at[1]), r[2] - Floor(at[2])>>)
          BY <2>c, PaintedMap
        <4>. QED  BY <2>1, <3>1, <4>1, Zenon
      <3>. HIDE DEF d, e
      <3>4. MapLevel(m, e) = levels[d]
        BY <2>1, <3>1, <3>2, Zenon
      <3>. QED  BY <1>1, <3>1, <3>3, <3>4, Zenon DEF d
    <2>. QED  BY <2>a, <2>2, <2>3
  <1>. QED  BY <1>2 DEF Draws, f

(* mext_led_map() turns its bits so.                                        *)
LEMMA LedMapDraws ==
    ASSUME rotation \in 0..3, NEW x \in Corners, NEW y \in Corners, NEW bits \in SUBSET Points,
           NEW m, m = Msg("LED_MAP", ROTATE_COORDS(x, y), map_cb(bits))
    PROVE  Draws(m, MapPicture(x, y, Promise!OfBits(bits)))
  <1>1. m.cmd = "LED_MAP" /\ m.at = ROTATE_COORDS(x, y) /\ m.data = map_cb(bits)
    BY DEF Msg
  <1>2. ASSUME NEW d \in Points
        PROVE  MapLevel(m, output_cb(rotation, Section, Section, d)) = Promise!OfBits(bits)[d]
    <2>1. output_cb(rotation, Section, Section, d) \in m.data <=> d \in bits
      BY <1>1, BitsTurned
    <2>2. Promise!OfBits(bits)[d] = OnOff(d \in bits)
      BY DEF Promise!OfBits, Promise!Points, Points, Promise!OnOff, OnOff
    <2>3. OnOff(d \in bits) = OnOff(output_cb(rotation, Section, Section, d) \in m.data)
      BY <2>1 DEF OnOff
    <2>. QED  BY <1>1, <2>2, <2>3 DEF MapLevel
  <1>. QED  BY <1>1, <1>2, MapMessage

(* mext_led_level_map() turns its levels so.                                *)
LEMMA LevelMapDraws ==
    ASSUME rotation \in 0..3, NEW x \in Corners, NEW y \in Corners,
           NEW levels \in [Points -> Level],
           NEW m, m = Msg("LED_LEVEL_MAP", ROTATE_COORDS(x, y),
                          pack_nybbles(level_map_cb(levels)))
    PROVE  Draws(m, MapPicture(x, y, levels))
  <1>1. /\ m.cmd = "LED_LEVEL_MAP" /\ m.at = ROTATE_COORDS(x, y)
        /\ m.data = pack_nybbles(level_map_cb(levels))
    BY DEF Msg
  <1>2. ASSUME NEW d \in Points
        PROVE  MapLevel(m, output_cb(rotation, Section, Section, d)) = levels[d]
    <2>1. PICK e \in Points : /\ e = output_cb(rotation, Section, Section, d)
                              /\ input_cb(rotation, Section, Section, e) = d
      BY PointsTurned
    <2>2. m.data[e] = levels[d] % LevelRange
      BY <1>1, <2>1 DEF pack_nybbles, level_map_cb
    <2>3. levels[d] \in Level
      OBVIOUS
    <2>4. levels[d] % LevelRange = levels[d]
      BY <2>3, LevelFits
    <2>. QED  BY <1>1, <2>1, <2>2, <2>4 DEF MapLevel
  <1>. QED  BY <1>1, <1>2, MapMessage

-----------------------------------------------------------------------------
(* Single LEDs and the whole grid *)
(* A message about one LED draws it.                                        *)
LEMMA SetDraws ==
    ASSUME rotation \in 0..3, NEW p \in Logical, NEW level, NEW m, m.at = ROTATE_COORDS(p[1], p[2]),
           \/ m.cmd = "LED_ON" /\ level = MaxLevel
           \/ m.cmd = "LED_OFF" /\ level = 0
           \/ m.cmd = "LED_LEVEL_SET" /\ level = m.data
    PROVE  Draws(m, [q \in {p} |-> level])
  <1>1. m.at = Place(p)
    BY CoordinatesOnGrid
  <1>2. Painted(m) = [q \in {Place(p)} |-> level]
    <2>1. CASE m.cmd = "LED_ON" /\ level = MaxLevel
      BY <1>1, <2>1 DEF Painted
    <2>2. CASE m.cmd = "LED_OFF" /\ level = 0
      BY <1>1, <2>2 DEF Painted
    <2>3. CASE m.cmd = "LED_LEVEL_SET" /\ level = m.data
      BY <1>1, <2>3 DEF Painted
    <2>. QED  BY <2>1, <2>2, <2>3
  <1>3. \A q \in Logical : Place(q) = Place(p) <=> q = p
    BY PlacesDiffer
  <1>. QED  BY <1>2, <1>3 DEF Draws

(* The whole grid.                                                          *)
LEMMA AllDraws ==
    ASSUME rotation \in 0..3, NEW level, NEW m,
           \/ m.cmd = "LED_ALL_ON" /\ level = MaxLevel
           \/ m.cmd = "LED_ALL_OFF" /\ level = 0
           \/ m.cmd = "LED_LEVEL_ALL" /\ level = m.data
    PROVE  Draws(m, [q \in Promise!Places(rotation) |-> level])
  <1>1. Painted(m) = [q \in Hardware |-> level]
    <2>1. CASE m.cmd = "LED_ALL_ON" /\ level = MaxLevel
      BY <2>1 DEF Painted
    <2>2. CASE m.cmd = "LED_ALL_OFF" /\ level = 0
      BY <2>2 DEF Painted
    <2>3. CASE m.cmd = "LED_LEVEL_ALL" /\ level = m.data
      BY <2>3 DEF Painted
    <2>. QED  BY <2>1, <2>2, <2>3
  <1>2. \A q \in Logical : Place(q) \in Hardware
    BY PlaceOnHardware
  <1>3. Promise!Places(rotation) = Logical
    BY Sizes
  <1>. QED  BY <1>1, <1>2, <1>3 DEF Draws

-----------------------------------------------------------------------------
(* Sections of rows and columns                                             *)

(* Where section s of a line that begins at off is. *)
Start(off, s) == off + Section * (s - 1)

(* Sections begin at corners and hold this many places.                     *)
LEMMA SectionStarts ==
    ASSUME NEW off \in Corners, NEW s, s \in Nat \ {0}, off + Section * s <= 256,
           NEW c, c = Start(off, s)
    PROVE  /\ c \in Corners /\ c \in Nat
           /\ Span(c) = c .. off + Section * s - 1
           /\ \A k \in Span(c) : k - c \in 0 .. Section - 1 /\ k - off = Section * (s - 1) + (k - c)
  <1>1. off \in 0 .. 256 - Section /\ off % Section = 0 /\ off \in Nat
    BY NearSection DEF Corners
  <1>2. c = off + Section * (s - 1)
    BY DEF Start
  <1>. USE DEF Corners, Span
  <1>3. CASE Section = 1 BY <1>1, <1>2, <1>3
  <1>4. CASE Section = 2 BY <1>1, <1>2, <1>4
  <1>5. CASE Section = 4 BY <1>1, <1>2, <1>5
  <1>6. CASE Section = 8 BY <1>1, <1>2, <1>6
  <1>. QED  BY <1>3, <1>4, <1>5, <1>6, Constants

(* Quotient and remainder of a place in section s.                          *)
LEMMA SectionParts ==
    ASSUME NEW s, s \in Nat \ {0}, NEW i, i \in 0 .. Section - 1,
           NEW k, k = Section * (s - 1) + i
    PROVE  k % Section = i /\ k \div Section = s - 1 /\ k \in Nat /\ k < Section * s
  <1>3. CASE Section = 1 BY <1>3
  <1>4. CASE Section = 2 BY <1>4
  <1>5. CASE Section = 4 BY <1>5
  <1>6. CASE Section = 8 BY <1>6
  <1>. QED  BY <1>3, <1>4, <1>5, <1>6, Constants

(* How many whole sections n places are. *)
LEMMA WholeSections ==
    ASSUME NEW n, n \in Nat
    PROVE  /\ n \div Section \in Nat
           /\ \A s \in 1 .. n \div Section : Section * s <= n
           /\ (Section * n) \div Section = n /\ Section * n \in Nat
  <1>3. CASE Section = 1 BY <1>3
  <1>4. CASE Section = 2 BY <1>4
  <1>5. CASE Section = 4 BY <1>5
  <1>6. CASE Section = 8 BY <1>6
  <1>. QED  BY <1>3, <1>4, <1>5, <1>6, Constants

(* Message m shows section s of these levels, from whichever end. *)
Shows(m, rev, levels, s) ==
    \A i \in 0 .. Section - 1 :
       LineLevel(m, Counted(rev, i)) = levels[Section * (s - 1) + i + 1]

(* A row that is turned is a row or a column.                               *)
LEMMA StaysLine ==
    ASSUME rotation \in 0..3
    PROVE  /\ \A cmd \in {"LED_ROW", "LED_COLUMN"} : Crossed(cmd) \in {"LED_ROW", "LED_COLUMN"}
           /\ \A cmd \in {"LED_LEVEL_ROW", "LED_LEVEL_COLUMN"} :
                 Crossed(cmd) \in {"LED_LEVEL_ROW", "LED_LEVEL_COLUMN"}
  BY DEF Crossed

(* The bytes of a row or column show its bits.                              *)
LEMMA BytesShow ==
    ASSUME rotation \in 0..3, NEW bytes \in Seq(SUBSET (0 .. Section - 1)),
           NEW s \in 1 .. Len(bytes), NEW rev \in BOOLEAN,
           NEW cmd \in {"LED_ROW", "LED_COLUMN"}, NEW at, NEW m,
           m = Msg(Crossed(cmd), at, IF rev THEN REVERSE_BYTE(bytes[s]) ELSE bytes[s])
    PROVE  Shows(m, rev, Promise!OfBytes(bytes), s)
  <1>1. PICK byte \in SUBSET (0 .. Section - 1) : byte = bytes[s]
    BY ElementOfSeq
  <1>2. m.cmd \in {"LED_ROW", "LED_COLUMN"} /\ m.data = IF rev THEN REVERSE_BYTE(byte) ELSE byte
    BY <1>1, StaysLine DEF Msg
  <1>3. Section \in 1..8 /\ s \in Nat \ {0} /\ Len(bytes) \in Nat /\ s <= Len(bytes)
    BY Constants, LenProperties
  <1>4. ASSUME NEW i \in 0 .. Section - 1
        PROVE  LineLevel(m, Counted(rev, i)) = Promise!OfBytes(bytes)[Section * (s - 1) + i + 1]
    <2>1. Counted(rev, i) \in m.data <=> i \in byte
      <3>1. CASE rev
        <4>1. Counted(rev, i) \in m.data <=> \E j \in byte : Section - 1 - j = Section - 1 - i
          BY <1>2, <3>1 DEF REVERSE_BYTE, Counted
        <4>2. \A j \in byte : Section - 1 - j = Section - 1 - i <=> j = i
          BY <1>3
        <4>. QED  BY <4>1, <4>2
      <3>2. CASE ~rev
        BY <1>2, <3>2 DEF Counted
      <3>. QED  BY <3>1, <3>2
    <2>2. PICK k : k = Section * (s - 1) + i
      OBVIOUS
    <2>3. k % Section = i /\ k \div Section = s - 1 /\ k \in Nat /\ k < Section * s
      BY <1>3, <2>2, SectionParts
    <2>4. k + 1 \in 1 .. Section * Len(bytes) /\ k + 1 - 1 = k /\ s - 1 + 1 = s
      <3>1. Section * s <= Section * Len(bytes)
        <4>3. CASE Section = 1 BY <1>3, <4>3
        <4>4. CASE Section = 2 BY <1>3, <4>4
        <4>5. CASE Section = 4 BY <1>3, <4>5
        <4>6. CASE Section = 8 BY <1>3, <4>6
        <4>. QED  BY <4>3, <4>4, <4>5, <4>6, Constants
      <3>2. Section * s \in Int /\ Section * Len(bytes) \in Int
        BY <1>3
      <3>. QED  BY <1>3, <2>3, <3>1, <3>2
    <2>7. PICK j : j = k + 1
      OBVIOUS
    <2>8. j \in 1 .. Section * Len(bytes) /\ j - 1 = k
      BY <2>3, <2>4, <2>7
    <2>5. Promise!OfBytes(bytes)[j] = OnOff(i \in byte)
      <3>1. Promise!OfBytes(bytes)[j] =
               Promise!OnOff((j - 1) % Section \in bytes[(j - 1) \div Section + 1])
        BY <2>8, Zenon DEF Promise!OfBytes
      <3>2. Promise!OfBytes(bytes)[j] = Promise!OnOff(i \in byte)
        BY <1>1, <2>3, <2>4, <2>8, <3>1, Zenon
      <3>. QED  BY <3>2 DEF Promise!OnOff, OnOff
    <2>6. LineLevel(m, Counted(rev, i)) = OnOff(i \in byte)
      BY <1>2, <2>1 DEF LineLevel, OnOff
    <2>. QED  BY <2>2, <2>5, <2>6, <2>7, Zenon
  <1>. QED  BY <1>4, Zenon DEF Shows

(* The s-th group of levels.                                                *)
LEMMA GroupIs ==
    ASSUME NEW levels \in Seq(Level), NEW s, s \in 1 .. Len(levels) \div Section
    PROVE  /\ Group(levels, s) \in Seq(Level) /\ Len(Group(levels, s)) = Section
           /\ \A i \in 0 .. Section - 1 :
                /\ Group(levels, s)[i + 1] = levels[Section * (s - 1) + i + 1]
                /\ Group(levels, s)[i + 1] \in Level
  <1>1. PICK n \in Nat : n = Len(levels)
    BY LenProperties
  <1>2. n \div Section \in Nat /\ Section * s <= n
    BY <1>1, WholeSections
  <1>3. s \in Nat \ {0}
    BY <1>1, <1>2
  <1>4. PICK a \in Int : a = Section * (s - 1) + 1
    BY <1>3, Constants
  <1>5. PICK b \in Int : b = Section * s
    BY <1>3, Constants
  <1>6. a >= 1 /\ b - a + 1 = Section /\ b <= n /\ a <= b + 1 /\ Section >= 1
    <2>3. CASE Section = 1 BY <1>2, <1>3, <1>4, <1>5, <2>3
    <2>4. CASE Section = 2 BY <1>2, <1>3, <1>4, <1>5, <2>4
    <2>5. CASE Section = 4 BY <1>2, <1>3, <1>4, <1>5, <2>5
    <2>6. CASE Section = 8 BY <1>2, <1>3, <1>4, <1>5, <2>6
    <2>. QED  BY <2>3, <2>4, <2>5, <2>6, Constants
  <1>7. \A i \in 1..n : levels[i] \in Level
    BY <1>1, ElementOfSeq
  <1>8. \A i \in a..b : levels[i] \in Level
    BY <1>6, <1>7
  <1>9. PICK g : g = SubSeq(levels, a, b)
    OBVIOUS
  <1>10. /\ g \in Seq(Level) /\ Len(g) = IF a <= b THEN b - a + 1 ELSE 0
         /\ \A i \in 1 .. b - a + 1 : g[i] = levels[a + i - 1]
    BY <1>8, <1>9, SubSeqProperties
  <1>11. g = Group(levels, s)
    BY <1>4, <1>5, <1>9 DEF Group
  <1>12. Len(g) = Section
    BY <1>6, <1>10, Constants
  <1>13. ASSUME NEW i \in 0 .. Section - 1
         PROVE  g[i + 1] = levels[Section * (s - 1) + i + 1] /\ g[i + 1] \in Level
    <2>1. i + 1 \in 1 .. b - a + 1 /\ a + (i + 1) - 1 = Section * (s - 1) + i + 1
          /\ a + (i + 1) - 1 \in a..b
      <3>1. i \in Int /\ Section * (s - 1) \in Int
        BY <1>4, Constants
      <3>2. PICK c \in Int : c = Section * (s - 1)
        BY <3>1
      <3>3. a = c + 1 /\ b - a + 1 = Section /\ i >= 0 /\ i <= Section - 1 /\ Section \in Int
        BY <1>4, <1>6, <3>2, Constants
      <3>4. a + (i + 1) - 1 = c + i + 1 /\ i + 1 \in 1 .. b - a + 1
            /\ a + (i + 1) - 1 \in a..b
        BY <3>1, <3>3
      <3>. QED  BY <3>2, <3>4
    <2>. QED  BY <1>8, <1>10, <2>1
  <1>. QED  BY <1>10, <1>11, <1>12, <1>13

(* The groups of levels show its levels, each in four bits.                 *)
LEMMA LevelsShow ==
    ASSUME rotation \in 0..3, NEW levels \in Seq(Level),
           NEW s \in 1 .. Len(levels) \div Section, NEW rev \in BOOLEAN,
           NEW cmd \in {"LED_LEVEL_ROW", "LED_LEVEL_COLUMN"}, NEW at, NEW m,
           m = Msg(Crossed(cmd), at, pack_nybbles(IF rev THEN revcopy(Group(levels, s))
                                                         ELSE Group(levels, s)))
    PROVE  /\ Shows(m, rev, levels, s)
           /\ m.data \in [1..Section -> Level]
  <1>1. PICK g : g = Group(levels, s)
    OBVIOUS
  <1>2. /\ g \in Seq(Level) /\ Len(g) = Section
        /\ \A i \in 0 .. Section - 1 :
              g[i + 1] = levels[Section * (s - 1) + i + 1] /\ g[i + 1] \in Level
    BY <1>1, GroupIs
  <1>3. /\ m.cmd \in {"LED_LEVEL_ROW", "LED_LEVEL_COLUMN"}
        /\ m.data = pack_nybbles(IF rev THEN revcopy(g) ELSE g)
    BY <1>1, StaysLine DEF Msg
  <1>4. Section \in 1..8 /\ Section \in Nat
    BY Constants
  <1>5. DOMAIN g = 1..Section
    BY <1>2, LenProperties
  <1>6. /\ DOMAIN m.data = 1..Section
        /\ \A i \in 0 .. Section - 1 : m.data[Counted(rev, i) + 1] = g[i + 1] % LevelRange
        /\ \A j \in 1..Section : m.data[j] =
              IF rev THEN g[Section - j + 1] % LevelRange ELSE g[j] % LevelRange
    <2>1. CASE rev
      <3>1. m.data = [i \in DOMAIN revcopy(g) |-> revcopy(g)[i] % LevelRange]
        BY <1>3, <2>1 DEF pack_nybbles
      <3>2. revcopy(g) = [i \in 1..Section |-> g[Section - i + 1]]
        BY <1>2 DEF revcopy, Reverse
      <3>3. /\ DOMAIN m.data = 1..Section
            /\ \A i \in 1..Section : m.data[i] = g[Section - i + 1] % LevelRange
        BY <3>1, <3>2
      <3>4. ASSUME NEW i \in 0 .. Section - 1
            PROVE  m.data[Counted(rev, i) + 1] = g[i + 1] % LevelRange
        <4>1. Section - 1 - i + 1 \in 1..Section /\ Section - (Section - 1 - i + 1) + 1 = i + 1
          BY <1>4
        <4>. QED  BY <2>1, <3>3, <4>1 DEF Counted
      <3>. QED  BY <2>1, <3>3, <3>4
    <2>2. CASE ~rev
      <3>1. m.data = [i \in 1..Section |-> g[i] % LevelRange]
        BY <1>3, <1>5, <2>2 DEF pack_nybbles
      <3>2. \A i \in 0 .. Section - 1 : i + 1 \in 1..Section
        BY <1>4
      <3>. QED  BY <2>2, <3>1, <3>2 DEF Counted
    <2>. QED  BY <2>1, <2>2
  <1>7. \A j \in 1..Section : g[j] \in Level
    <2>1. \A j \in 1..Section : j - 1 \in 0 .. Section - 1 /\ j - 1 + 1 = j
      BY <1>4
    <2>. QED  BY <1>2, <2>1
  <1>8. ASSUME NEW j \in 1..Section PROVE m.data[j] \in Level
    <2>1. Section - j + 1 \in 1..Section
      BY <1>4
    <2>2. PICK level \in Level : m.data[j] = level % LevelRange
      BY <1>6, <1>7, <2>1
    <2>. QED  BY <2>2, LevelFits
  <1>9. m.data \in [1..Section -> Level]
    <2>1. m.data = [j \in DOMAIN m.data |-> m.data[j]]
      <3>1. CASE rev
        BY <1>3, <3>1 DEF pack_nybbles
      <3>2. CASE ~rev
        BY <1>3, <3>2 DEF pack_nybbles
      <3>. QED  BY <3>1, <3>2
    <2>. QED  BY <1>6, <1>8, <2>1
  <1>10. ASSUME NEW i \in 0 .. Section - 1
         PROVE  LineLevel(m, Counted(rev, i)) = levels[Section * (s - 1) + i + 1]
    <2>1. PICK level \in Level : level = g[i + 1]
      BY <1>2
    <2>2. level % LevelRange = level
      BY LevelFits
    <2>3. m.data[Counted(rev, i) + 1] = level
      BY <1>6, <2>1, <2>2
    <2>4. level = levels[Section * (s - 1) + i + 1]
      BY <1>2, <2>1
    <2>5. LineLevel(m, Counted(rev, i)) = m.data[Counted(rev, i) + 1]
      BY <1>3, Zenon DEF LineLevel
    <2>. QED  BY <2>3, <2>4, <2>5, Zenon
  <1>. QED  BY <1>9, <1>10, Zenon DEF Shows

(* The pictures of a row, section by section, and those of a column.        *)
RowPicture(x, y, levels, s) ==
    [p \in (x + Section * (s - 1) .. x + Section * s - 1) \X {y} |-> levels[p[1] - x + 1]]
ColPicture(x, y, levels, s) ==
    [p \in {x} \X (y + Section * (s - 1) .. y + Section * s - 1) |-> levels[p[2] - y + 1]]

(* A message that shows section s of a row draws it.                        *)
LEMMA RowSectionDraws ==
    ASSUME rotation \in 0..3, NEW x \in Corners, NEW y, y \in 0 .. height - 1,
           NEW s, s \in Nat \ {0}, x + Section * s <= 256, NEW levels, NEW data,
           NEW cmd \in {"LED_ROW", "LED_LEVEL_ROW"}, NEW m,
           m = mext_led_row_col(cmd, Start(x, s), y, data),
           Shows(m, rotation \in ROW_REVBITS, levels, s)
    PROVE  Draws(m, RowPicture(x, y, levels, s))
  <1>1. PICK c : c = Start(x, s)
    OBVIOUS
  <1>2. /\ c \in Corners /\ Span(c) = c .. x + Section * s - 1
        /\ \A k \in Span(c) : k - c \in 0 .. Section - 1 /\ k - x = Section * (s - 1) + (k - c)
    BY <1>1, SectionStarts
  <1>3. PICK f : f = RowPicture(x, y, levels, s)
    OBVIOUS
  <1>4. f = [p \in Span(c) \X {y} |-> levels[p[1] - x + 1]]
    <2>1. Span(c) = x + Section * (s - 1) .. x + Section * s - 1
      BY <1>1, <1>2 DEF Start
    <2>. QED  BY <1>3, <2>1, Zenon DEF RowPicture
  <1>5. ASSUME NEW p \in Logical
        PROVE  /\ Place(p) \in DOMAIN Painted(m) <=> p \in DOMAIN f
               /\ p \in DOMAIN f => Painted(m)[Place(p)] = f[p]
    <2>1. m = mext_led_row_col(cmd, c, y, data)
      BY <1>1
    <2>2. /\ Place(p) \in DOMAIN Painted(m) <=> p \in Span(c) \X {y}
          /\ p \in Span(c) \X {y} =>
               Painted(m)[Place(p)] = LineLevel(m, Counted(rotation \in ROW_REVBITS, p[1] - c))
      <3>1. c \in Corners
        BY <1>2
      <3>. QED  BY <2>1, <3>1, RowMessage
    <2>3. ASSUME p \in Span(c) \X {y}
          PROVE  Painted(m)[Place(p)] = f[p]
      <3>1. p[1] \in Span(c)
        BY <2>3
      <3>2. PICK i \in 0 .. Section - 1 : i = p[1] - c
        BY <1>2, <3>1
      <3>3. p[1] - x = Section * (s - 1) + i
        BY <1>2, <3>1, <3>2
      <3>4. LineLevel(m, Counted(rotation \in ROW_REVBITS, i)) = levels[Section * (s - 1) + i + 1]
        BY Zenon DEF Shows
      <3>5. f[p] = levels[p[1] - x + 1]
        BY <1>4, <2>3, Zenon
      <3>. QED  BY <2>2, <2>3, <3>2, <3>3, <3>4, <3>5, Zenon
    <2>. QED  BY <1>4, <2>2, <2>3
  <1>. QED  BY <1>3, <1>5, Zenon DEF Draws

(* A message that shows section s of a column draws it.                     *)
LEMMA ColSectionDraws ==
    ASSUME rotation \in 0..3, NEW x, x \in 0 .. width - 1, NEW y \in Corners,
           NEW s, s \in Nat \ {0}, y + Section * s <= 256, NEW levels, NEW data,
           NEW cmd \in {"LED_COLUMN", "LED_LEVEL_COLUMN"}, NEW m,
           m = mext_led_row_col(cmd, x, Start(y, s), data),
           Shows(m, rotation \in COL_REVBITS, levels, s)
    PROVE  Draws(m, ColPicture(x, y, levels, s))
  <1>1. PICK c : c = Start(y, s)
    OBVIOUS
  <1>2. /\ c \in Corners /\ Span(c) = c .. y + Section * s - 1
        /\ \A k \in Span(c) : k - c \in 0 .. Section - 1 /\ k - y = Section * (s - 1) + (k - c)
    BY <1>1, SectionStarts
  <1>3. PICK f : f = ColPicture(x, y, levels, s)
    OBVIOUS
  <1>4. f = [p \in {x} \X Span(c) |-> levels[p[2] - y + 1]]
    <2>1. Span(c) = y + Section * (s - 1) .. y + Section * s - 1
      BY <1>1, <1>2 DEF Start
    <2>. QED  BY <1>3, <2>1, Zenon DEF ColPicture
  <1>5. ASSUME NEW p \in Logical
        PROVE  /\ Place(p) \in DOMAIN Painted(m) <=> p \in DOMAIN f
               /\ p \in DOMAIN f => Painted(m)[Place(p)] = f[p]
    <2>1. m = mext_led_row_col(cmd, x, c, data)
      BY <1>1
    <2>2. /\ Place(p) \in DOMAIN Painted(m) <=> p \in {x} \X Span(c)
          /\ p \in {x} \X Span(c) =>
               Painted(m)[Place(p)] = LineLevel(m, Counted(rotation \in COL_REVBITS, p[2] - c))
      <3>1. c \in Corners
        BY <1>2
      <3>. QED  BY <2>1, <3>1, ColMessage
    <2>3. ASSUME p \in {x} \X Span(c)
          PROVE  Painted(m)[Place(p)] = f[p]
      <3>1. p[2] \in Span(c)
        BY <2>3
      <3>2. PICK i \in 0 .. Section - 1 : i = p[2] - c
        BY <1>2, <3>1
      <3>3. p[2] - y = Section * (s - 1) + i
        BY <1>2, <3>1, <3>2
      <3>4. LineLevel(m, Counted(rotation \in COL_REVBITS, i)) = levels[Section * (s - 1) + i + 1]
        BY Zenon DEF Shows
      <3>5. f[p] = levels[p[2] - y + 1]
        BY <1>4, <2>3, Zenon
      <3>. QED  BY <2>2, <2>3, <3>2, <3>3, <3>4, <3>5, Zenon
    <2>. QED  BY <1>4, <2>2, <2>3
  <1>. QED  BY <1>3, <1>5, Zenon DEF Draws

-----------------------------------------------------------------------------
(* Messages that are written, or not                                        *)

(* The function of which Those takes one value. *)
Keeping(set, seq, k, u) ==
    u = [n \in 0..k |->
            IF n = 0 THEN <<>>
            ELSE IF n \in set THEN Append(u[n - 1], seq[n])
            ELSE u[n - 1]]

(* There is such a function.                                                *)
LEMMA KeepingExists ==
    ASSUME NEW set, NEW seq, NEW n \in Nat
    PROVE  \E u : Keeping(set, seq, n, u)
  <1>. DEFINE S == {k \in Nat : \E u : Keeping(set, seq, k, u)}
  <1>1. 0 \in S
    <2>. DEFINE u == [i \in 0..0 |-> <<>>]
    <2>1. \A i \in 0..0 : i = 0
      OBVIOUS
    <2>2. Keeping(set, seq, 0, u)
      BY <2>1 DEF Keeping
    <2>. QED  BY <2>2
  <1>2. ASSUME NEW k \in Nat, k \in S
        PROVE  k + 1 \in S
    <2>1. PICK u : Keeping(set, seq, k, u)
      BY <1>2
    <2>. DEFINE v == [i \in 0 .. k + 1 |->
                        IF i = 0 THEN <<>>
                        ELSE IF i \in set THEN Append(u[i - 1], seq[i])
                        ELSE u[i - 1]]
    <2>2. \A i \in 0..k : v[i] = u[i]
      <3>1. \A i \in 0..k : i \in 0 .. k + 1
        OBVIOUS
      <3>2. \A i \in 0..k : u[i] = IF i = 0 THEN <<>>
                                   ELSE IF i \in set THEN Append(u[i - 1], seq[i])
                                   ELSE u[i - 1]
        BY <2>1, Zenon DEF Keeping
      <3>. QED  BY <3>1, <3>2, Zenon
    <2>3. \A i \in 0 .. k + 1 : i # 0 => i - 1 \in 0..k
      OBVIOUS
    <2>4. v = [i \in 0 .. k + 1 |->
                 IF i = 0 THEN <<>>
                 ELSE IF i \in set THEN Append(v[i - 1], seq[i])
                 ELSE v[i - 1]]
      <3>1. v = [i \in 0 .. k + 1 |->
                   IF i = 0 THEN <<>>
                   ELSE IF i \in set THEN Append(u[i - 1], seq[i])
                   ELSE u[i - 1]]
        OBVIOUS
      <3>. HIDE DEF v
      <3>2. \A i \in 0 .. k + 1 :
              (IF i = 0 THEN <<>> ELSE IF i \in set THEN Append(u[i - 1], seq[i]) ELSE u[i - 1])
                = IF i = 0 THEN <<>> ELSE IF i \in set THEN Append(v[i - 1], seq[i]) ELSE v[i - 1]
        BY <2>2, <2>3, Zenon
      <3>. QED  BY <3>1, <3>2, Zenon
    <2>. HIDE DEF v
    <2>5. Keeping(set, seq, k + 1, v)
      BY <2>4 DEF Keeping
    <2>. QED  BY <2>5
  <1>. HIDE DEF S
  <1>3. n \in S
    BY <1>1, <1>2, NatByInduction
  <1>. QED  BY <1>3 DEF S

(* u[i] has those of the first i elements whose places are in set. *)
Kept(set, seq, n, u) ==
    /\ u[0] = <<>>
    /\ \A i \in 1..n : u[i] = IF i \in set THEN Append(u[i - 1], seq[i]) ELSE u[i - 1]

(* Those that are written, one by one.                                      *)
LEMMA ThoseAreKept ==
    ASSUME NEW set, NEW seq, NEW n \in Nat, n = Len(seq)
    PROVE  \E u : Kept(set, seq, n, u) /\ Those(set, seq) = u[n]
  <1>. DEFINE u == CHOOSE v : Keeping(set, seq, n, v)
  <1>1. Keeping(set, seq, n, u)
    BY KeepingExists, Zenon
  <1>2. Those(set, seq) = u[n]
    BY Zenon DEF Those, Keeping
  <1>. HIDE DEF u
  <1>3. \A i \in 0..n : u[i] = IF i = 0 THEN <<>>
                               ELSE IF i \in set THEN Append(u[i - 1], seq[i])
                               ELSE u[i - 1]
    BY <1>1, Zenon DEF Keeping
  <1>4. 0 \in 0..n /\ \A i \in 1..n : i \in 0..n /\ i # 0
    OBVIOUS
  <1>. QED  BY <1>2, <1>3, <1>4, Zenon DEF Kept

(* What one looks at: LED q, or the brightness; whether a message is about  *)
(* it, and what it makes of it.                                             *)
See(part, x, q) == IF part = "lit" THEN x[q] ELSE x
Touches(part, m, q) == IF part = "lit" THEN q \in DOMAIN Painted(m) ELSE m.cmd = "LED_INTENSITY"
Gives(part, m, q) == IF part = "lit" THEN Painted(m)[q] ELSE m.data

(* One message changes what it is about, and nothing else.                  *)
LEMMA SeeStep ==
    ASSUME NEW part \in Parts, NEW x, NEW m, NEW q \in Hardware
    PROVE  /\ Touches(part, m, q) => See(part, Step(part, x, m), q) = Gives(part, m, q)
           /\ ~Touches(part, m, q) => See(part, Step(part, x, m), q) = See(part, x, q)
  <1>1. CASE part = "lit"
    <2>1. Step(part, x, m) = [p \in Hardware |->
             IF p \in DOMAIN Painted(m) THEN Painted(m)[p] ELSE x[p]]
      BY <1>1 DEF Step, Shown
    <2>. QED  BY <1>1, <2>1 DEF See, Touches, Gives
  <1>2. CASE part = "brightness"
    <2>1. Step(part, x, m) = IF m.cmd = "LED_INTENSITY" THEN m.data ELSE x
      BY <1>2 DEF Step, Dimmed
    <2>. QED  BY <1>2, <2>1 DEF See, Touches, Gives
  <1>. QED  BY <1>1, <1>2 DEF Parts

(* What the messages in set, all of msgs, make of what was there before.    *)
Effect(part, msgs, set, before, now, q) ==
    /\ (\A i \in set : ~Touches(part, msgs[i], q)) => See(part, now, q) = See(part, before, q)
    /\ \A v : /\ \E i \in set : Touches(part, msgs[i], q)
              /\ \A i \in set : Touches(part, msgs[i], q) => Gives(part, msgs[i], q) = v
              => See(part, now, q) = v

(* One message more.                                                        *)
LEMMA OneMoreEffect ==
    ASSUME NEW part \in Parts, NEW msgs, NEW set, NEW before, NEW x, NEW q \in Hardware,
           Effect(part, msgs, set, before, x, q), NEW j
    PROVE  Effect(part, msgs, set \cup {j}, before, Step(part, x, msgs[j]), q)
  <1>. DEFINE now == Step(part, x, msgs[j])
  <1>1. /\ Touches(part, msgs[j], q) => See(part, now, q) = Gives(part, msgs[j], q)
        /\ ~Touches(part, msgs[j], q) => See(part, now, q) = See(part, x, q)
    BY SeeStep
  <1>. HIDE DEF now
  <1>2. ASSUME \A i \in set \cup {j} : ~Touches(part, msgs[i], q)
        PROVE  See(part, now, q) = See(part, before, q)
    BY <1>1, <1>2 DEF Effect
  <1>3. ASSUME NEW v, \E i \in set \cup {j} : Touches(part, msgs[i], q),
               \A i \in set \cup {j} : Touches(part, msgs[i], q) => Gives(part, msgs[i], q) = v
        PROVE  See(part, now, q) = v
    <2>1. CASE Touches(part, msgs[j], q)
      BY <1>1, <1>3, <2>1
    <2>2. CASE ~Touches(part, msgs[j], q)
      BY <1>1, <1>3, <2>2 DEF Effect
    <2>. QED  BY <2>1, <2>2
  <1>. QED  BY <1>2, <1>3 DEF Effect, now

(* Appending to the second of two sequences.                                *)
LEMMA AppendLater ==
    ASSUME NEW T, NEW w \in Seq(T), NEW a \in Seq(T), NEW m \in T
    PROVE  w \o Append(a, m) = Append(w \o a, m)
  <1>1. PICK c \in Seq(T) : c = w \o a
    BY ConcatProperties
  <1>2. PICK d \in Seq(T) : d = <<m>>
    <2>1. <<m>> \in Seq(T)
      OBVIOUS
    <2>. QED  BY <2>1
  <1>3. Append(a, m) = a \o d /\ Append(c, m) = c \o d
    BY <1>2, AppendIsConcat, Zenon
  <1>4. (w \o a) \o d = w \o (a \o d)
    BY ConcatAssociative
  <1>. QED  BY <1>1, <1>3, <1>4, Zenon

(* What is written comes after what was there, in the order of the messages.*)
LEMMA WrittenLater ==
    ASSUME NEW T, NEW w \in Seq(T), NEW msgs \in Seq(T), NEW kept \in SUBSET (1 .. Len(msgs)),
           NEW part \in Parts, NEW b
    PROVE  /\ Those(kept, msgs) \in Seq(T)
           /\ \A q \in Hardware : Effect(part, msgs, kept, Fold(part, b, w),
                                         Fold(part, b, w \o Those(kept, msgs)), q)
  <1>1. PICK n \in Nat : n = Len(msgs)
    BY LenProperties
  <1>2. PICK u : Kept(kept, msgs, n, u) /\ Those(kept, msgs) = u[n]
    BY <1>1, ThoseAreKept
  <1>. DEFINE Good(k) == /\ u[k] \in Seq(T)
                         /\ \A q \in Hardware :
                              Effect(part, msgs, kept \cap (1..k), Fold(part, b, w),
                                     Fold(part, b, w \o u[k]), q)
              S == {k \in Nat : k <= n => Good(k)}
  <1>. HIDE DEF Good
  <1>3. 0 \in S
    <2>1. u[0] = <<>> /\ w \o <<>> = w /\ <<>> \in Seq(T)
      BY <1>2, ConcatEmptySeq, EmptySeq DEF Kept
    <2>2. kept \cap (1..0) = {}
      OBVIOUS
    <2>3. \A q \in Hardware : Effect(part, msgs, {}, Fold(part, b, w), Fold(part, b, w), q)
      BY DEF Effect
    <2>. QED  BY <2>1, <2>2, <2>3 DEF Good
  <1>4. ASSUME NEW k \in Nat, k \in S
        PROVE  k + 1 \in S
    <2>1. SUFFICES ASSUME k + 1 <= n PROVE Good(k + 1)
      OBVIOUS
    <2>2. PICK j \in 1..n : j = k + 1
      BY <2>1
    <2>3. Good(k)
      BY <1>4, <2>1
    <2>4. u[j] = IF j \in kept THEN Append(u[k], msgs[j]) ELSE u[k]
      <3>1. j - 1 = k
        BY <2>2
      <3>2. u[j] = IF j \in kept THEN Append(u[j - 1], msgs[j]) ELSE u[j - 1]
        BY <1>2, Zenon DEF Kept
      <3>. QED  BY <3>1, <3>2
    <2>5. CASE j \notin kept
      <3>1. kept \cap (1..j) = kept \cap (1..k)
        BY <1>1, <2>2, <2>5
      <3>2. Good(j)
        BY <2>3, <2>4, <2>5, <3>1, Zenon DEF Good
      <3>. QED  BY <2>2, <3>2
    <2>6. CASE j \in kept
      <3>1. PICK m \in T : m = msgs[j]
        BY <1>1, ElementOfSeq
      <3>2. kept \cap (1..j) = (kept \cap (1..k)) \cup {j}
        BY <1>1, <2>2, <2>6
      <3>3. u[j] = Append(u[k], m) /\ u[k] \in Seq(T)
        BY <2>3, <2>4, <2>6, <3>1, Zenon DEF Good
      <3>4. u[j] \in Seq(T)
        BY <3>3, AppendProperties
      <3>5. w \o u[j] = Append(w \o u[k], m) /\ w \o u[k] \in Seq(T)
        <4>1. PICK a \in Seq(T) : a = u[k]
          BY <3>3, Zenon
        <4>2. w \o Append(a, m) = Append(w \o a, m) /\ w \o a \in Seq(T)
          BY AppendLater, ConcatProperties
        <4>. QED  BY <3>3, <4>1, <4>2
      <3>6. Fold(part, b, w \o u[j]) = Step(part, Fold(part, b, w \o u[k]), m)
        <4>1. PICK a \in Seq(T) : a = w \o u[k]
          BY <3>5
        <4>2. Fold(part, b, Append(a, m)) = Step(part, Fold(part, b, a), m)
          BY FoldAppend
        <4>. QED  BY <3>5, <4>1, <4>2
      <3>7. Good(j)
        <4>1. SUFFICES ASSUME NEW q \in Hardware
                       PROVE  Effect(part, msgs, kept \cap (1..j), Fold(part, b, w),
                                     Fold(part, b, w \o u[j]), q)
          BY <3>4, Zenon DEF Good
        <4>2. Effect(part, msgs, kept \cap (1..k), Fold(part, b, w),
                     Fold(part, b, w \o u[k]), q)
          BY <2>3, Zenon DEF Good
        <4>3. Effect(part, msgs, (kept \cap (1..k)) \cup {j}, Fold(part, b, w),
                     Step(part, Fold(part, b, w \o u[k]), msgs[j]), q)
          BY <4>2, OneMoreEffect, Zenon
        <4>. QED  BY <3>1, <3>2, <3>6, <4>3, Zenon
      <3>. QED  BY <2>2, <3>7
    <2>. QED  BY <2>5, <2>6
  <1>. HIDE DEF S
  <1>5. n \in S
    BY <1>3, <1>4, NatByInduction
  <1>6. Good(n)
    BY <1>5 DEF S
  <1>7. kept \cap (1..n) = kept
    BY <1>1
  <1>. QED  BY <1>2, <1>6, <1>7, Zenon DEF Good

-----------------------------------------------------------------------------
(* Pictures drawn over a picture                                            *)

(* The picture the application will see, and the LEDs it is made of.        *)
LEMMA FrameIs ==
    /\ Frame = [p \in Logical |-> Fold("lit", lit, wire)[Place(p)]]
    /\ rotation' = rotation =>
         Frame' = [p \in Logical |-> Fold("lit", lit', wire')[Place(p)]]
  <1>1. Frame = [p \in Logical |-> Fold("lit", lit, wire)[Place(p)]]
    BY Zenon DEF Frame, Logical, Place, Fold
  <1>2. ASSUME rotation' = rotation
        PROVE  Frame' = [p \in Logical |-> Fold("lit", lit', wire')[Place(p)]]
    BY <1>2, Zenon DEF Frame, Logical, Place, Fold
  <1>. QED  BY <1>1, <1>2

(* The messages that are not written. *)
LEMMA NotWritten ==
    ASSUME NEW n \in Nat, NEW kept \in SUBSET (1..n)
    PROVE  /\ n - Cardinality(kept) = Cardinality((1..n) \ kept)
           /\ Cardinality(kept) \in 0..n
  <1>1. IsFiniteSet(1..n) /\ Cardinality(1..n) = n
    BY FS_Interval
  <1>2. IsFiniteSet(kept) /\ Cardinality(kept) <= n
    BY <1>1, FS_Subset
  <1>3. Cardinality((1..n) \ kept) = n - Cardinality((1..n) \cap kept)
    BY <1>1, FS_Difference
  <1>4. (1..n) \cap kept = kept
    OBVIOUS
  <1>5. Cardinality(kept) \in Nat
    BY <1>2, FS_CardinalityType
  <1>. QED  BY <1>1, <1>2, <1>3, <1>4, <1>5

(* Pictures of different parts. *)
Disjoint(pics, n) ==
    \A s, t \in 1..n : \A p : p \in DOMAIN pics[s] /\ p \in DOMAIN pics[t] => s = t

(* At most one of different pictures has a given place.                     *)
LEMMA OnePicture ==
    ASSUME NEW n \in Nat, NEW pics, Disjoint(pics, n), NEW kept \in SUBSET (1..n), NEW p,
           NEW i \in kept, p \in DOMAIN pics[i]
    PROVE  /\ {s \in kept : p \in DOMAIN pics[s]} = {i}
           /\ (CHOOSE s \in {s \in kept : p \in DOMAIN pics[s]} : TRUE) = i
  <1>1. {s \in kept : p \in DOMAIN pics[s]} = {i}
    BY DEF Disjoint
  <1>2. \A t : t \in {i} <=> t = i
    OBVIOUS
  <1>3. (CHOOSE s \in {i} : TRUE) = i
    BY <1>2
  <1>. QED  BY <1>1, <1>3

(* Some of these pictures over what was there. *)
Over(drawn, pics, before) ==
    [p \in DOMAIN before |->
        LET over == {i \in drawn : p \in DOMAIN pics[i]}
        IN IF over = {} THEN before[p]
           ELSE pics[CHOOSE i \in over : TRUE][p]]

(* What is written of the messages draws as many of their pictures. *)
LEMMA WrittenDraws ==
    ASSUME rotation \in 0..3, NEW T, wire \in Seq(T), NEW msgs \in Seq(T),
           NEW n \in Nat, n = Len(msgs), NEW pics, Disjoint(pics, n),
           \A s \in 1..n : Draws(msgs[s], pics[s]),
           NEW kept \in SUBSET (1..n),
           rotation' = rotation, lit' = lit, wire' = wire \o Those(kept, msgs)
    PROVE  Frame' = Over(kept, pics, Frame)
  <1>. DEFINE old == Fold("lit", lit, wire)
              new == Fold("lit", lit', wire')
  <1>1. \A q \in Hardware : Effect("lit", msgs, kept, old, new, q)
    <2>1. "lit" \in Parts /\ kept \in SUBSET (1 .. Len(msgs))
      BY DEF Parts
    <2>. QED  BY <2>1, WrittenLater, Zenon
  <1>2. /\ DOMAIN Frame = Logical
        /\ \A p \in Logical : Frame[p] = old[Place(p)]
        /\ Frame' = [p \in Logical |-> new[Place(p)]]
    BY FrameIs
  <1>. HIDE DEF old, new
  <1>3. ASSUME NEW p \in Logical
        PROVE  new[Place(p)] = Over(kept, pics, Frame)[p]
    <2>1. PICK q \in Hardware : q = Place(p)
      BY PlaceOnHardware
    <2>2. /\ (\A i \in kept : ~(q \in DOMAIN Painted(msgs[i]))) => new[q] = old[q]
          /\ \A v : /\ \E i \in kept : q \in DOMAIN Painted(msgs[i])
                    /\ \A i \in kept : q \in DOMAIN Painted(msgs[i])
                                       => Painted(msgs[i])[q] = v
                    => new[q] = v
      BY <1>1, Zenon DEF Effect, See, Touches, Gives
    <2>3. \A i \in kept : /\ q \in DOMAIN Painted(msgs[i]) <=> p \in DOMAIN pics[i]
                          /\ p \in DOMAIN pics[i] => Painted(msgs[i])[q] = pics[i][p]
      BY <2>1 DEF Draws
    <2>. DEFINE over == {i \in kept : p \in DOMAIN pics[i]}
    <2>4. Over(kept, pics, Frame)[p] =
             IF over = {} THEN Frame[p] ELSE pics[CHOOSE i \in over : TRUE][p]
      BY <1>2, Zenon DEF Over
    <2>5. CASE over = {}
      BY <1>2, <2>1, <2>2, <2>3, <2>4, <2>5
    <2>6. CASE over # {}
      <3>1. PICK i \in kept : p \in DOMAIN pics[i]
        BY <2>6
      <3>2. over = {i} /\ (CHOOSE s \in over : TRUE) = i
        BY <3>1, OnePicture
      <3>3. \A s \in kept : p \in DOMAIN pics[s] => s = i
        BY <3>2
      <3>4. new[q] = pics[i][p]
        BY <2>2, <2>3, <3>1, <3>3
      <3>. QED  BY <2>1, <2>4, <2>6, <3>2, <3>4
    <2>. QED  BY <2>5, <2>6
  <1>4. DOMAIN Over(kept, pics, Frame) = Logical
    BY <1>2 DEF Over
  <1>5. Over(kept, pics, Frame) = [p \in Logical |-> Over(kept, pics, Frame)[p]]
    BY <1>4 DEF Over
  <1>. QED  BY <1>2, <1>3, <1>5

(* There is a place.                                                        *)
LEMMA SomePlace ==
    \E q : q \in Hardware
  <1>1. Cols \in 1..255 /\ Rows \in 1..255
    BY Constants
  <1>2. 0 \in 0 .. Cols - 1 /\ 0 \in 0 .. Rows - 1
    BY <1>1
  <1>3. <<0, 0>> \in Hardware
    BY <1>2 DEF Hardware, HardwareGrid
  <1>. QED  BY <1>3

(* GridFrame counts as this module does.                                    *)
LEMMA SameCount ==
    ASSUME NEW S
    PROVE  Promise!Cardinality(S) = Cardinality(S)
  BY Zenon DEF Promise!Cardinality, Cardinality

(* A part no message is about stays as it was. *)
LEMMA NothingTouched ==
    ASSUME NEW T, NEW w \in Seq(T), NEW msgs \in Seq(T), NEW n \in Nat, n = Len(msgs),
           NEW kept \in SUBSET (1..n), NEW b,
           \A s \in 1..n : msgs[s].cmd # "LED_INTENSITY"
    PROVE  Fold("brightness", b, w \o Those(kept, msgs)) = Fold("brightness", b, w)
  <1>. DEFINE old == Fold("brightness", b, w)
              new == Fold("brightness", b, w \o Those(kept, msgs))
  <1>1. PICK q : q \in Hardware
    BY SomePlace
  <1>2. "brightness" \in Parts /\ kept \in SUBSET (1 .. Len(msgs))
    BY DEF Parts
  <1>3. Effect("brightness", msgs, kept, old, new, q)
    BY <1>1, <1>2, WrittenLater, Zenon
  <1>. HIDE DEF old, new
  <1>4. \A i \in kept : ~Touches("brightness", msgs[i], q)
    BY DEF Touches
  <1>5. See("brightness", new, q) = See("brightness", old, q)
    BY <1>3, <1>4, Zenon DEF Effect
  <1>6. new = old
    BY <1>5 DEF See
  <1>. QED  BY <1>6 DEF new, old

(* A call whose messages draw these pictures draws as many of them, in the  *)
(* sense of GridFrame, as were written.                                     *)
LEMMA WriteDraws ==
    ASSUME rotation \in 0..3, NEW T, wire \in Seq(T), NEW msgs \in Seq(T),
           NEW n \in Nat, n = Len(msgs), NEW pics, DOMAIN pics = 1..n, Disjoint(pics, n),
           \A s \in 1..n : Draws(msgs[s], pics[s]) /\ msgs[s].cmd # "LED_INTENSITY",
           NEW rep, Write(msgs, rep)
    PROVE  Promise!Draw(pics)
  <1>1. DOMAIN msgs = 1..n
    BY LenProperties
  <1>2. PICK kept \in SUBSET (1..n) :
           unsent' = n - Cardinality(kept) /\ wire' = wire \o Those(kept, msgs)
    BY <1>1 DEF Write
  <1>3. rotation' = rotation /\ lit' = lit /\ brightness' = brightness
    BY DEF Write, deviceVars
  <1>4. Frame' = Over(kept, pics, Frame)
    BY <1>2, <1>3, WrittenDraws
  <1>5. unsent' = Cardinality((1..n) \ kept)
    BY <1>2, NotWritten
  <1>6. FoldLeft(Dimmed, brightness, wire)' = FoldLeft(Dimmed, brightness, wire)
    <2>1. Fold("brightness", brightness, wire \o Those(kept, msgs)) = Fold("brightness", brightness, wire)
      BY NothingTouched
    <2>. QED  BY <1>2, <1>3, <2>1, Zenon DEF Fold
  <1>7. /\ unsent' = Promise!Cardinality(DOMAIN pics \ kept) /\ kept \in SUBSET DOMAIN pics
        /\ Frame' = [p \in DOMAIN Frame |->
              LET over == {i \in kept : p \in DOMAIN pics[i]}
              IN IF over = {} THEN Frame[p]
                 ELSE pics[CHOOSE i \in over : TRUE][p]]
    BY <1>4, <1>5, SameCount, Zenon DEF Over
  <1>8. UNCHANGED <<rotation, FoldLeft(Dimmed, brightness, wire)>>
    BY <1>3, <1>6, Zenon
  <1>. QED  BY <1>7, <1>8, Zenon DEF Promise!Draw

-----------------------------------------------------------------------------
(* Types of messages                                                        *)

(* Coordinates fit their bytes. *)
LEMMA CoordinatesInBytes ==
    ASSUME rotation \in 0..3, NEW x, x \in Int, NEW y, y \in Int
    PROVE  ROTATE_COORDS(x, y) \in (0..255) \X (0..255)
  <1>1. PICK w \in Int, h \in Int : w = width - 1 /\ h = height - 1
    <2>1. width - 1 \in Int /\ height - 1 \in Int
      BY Sizes
    <2>. QED  BY <2>1
  <1>2. \A a, b : a \in Int /\ b \in Int => Sub(a, b) \in Int
    BY Constants DEF Sub
  <1>3. PICK i, j : i \in Int /\ j \in Int /\ output_cb(rotation, Cols, Rows, <<x, y>>) = <<i, j>>
    <2>1. output_cb(rotation, Cols, Rows, <<x, y>>) =
            CASE rotation = 0 -> <<x, y>>
              [] rotation = 1 -> <<y, Sub(w, x)>>
              [] rotation = 2 -> <<Sub(w, x), Sub(h, y)>>
              [] rotation = 3 -> <<Sub(h, y), x>>
      BY <1>1, Zenon DEF output_cb, r90_output_cb, r180_output_cb, r270_output_cb, width, height
    <2>2. Sub(w, x) \in Int /\ Sub(h, y) \in Int
      BY <1>2
    <2>3. CASE rotation = 0 BY <2>1, <2>3
    <2>4. CASE rotation = 1 BY <2>1, <2>2, <2>4
    <2>5. CASE rotation = 2 BY <2>1, <2>2, <2>5
    <2>6. CASE rotation = 3 BY <2>1, <2>2, <2>6
    <2>. QED  BY <2>3, <2>4, <2>5, <2>6
  <1>4. i % 256 \in 0..255 /\ j % 256 \in 0..255
    BY <1>3
  <1>5. ROTATE_COORDS(x, y) = <<i % 256, j % 256>>
    BY <1>3 DEF ROTATE_COORDS
  <1>. QED  BY <1>4, <1>5

(* What each command is followed by. *)
Follows(cmd, data) ==
    \/ cmd \in {"LED_ON", "LED_OFF", "LED_ALL_ON", "LED_ALL_OFF"} /\ data = {}
    \/ cmd \in {"LED_LEVEL_SET", "LED_LEVEL_ALL", "LED_INTENSITY"} /\ data \in Level
    \/ cmd = "LED_MAP" /\ data \in SUBSET Points
    \/ cmd = "LED_LEVEL_MAP" /\ data \in [Points -> Level]
    \/ cmd \in {"LED_ROW", "LED_COLUMN"} /\ data \in SUBSET (0 .. Section - 1)
    \/ cmd \in {"LED_LEVEL_ROW", "LED_LEVEL_COLUMN"} /\ data \in [1..Section -> Level]

(* The messages, one by one.                                                *)
LEMMA MessagesAre ==
    ASSUME NEW m
    PROVE  m \in Messages <=>
             \E cmd, at, data : /\ m = Msg(cmd, at, data)
                                /\ at \in (0..255) \X (0..255)
                                /\ Follows(cmd, data)
  <1>. DEFINE Bytes == (0..255) \X (0..255)
              With(cmds, what) == [cmd : cmds, at : Bytes, data : what]
  <1>1. \A cmds, what :
          m \in With(cmds, what) <=>
             \E cmd \in cmds, at \in Bytes, data \in what : m = Msg(cmd, at, data)
    BY DEF Msg
  <1>2. m \in Messages <=>
          \/ m \in With({"LED_ON", "LED_OFF", "LED_ALL_ON", "LED_ALL_OFF"}, {{}})
          \/ m \in With({"LED_LEVEL_SET", "LED_LEVEL_ALL", "LED_INTENSITY"}, Level)
          \/ m \in With({"LED_MAP"}, SUBSET Points)
          \/ m \in With({"LED_LEVEL_MAP"}, [Points -> Level])
          \/ m \in With({"LED_ROW", "LED_COLUMN"}, SUBSET (0 .. Section - 1))
          \/ m \in With({"LED_LEVEL_ROW", "LED_LEVEL_COLUMN"}, [1..Section -> Level])
    BY Zenon DEF Messages
  <1>. HIDE DEF With, Bytes
  <1>3. ASSUME m \in Messages
        PROVE  \E cmd, at, data :
                  m = Msg(cmd, at, data) /\ at \in Bytes /\ Follows(cmd, data)
    BY <1>1, <1>2, <1>3 DEF Follows
  <1>4. ASSUME NEW cmd, NEW at, NEW data,
               m = Msg(cmd, at, data) /\ at \in Bytes /\ Follows(cmd, data)
        PROVE  m \in Messages
    <2>1. \A cmds, what : cmd \in cmds /\ data \in what => m \in With(cmds, what)
      BY <1>1, <1>4, Zenon
    <2>2. data = {} => data \in {{}}
      OBVIOUS
    <2>. QED  BY <1>2, <1>4, <2>1, <2>2 DEF Follows
  <1>. QED  BY <1>3, <1>4 DEF Bytes

(* A row or column that is turned. *)
LEMMA CrossedFollows ==
    ASSUME rotation \in 0..3, NEW cmd, NEW data, Follows(cmd, data),
           cmd \in {"LED_ROW", "LED_COLUMN", "LED_LEVEL_ROW", "LED_LEVEL_COLUMN"}
    PROVE  Follows(Crossed(cmd), data) /\ Crossed(cmd) # "LED_INTENSITY"
  BY StaysLine DEF Follows

-----------------------------------------------------------------------------
(* Calls of one message                                                     *)

(* What a call writes are messages. *)
LEMMA WriteTypes ==
    ASSUME TypeOK, NEW msgs \in Seq(Messages), NEW rep, Write(msgs, rep)
    PROVE  TypeOK'
  <1>1. PICK n \in Nat : n = Len(msgs)
    BY LenProperties
  <1>2. DOMAIN msgs = 1..n
    BY <1>1, LenProperties
  <1>3. PICK kept \in SUBSET (1..n) :
           /\ unsent' = n - Cardinality(kept)
           /\ wire' = wire \o Those(kept, msgs)
           /\ result' = IF rep /\ kept = {} THEN -1 ELSE 1
    BY <1>1, <1>2 DEF Write
  <1>4. wire' \in Seq(Messages)
    <2>1. "lit" \in Parts /\ kept \in SUBSET (1 .. Len(msgs)) /\ wire \in Seq(Messages)
      BY <1>1 DEF Parts, TypeOK
    <2>2. Those(kept, msgs) \in Seq(Messages)
      BY <2>1, WrittenLater
    <2>. QED  BY <1>3, <2>1, <2>2, ConcatProperties
  <1>5. unsent' \in Nat
    <2>1. Cardinality(kept) \in 0..n
      BY NotWritten
    <2>. QED  BY <1>3, <2>1
  <1>6. result' \in {-1, 1}
    BY <1>3
  <1>7. /\ rotation' = rotation /\ lit' = lit /\ brightness' = brightness
        /\ calls' = calls + 1 /\ calls < MaxCalls
    BY DEF Write, deviceVars
  <1>8. calls' \in 0..MaxCalls
    BY <1>7, CallsAssumption DEF TypeOK
  <1>. QED  BY <1>4, <1>5, <1>6, <1>7, <1>8 DEF TypeOK

(* A call of one message. *)
LEMMA WriteOneDraws ==
    ASSUME TypeOK, NEW cmd, cmd # "LED_INTENSITY", NEW data, Follows(cmd, data),
           NEW at \in (0..255) \X (0..255), NEW f, Draws(Msg(cmd, at, data), f),
           WriteOne(Msg(cmd, at, data))
    PROVE  Promise!Draw(<<f>>) /\ TypeOK'
  <1>1. PICK m : m = Msg(cmd, at, data)
    OBVIOUS
  <1>2. m \in Messages /\ m.cmd # "LED_INTENSITY" /\ Draws(m, f)
    <2>1. m \in Messages
      BY <1>1, MessagesAre
    <2>2. m.cmd = cmd
      BY <1>1 DEF Msg
    <2>. QED  BY <1>1, <2>1, <2>2
  <1>3. PICK msgs : msgs = <<m>>
    OBVIOUS
  <1>4. PICK pics : pics = <<f>>
    OBVIOUS
  <1>5. /\ msgs \in Seq(Messages) /\ Len(msgs) = 1
        /\ DOMAIN pics = 1..1
        /\ \A s \in 1..1 : msgs[s] = m /\ pics[s] = f
    BY <1>2, <1>3, <1>4
  <1>6. Write(msgs, TRUE)
    BY <1>1, <1>3 DEF WriteOne
  <1>7. Disjoint(pics, 1)
    BY DEF Disjoint
  <1>8. rotation \in 0..3 /\ wire \in Seq(Messages)
    BY DEF TypeOK, Rotations
  <1>9. \A s \in 1..1 : Draws(msgs[s], pics[s]) /\ msgs[s].cmd # "LED_INTENSITY"
    BY <1>2, <1>5, Zenon
  <1>10. Promise!Draw(pics)
    <2>1. 1 \in Nat
      OBVIOUS
    <2>. QED  BY <1>5, <1>6, <1>7, <1>8, <1>9, <2>1, WriteDraws
  <1>. QED  BY <1>4, <1>5, <1>6, <1>10, WriteTypes

(* The picture is not drawn line by line. *)
LEMMA NotRowWise ==
    ASSUME NEW f
    PROVE  Promise!Lines(f) = <<f>>
  BY Zenon DEF Promise!Lines

(* mext_led_set() draws what GridFrame promises.                            *)
LEMMA LedSetKeeps ==
    ASSUME TypeOK, NEW p \in Logical, NEW on \in BOOLEAN, mext_led_set(p[1], p[2], on)
    PROVE  Promise!SetTo(p, OnOff(on)) /\ TypeOK'
  <1>1. rotation \in 0..3
    BY DEF TypeOK, Rotations
  <1>2. PICK cmd, at : /\ cmd = IF on THEN "LED_ON" ELSE "LED_OFF"
                       /\ at = ROTATE_COORDS(p[1], p[2])
    OBVIOUS
  <1>3. p[1] \in Int /\ p[2] \in Int
    BY <1>1, Sizes
  <1>4. at \in (0..255) \X (0..255) /\ Follows(cmd, {}) /\ cmd # "LED_INTENSITY"
    BY <1>1, <1>2, <1>3, CoordinatesInBytes DEF Follows
  <1>5. Draws(Msg(cmd, at, {}), [q \in {p} |-> OnOff(on)])
    <2>1. PICK m : m = Msg(cmd, at, {})
      OBVIOUS
    <2>2. /\ m.at = ROTATE_COORDS(p[1], p[2])
          /\ \/ m.cmd = "LED_ON" /\ OnOff(on) = MaxLevel
             \/ m.cmd = "LED_OFF" /\ OnOff(on) = 0
      BY <1>2, <2>1 DEF Msg, OnOff
    <2>. QED  BY <1>1, <2>1, <2>2, SetDraws
  <1>6. WriteOne(Msg(cmd, at, {}))
    BY <1>2 DEF mext_led_set
  <1>. QED  BY <1>4, <1>5, <1>6, WriteOneDraws DEF Promise!SetTo

(* So does mext_led_level_set().                                            *)
LEMMA LevelSetKeeps ==
    ASSUME TypeOK, NEW p \in Logical, NEW level \in Level, mext_led_level_set(p[1], p[2], level)
    PROVE  Promise!SetTo(p, level) /\ TypeOK'
  <1>1. rotation \in 0..3
    BY DEF TypeOK, Rotations
  <1>2. PICK at : at = ROTATE_COORDS(p[1], p[2])
    OBVIOUS
  <1>3. p[1] \in Int /\ p[2] \in Int
    BY <1>1, Sizes
  <1>4. at \in (0..255) \X (0..255) /\ Follows("LED_LEVEL_SET", level)
    BY <1>1, <1>2, <1>3, CoordinatesInBytes DEF Follows
  <1>5. Draws(Msg("LED_LEVEL_SET", at, level), [q \in {p} |-> level])
    <2>1. PICK m : m = Msg("LED_LEVEL_SET", at, level)
      OBVIOUS
    <2>2. m.at = ROTATE_COORDS(p[1], p[2]) /\ m.cmd = "LED_LEVEL_SET" /\ m.data = level
      BY <1>2, <2>1 DEF Msg
    <2>. QED  BY <1>1, <2>1, <2>2, SetDraws
  <1>6. WriteOne(Msg("LED_LEVEL_SET", at, level))
    BY <1>2 DEF mext_led_level_set
  <1>. QED  BY <1>4, <1>5, <1>6, WriteOneDraws DEF Promise!SetTo

(* So do the functions for the whole grid.                                  *)
LEMMA AllKeeps ==
    ASSUME TypeOK
    PROVE  /\ \A on \in BOOLEAN :
                mext_led_all(on) => Promise!AllTo(OnOff(on)) /\ TypeOK'
           /\ \A level \in Level :
                mext_led_level_all(level) => Promise!AllTo(level) /\ TypeOK'
  <1>. DEFINE f(level) == [q \in Promise!Places(rotation) |-> level]
  <1>1. rotation \in 0..3
    BY DEF TypeOK, Rotations
  <1>2. <<0, 0>> \in (0..255) \X (0..255)
    OBVIOUS
  <1>3. ASSUME NEW level, Promise!Draw(<<f(level)>>)
        PROVE  Promise!AllTo(level)
    BY <1>3, NotRowWise, Zenon DEF Promise!AllTo
  <1>. HIDE DEF f
  <1>4. ASSUME NEW on \in BOOLEAN, mext_led_all(on)
        PROVE  Promise!AllTo(OnOff(on)) /\ TypeOK'
    <2>1. PICK cmd : cmd = IF on THEN "LED_ALL_ON" ELSE "LED_ALL_OFF"
      OBVIOUS
    <2>2. Follows(cmd, {}) /\ cmd # "LED_INTENSITY"
      BY <2>1 DEF Follows
    <2>3. Draws(Msg(cmd, <<0, 0>>, {}), f(OnOff(on)))
      <3>1. PICK m : m = Msg(cmd, <<0, 0>>, {})
        OBVIOUS
      <3>2. \/ m.cmd = "LED_ALL_ON" /\ OnOff(on) = MaxLevel
            \/ m.cmd = "LED_ALL_OFF" /\ OnOff(on) = 0
        BY <2>1, <3>1 DEF Msg, OnOff
      <3>. QED  BY <1>1, <3>1, <3>2, AllDraws DEF f
    <2>4. WriteOne(Msg(cmd, <<0, 0>>, {}))
      BY <1>4, <2>1 DEF mext_led_all, Plain
    <2>. QED  BY <1>2, <1>3, <2>2, <2>3, <2>4, WriteOneDraws
  <1>5. ASSUME NEW level \in Level, mext_led_level_all(level)
        PROVE  Promise!AllTo(level) /\ TypeOK'
    <2>2. Follows("LED_LEVEL_ALL", level)
      BY DEF Follows
    <2>3. Draws(Msg("LED_LEVEL_ALL", <<0, 0>>, level), f(level))
      <3>1. PICK m : m = Msg("LED_LEVEL_ALL", <<0, 0>>, level)
        OBVIOUS
      <3>2. m.cmd = "LED_LEVEL_ALL" /\ level = m.data
        BY <3>1 DEF Msg
      <3>. QED  BY <1>1, <3>1, <3>2, AllDraws DEF f
    <2>4. WriteOne(Msg("LED_LEVEL_ALL", <<0, 0>>, level))
      BY <1>5 DEF mext_led_level_all, Plain
    <2>. QED  BY <1>2, <1>3, <2>2, <2>3, <2>4, WriteOneDraws
  <1>. QED  BY <1>4, <1>5

(* Applications give corners of sections.                                   *)
LEMMA OffsetsAreCorners ==
    ASSUME NEW x \in Offsets
    PROVE  x \in Corners /\ x \in Int
  <1>1. x \in 0 .. 256 - Section /\ x % Section = 0
    BY CallsAssumption
  <1>2. x \in Int
    BY <1>1, Constants
  <1>. QED  BY <1>1, <1>2 DEF Corners

(* The functions for maps draw what GridFrame promises.                     *)
LEMMA MapKeeps ==
    ASSUME TypeOK, NEW x \in Offsets, NEW y \in Offsets
    PROVE  /\ \A bits \in Bitmaps : mext_led_map(x, y, bits) =>
                Promise!DrawMap(x, y, Promise!OfBits(bits)) /\ TypeOK'
           /\ \A levels \in LevelMaps : mext_led_level_map(x, y, levels) =>
                Promise!DrawMap(x, y, levels) /\ TypeOK'
  <1>1. rotation \in 0..3
    BY DEF TypeOK, Rotations
  <1>2. x \in Corners /\ y \in Corners /\ x \in Int /\ y \in Int
    BY OffsetsAreCorners
  <1>3. PICK at : at = ROTATE_COORDS(x, y)
    OBVIOUS
  <1>4. at \in (0..255) \X (0..255)
    BY <1>1, <1>2, <1>3, CoordinatesInBytes
  <1>5. ASSUME NEW levels, Promise!Draw(<<MapPicture(x, y, levels)>>)
        PROVE  Promise!DrawMap(x, y, levels)
    BY <1>5, NotRowWise, Zenon DEF Promise!DrawMap, MapPicture
  <1>6. ASSUME NEW bits \in Bitmaps, mext_led_map(x, y, bits)
        PROVE  Promise!DrawMap(x, y, Promise!OfBits(bits)) /\ TypeOK'
    <2>1. bits \in SUBSET Points
      BY CallsAssumption DEF Points
    <2>2. PICK data : data = map_cb(bits)
      OBVIOUS
    <2>3. Follows("LED_MAP", data)
      <3>1. data \in SUBSET Points
        BY <1>1, <2>1, <2>2, PointsTurned DEF map_cb
      <3>. QED  BY <3>1 DEF Follows
    <2>4. Draws(Msg("LED_MAP", at, data), MapPicture(x, y, Promise!OfBits(bits)))
      BY <1>1, <1>2, <1>3, <2>1, <2>2, LedMapDraws
    <2>5. WriteOne(Msg("LED_MAP", at, data))
      BY <1>3, <1>6, <2>2 DEF mext_led_map
    <2>. QED  BY <1>4, <1>5, <2>3, <2>4, <2>5, WriteOneDraws
  <1>7. ASSUME NEW levels \in LevelMaps, mext_led_level_map(x, y, levels)
        PROVE  Promise!DrawMap(x, y, levels) /\ TypeOK'
    <2>1. levels \in [Points -> Level]
      BY CallsAssumption DEF Points, Level
    <2>2. PICK data : data = pack_nybbles(level_map_cb(levels))
      OBVIOUS
    <2>3. Follows("LED_LEVEL_MAP", data)
      <3>1. level_map_cb(levels) \in [Points -> Level]
        BY <1>1, <2>1, PointsTurned DEF level_map_cb
      <3>2. \A l \in Level : l % LevelRange \in Level
        BY LevelFits
      <3>3. data \in [Points -> Level]
        BY <2>2, <3>1, <3>2 DEF pack_nybbles
      <3>. QED  BY <3>3 DEF Follows
    <2>4. Draws(Msg("LED_LEVEL_MAP", at, data), MapPicture(x, y, levels))
      BY <1>1, <1>2, <1>3, <2>1, <2>2, LevelMapDraws
    <2>5. WriteOne(Msg("LED_LEVEL_MAP", at, data))
      BY <1>3, <1>7, <2>2 DEF mext_led_level_map
    <2>. QED  BY <1>4, <1>5, <2>3, <2>4, <2>5, WriteOneDraws
  <1>. QED  BY <1>6, <1>7

-----------------------------------------------------------------------------
(* A call of several messages. *)
(* If each message draws its section, the call draws them all.              *)
LEMMA WriteEachDraws ==
    ASSUME TypeOK, NEW n \in Nat, NEW msgs, msgs = [s \in 1..n |-> msgs[s]],
           NEW pics, DOMAIN pics = 1..n, Disjoint(pics, n),
           \A s \in 1..n : \E cmd, at, data :
              /\ msgs[s] = Msg(cmd, at, data) /\ cmd # "LED_INTENSITY"
              /\ at \in (0..255) \X (0..255) /\ Follows(cmd, data)
              /\ Draws(msgs[s], pics[s]),
           WriteEach(msgs)
    PROVE  Promise!Draw(pics) /\ TypeOK'
  <1>1. rotation \in 0..3 /\ wire \in Seq(Messages)
    BY DEF TypeOK, Rotations
  <1>2. ASSUME NEW s \in 1..n
        PROVE  /\ msgs[s] \in Messages
               /\ Draws(msgs[s], pics[s]) /\ msgs[s].cmd # "LED_INTENSITY"
    <2>1. PICK cmd, at, data :
              /\ msgs[s] = Msg(cmd, at, data) /\ cmd # "LED_INTENSITY"
              /\ at \in (0..255) \X (0..255) /\ Follows(cmd, data)
              /\ Draws(msgs[s], pics[s])
      OBVIOUS
    <2>2. msgs[s] \in Messages
      BY <2>1, MessagesAre
    <2>3. msgs[s].cmd = cmd
      BY <2>1 DEF Msg
    <2>. QED  BY <2>1, <2>2, <2>3
  <1>3. msgs \in Seq(Messages) /\ Len(msgs) = n
    <2>1. msgs \in [1..n -> Messages]
      BY <1>2
    <2>. QED  BY <2>1, SeqDef, LenProperties
  <1>4. Write(msgs, FALSE)
    BY DEF WriteEach
  <1>5. Promise!Draw(pics)
    BY <1>1, <1>2, <1>3, <1>4, WriteDraws
  <1>. QED  BY <1>3, <1>4, <1>5, WriteTypes

(* Sections of a line lie side by side. *)
LEMMA SectionsApart ==
    ASSUME NEW x \in Int, NEW s \in Nat, NEW t \in Nat, NEW k \in Int,
           k \in x + Section * (s - 1) .. x + Section * s - 1,
           k \in x + Section * (t - 1) .. x + Section * t - 1
    PROVE  s = t
  <1>1. CASE Section = 1 BY <1>1
  <1>2. CASE Section = 2 BY <1>2
  <1>3. CASE Section = 4 BY <1>3
  <1>4. CASE Section = 8 BY <1>4
  <1>. QED  BY <1>1, <1>2, <1>3, <1>4, Constants

(* The pictures of a row's sections have no place in common, nor have those *)
(* of a column's.                                                           *)
LEMMA LinesDisjoint ==
    ASSUME NEW n \in Nat, NEW levels, NEW pics, NEW x \in Int, NEW y \in Int,
           \/ \A s \in 1..n : pics[s] = RowPicture(x, y, levels, s)
           \/ \A s \in 1..n : pics[s] = ColPicture(x, y, levels, s)
    PROVE  Disjoint(pics, n)
  <1>1. SUFFICES ASSUME NEW s \in 1..n, NEW t \in 1..n, NEW p,
                        p \in DOMAIN pics[s], p \in DOMAIN pics[t]
                 PROVE  s = t
    BY DEF Disjoint
  <1>2. s \in Nat /\ t \in Nat /\ Section \in Int
    BY Constants
  <1>3. CASE \A r \in 1..n : pics[r] = RowPicture(x, y, levels, r)
    <2>1. /\ p[1] \in x + Section * (s - 1) .. x + Section * s - 1
          /\ p[1] \in x + Section * (t - 1) .. x + Section * t - 1
      <3>1. pics[s] = RowPicture(x, y, levels, s) /\ pics[t] = RowPicture(x, y, levels, t)
        BY <1>3
      <3>2. ASSUME NEW r, p \in DOMAIN RowPicture(x, y, levels, r)
            PROVE  p[1] \in x + Section * (r - 1) .. x + Section * r - 1
        BY <3>2 DEF RowPicture
      <3>. QED  BY <1>1, <3>1, <3>2, Zenon
    <2>2. PICK k : k = p[1]
      OBVIOUS
    <2>3. k \in Int
      BY <1>2, <2>1, <2>2
    <2>. QED  BY <1>2, <2>1, <2>2, <2>3, SectionsApart
  <1>4. CASE \A r \in 1..n : pics[r] = ColPicture(x, y, levels, r)
    <2>1. /\ p[2] \in y + Section * (s - 1) .. y + Section * s - 1
          /\ p[2] \in y + Section * (t - 1) .. y + Section * t - 1
      <3>1. pics[s] = ColPicture(x, y, levels, s) /\ pics[t] = ColPicture(x, y, levels, t)
        BY <1>4
      <3>2. ASSUME NEW r, p \in DOMAIN ColPicture(x, y, levels, r)
            PROVE  p[2] \in y + Section * (r - 1) .. y + Section * r - 1
        BY <3>2 DEF ColPicture
      <3>. QED  BY <1>1, <3>1, <3>2, Zenon
    <2>2. PICK k : k = p[2]
      OBVIOUS
    <2>3. k \in Int
      BY <1>2, <2>1, <2>2
    <2>. QED  BY <1>2, <2>1, <2>2, <2>3, SectionsApart
  <1>. QED  BY <1>3, <1>4

(* Rows of bytes and of levels that applications pass. *)
LEMMA BytesFit ==
    ASSUME NEW off \in Offsets, NEW bytes \in ByteRows
    PROVE  /\ bytes \in Seq(SUBSET (0 .. Section - 1)) /\ Len(bytes) \in Nat
           /\ DOMAIN bytes = 1 .. Len(bytes)
           /\ \A s \in 1 .. Len(bytes) :
                /\ off + Section * s <= 256
                /\ bytes[s] \in SUBSET (0 .. Section - 1)
                /\ REVERSE_BYTE(bytes[s]) \in SUBSET (0 .. Section - 1)
           /\ Len(Promise!OfBytes(bytes)) \div Section = Len(bytes)
  <1>1. bytes \in Seq(SUBSET (0 .. Section - 1)) /\ off + Section * Len(bytes) <= 256
    BY CallsAssumption
  <1>2. PICK n \in Nat : n = Len(bytes) /\ DOMAIN bytes = 1..n
    BY <1>1, LenProperties
  <1>3. off \in Int
    BY OffsetsAreCorners
  <1>4. ASSUME NEW s \in 1..n
        PROVE  off + Section * s <= 256
    <2>1. off + Section * n <= 256
      BY <1>1, <1>2
    <2>2. CASE Section = 1 BY <1>3, <2>1, <2>2
    <2>3. CASE Section = 2 BY <1>3, <2>1, <2>3
    <2>4. CASE Section = 4 BY <1>3, <2>1, <2>4
    <2>5. CASE Section = 8 BY <1>3, <2>1, <2>5
    <2>. QED  BY <2>2, <2>3, <2>4, <2>5, Constants
  <1>5. ASSUME NEW s \in 1..n
        PROVE  /\ bytes[s] \in SUBSET (0 .. Section - 1)
               /\ REVERSE_BYTE(bytes[s]) \in SUBSET (0 .. Section - 1)
    <2>1. bytes[s] \in SUBSET (0 .. Section - 1)
      BY <1>1, <1>2, ElementOfSeq
    <2>2. \A i \in 0 .. Section - 1 : Section - 1 - i \in 0 .. Section - 1
      BY Constants
    <2>. QED  BY <2>1, <2>2 DEF REVERSE_BYTE
  <1>6. Len(Promise!OfBytes(bytes)) = Section * n
    <2>1. PICK k \in Nat : k = Section * n
      BY WholeSections
    <2>2. Promise!OfBytes(bytes) = [i \in 1 .. k |->
             Promise!OnOff((i - 1) % Section \in bytes[(i - 1) \div Section + 1])]
      BY <1>2, <2>1, Zenon DEF Promise!OfBytes
    <2>. QED  BY <2>1, <2>2
  <1>7. (Section * n) \div Section = n
    BY WholeSections
  <1>. QED  BY <1>1, <1>2, <1>4, <1>5, <1>6, <1>7

(* The same of levels.                                                      *)
LEMMA LevelsFit ==
    ASSUME NEW off \in Offsets, NEW levels \in LevelRows
    PROVE  /\ levels \in Seq(Level) /\ Len(levels) \div Section \in Nat
           /\ \A s \in 1 .. Len(levels) \div Section : off + Section * s <= 256
  <1>1. levels \in Seq(Level) /\ off + Len(levels) <= 256
    BY CallsAssumption DEF Level
  <1>2. PICK n \in Nat : n = Len(levels)
    BY <1>1, LenProperties
  <1>3. off \in Int /\ Section \in Int
    BY OffsetsAreCorners, Constants
  <1>4. n \div Section \in Nat /\ \A s \in 1 .. n \div Section : Section * s <= n
    BY WholeSections
  <1>5. ASSUME NEW s \in 1 .. n \div Section
        PROVE  off + Section * s <= 256
    <2>1. Section * s <= n /\ s \in Int /\ Section * s \in Int
      BY <1>3, <1>4
    <2>. QED  BY <1>1, <1>2, <1>3, <2>1
  <1>. QED  BY <1>1, <1>2, <1>4, <1>5

(* Where a section of a line is sent to. *)
LEMMA StartInBytes ==
    ASSUME rotation \in 0..3, NEW off \in Offsets, NEW s \in Nat, NEW k, k \in Int
    PROVE  /\ ROTATE_COORDS(Start(off, s), k) \in (0..255) \X (0..255)
           /\ ROTATE_COORDS(k, Start(off, s)) \in (0..255) \X (0..255)
  <1>1. off \in Int /\ Section \in Int
    BY OffsetsAreCorners, Constants
  <1>2. PICK c \in Int : c = Start(off, s)
    <2>1. Start(off, s) \in Int
      BY <1>1 DEF Start
    <2>. QED  BY <2>1
  <1>. QED  BY <1>2, CoordinatesInBytes

(* From which end a line is sent depends on the rotation. *)
LEMMA EitherEnd ==
    ASSUME NEW m, NEW levels, NEW s, NEW set,
           rotation \in set => Shows(m, TRUE, levels, s),
           rotation \notin set => Shows(m, FALSE, levels, s)
    PROVE  Shows(m, rotation \in set, levels, s)
  <1>1. CASE rotation \in set
    BY <1>1 DEF Shows, Counted
  <1>2. CASE rotation \notin set
    BY <1>2 DEF Shows, Counted
  <1>. QED  BY <1>1, <1>2

-----------------------------------------------------------------------------
(* mext_led_row() draws what GridFrame promises.                            *)
LEMMA RowOfBytesKeeps ==
    ASSUME TypeOK, NEW x \in Offsets, NEW y, y \in 0 .. height - 1, NEW bytes \in ByteRows,
           mext_led_row(x, y, bytes)
    PROVE  Promise!DrawRow(x, y, Promise!OfBytes(bytes)) /\ TypeOK'
  <1>. DEFINE Data(s) == IF rotation \in ROW_REVBITS THEN REVERSE_BYTE(bytes[s]) ELSE bytes[s]
              levels == Promise!OfBytes(bytes)
  <1>1. rotation \in 0..3 /\ x \in Corners /\ x \in Int
    BY OffsetsAreCorners DEF TypeOK, Rotations
  <1>2. y \in Int
    BY <1>1, Sizes
  <1>3. PICK n \in Nat :
           /\ n = Len(bytes) /\ DOMAIN bytes = 1..n /\ Len(levels) \div Section = n
           /\ bytes \in Seq(SUBSET (0 .. Section - 1))
           /\ \A s \in 1..n : /\ x + Section * s <= 256
                              /\ bytes[s] \in SUBSET (0 .. Section - 1)
                              /\ REVERSE_BYTE(bytes[s]) \in SUBSET (0 .. Section - 1)
    BY BytesFit
  <1>. HIDE DEF levels
  <1>4. PICK msgs : msgs = [s \in 1..n |-> mext_led_row_col("LED_ROW", Start(x, s), y, Data(s))]
    OBVIOUS
  <1>5. PICK pics : pics = [s \in 1..n |-> RowPicture(x, y, levels, s)]
    OBVIOUS
  <1>6. WriteEach(msgs)
    BY <1>3, <1>4, Zenon DEF mext_led_row, Start
  <1>7. ASSUME NEW s \in 1..n
        PROVE  \E cmd, at, data :
                 /\ msgs[s] = Msg(cmd, at, data) /\ cmd # "LED_INTENSITY"
                 /\ at \in (0..255) \X (0..255) /\ Follows(cmd, data)
                 /\ Draws(msgs[s], pics[s])
    <2>1. PICK data : data = Data(s)
      OBVIOUS
    <2>2. PICK at : at = ROTATE_COORDS(Start(x, s), y)
      OBVIOUS
    <2>3. PICK m : m = Msg(Crossed("LED_ROW"), at, data)
      OBVIOUS
    <2>4. msgs[s] = m /\ m = mext_led_row_col("LED_ROW", Start(x, s), y, data)
      BY <1>4, <2>1, <2>2, <2>3 DEF mext_led_row_col
    <2>5. at \in (0..255) \X (0..255)
      <3>1. s \in Nat
        OBVIOUS
      <3>. QED  BY <1>1, <1>2, <2>2, <3>1, StartInBytes
    <2>6. Follows(Crossed("LED_ROW"), data) /\ Crossed("LED_ROW") # "LED_INTENSITY"
      <3>1. Follows("LED_ROW", data)
        BY <1>3, <2>1 DEF Follows
      <3>. QED  BY <1>1, <3>1, CrossedFollows
    <2>7. Shows(m, rotation \in ROW_REVBITS, levels, s)
      <3>1. ASSUME rotation \in ROW_REVBITS
            PROVE  Shows(m, TRUE, levels, s)
        <4>1. m = Msg(Crossed("LED_ROW"), at, IF TRUE THEN REVERSE_BYTE(bytes[s]) ELSE bytes[s])
          BY <2>1, <2>3, <3>1
        <4>. QED  BY <1>1, <1>3, <4>1, BytesShow DEF levels
      <3>2. ASSUME rotation \notin ROW_REVBITS
            PROVE  Shows(m, FALSE, levels, s)
        <4>1. m = Msg(Crossed("LED_ROW"), at, IF FALSE THEN REVERSE_BYTE(bytes[s]) ELSE bytes[s])
          BY <2>1, <2>3, <3>2
        <4>. QED  BY <1>1, <1>3, <4>1, BytesShow DEF levels
      <3>. QED  BY <3>1, <3>2, EitherEnd
    <2>8. Draws(m, RowPicture(x, y, levels, s))
      <3>1. s \in Nat \ {0} /\ x + Section * s <= 256
        BY <1>3
      <3>. QED  BY <1>1, <2>4, <2>7, <3>1, RowSectionDraws
    <2>9. pics[s] = RowPicture(x, y, levels, s)
      BY <1>5
    <2>. QED  BY <2>3, <2>4, <2>5, <2>6, <2>8, <2>9, Zenon
  <1>8. Disjoint(pics, n)
    BY <1>1, <1>2, <1>5, LinesDisjoint
  <1>9. Promise!Draw(pics) /\ TypeOK'
    <2>1. DOMAIN pics = 1..n /\ msgs = [s \in 1..n |-> msgs[s]]
      BY <1>4, <1>5
    <2>. QED  BY <1>6, <1>7, <1>8, <2>1, WriteEachDraws
  <1>. QED  BY <1>3, <1>5, <1>9, Zenon DEF Promise!DrawRow, RowPicture, levels

(* So does mext_led_col().                                                  *)
LEMMA ColOfBytesKeeps ==
    ASSUME TypeOK, NEW x, x \in 0 .. width - 1, NEW y \in Offsets, NEW bytes \in ByteRows,
           mext_led_col(x, y, bytes)
    PROVE  Promise!DrawCol(x, y, Promise!OfBytes(bytes)) /\ TypeOK'
  <1>. DEFINE Data(s) == IF rotation \in COL_REVBITS THEN REVERSE_BYTE(bytes[s]) ELSE bytes[s]
              levels == Promise!OfBytes(bytes)
  <1>1. rotation \in 0..3 /\ y \in Corners /\ y \in Int
    BY OffsetsAreCorners DEF TypeOK, Rotations
  <1>2. x \in Int
    BY <1>1, Sizes
  <1>3. PICK n \in Nat :
           /\ n = Len(bytes) /\ DOMAIN bytes = 1..n /\ Len(levels) \div Section = n
           /\ bytes \in Seq(SUBSET (0 .. Section - 1))
           /\ \A s \in 1..n : /\ y + Section * s <= 256
                              /\ bytes[s] \in SUBSET (0 .. Section - 1)
                              /\ REVERSE_BYTE(bytes[s]) \in SUBSET (0 .. Section - 1)
    BY BytesFit
  <1>. HIDE DEF levels
  <1>4. PICK msgs : msgs = [s \in 1..n |-> mext_led_row_col("LED_COLUMN", x, Start(y, s), Data(s))]
    OBVIOUS
  <1>5. PICK pics : pics = [s \in 1..n |-> ColPicture(x, y, levels, s)]
    OBVIOUS
  <1>6. WriteEach(msgs)
    BY <1>3, <1>4, Zenon DEF mext_led_col, Start
  <1>7. ASSUME NEW s \in 1..n
        PROVE  \E cmd, at, data :
                 /\ msgs[s] = Msg(cmd, at, data) /\ cmd # "LED_INTENSITY"
                 /\ at \in (0..255) \X (0..255) /\ Follows(cmd, data)
                 /\ Draws(msgs[s], pics[s])
    <2>1. PICK data : data = Data(s)
      OBVIOUS
    <2>2. PICK at : at = ROTATE_COORDS(x, Start(y, s))
      OBVIOUS
    <2>3. PICK m : m = Msg(Crossed("LED_COLUMN"), at, data)
      OBVIOUS
    <2>4. msgs[s] = m /\ m = mext_led_row_col("LED_COLUMN", x, Start(y, s), data)
      BY <1>4, <2>1, <2>2, <2>3 DEF mext_led_row_col
    <2>5. at \in (0..255) \X (0..255)
      <3>1. s \in Nat
        OBVIOUS
      <3>. QED  BY <1>1, <1>2, <2>2, <3>1, StartInBytes
    <2>6. Follows(Crossed("LED_COLUMN"), data) /\ Crossed("LED_COLUMN") # "LED_INTENSITY"
      <3>1. Follows("LED_COLUMN", data)
        BY <1>3, <2>1 DEF Follows
      <3>. QED  BY <1>1, <3>1, CrossedFollows
    <2>7. Shows(m, rotation \in COL_REVBITS, levels, s)
      <3>1. ASSUME rotation \in COL_REVBITS
            PROVE  Shows(m, TRUE, levels, s)
        <4>1. m = Msg(Crossed("LED_COLUMN"), at, IF TRUE THEN REVERSE_BYTE(bytes[s]) ELSE bytes[s])
          BY <2>1, <2>3, <3>1
        <4>. QED  BY <1>1, <1>3, <4>1, BytesShow DEF levels
      <3>2. ASSUME rotation \notin COL_REVBITS
            PROVE  Shows(m, FALSE, levels, s)
        <4>1. m = Msg(Crossed("LED_COLUMN"), at, IF FALSE THEN REVERSE_BYTE(bytes[s]) ELSE bytes[s])
          BY <2>1, <2>3, <3>2
        <4>. QED  BY <1>1, <1>3, <4>1, BytesShow DEF levels
      <3>. QED  BY <3>1, <3>2, EitherEnd
    <2>8. Draws(m, ColPicture(x, y, levels, s))
      <3>1. s \in Nat \ {0} /\ y + Section * s <= 256
        BY <1>3
      <3>. QED  BY <1>1, <2>4, <2>7, <3>1, ColSectionDraws
    <2>9. pics[s] = ColPicture(x, y, levels, s)
      BY <1>5
    <2>. QED  BY <2>3, <2>4, <2>5, <2>6, <2>8, <2>9, Zenon
  <1>8. Disjoint(pics, n)
    BY <1>1, <1>2, <1>5, LinesDisjoint
  <1>9. Promise!Draw(pics) /\ TypeOK'
    <2>1. DOMAIN pics = 1..n /\ msgs = [s \in 1..n |-> msgs[s]]
      BY <1>4, <1>5
    <2>. QED  BY <1>6, <1>7, <1>8, <2>1, WriteEachDraws
  <1>. QED  BY <1>3, <1>5, <1>9, Zenon DEF Promise!DrawCol, ColPicture, levels

(* So does mext_led_level_row().                                            *)
LEMMA RowOfLevelsKeeps ==
    ASSUME TypeOK, NEW x \in Offsets, NEW y, y \in 0 .. height - 1, NEW levels \in LevelRows,
           mext_led_level_row(x, y, levels)
    PROVE  Promise!DrawRow(x, y, levels) /\ TypeOK'
  <1>. DEFINE Data(s) == pack_nybbles(IF rotation \in ROW_REVBITS THEN revcopy(Group(levels, s))
                                                              ELSE Group(levels, s))
  <1>1. rotation \in 0..3 /\ x \in Corners /\ x \in Int
    BY OffsetsAreCorners DEF TypeOK, Rotations
  <1>2. y \in Int
    BY <1>1, Sizes
  <1>3. PICK n \in Nat :
           /\ n = Len(levels) \div Section /\ levels \in Seq(Level)
           /\ \A s \in 1..n : x + Section * s <= 256
    BY LevelsFit
  <1>4. PICK msgs : msgs = [s \in 1..n |-> mext_led_row_col("LED_LEVEL_ROW", Start(x, s), y, Data(s))]
    OBVIOUS
  <1>5. PICK pics : pics = [s \in 1..n |-> RowPicture(x, y, levels, s)]
    OBVIOUS
  <1>6. WriteEach(msgs)
    BY <1>3, <1>4, Zenon DEF mext_led_level_row, mext_led_level_row_col, mext_led_row_col, Start
  <1>7. ASSUME NEW s \in 1..n
        PROVE  \E cmd, at, data :
                 /\ msgs[s] = Msg(cmd, at, data) /\ cmd # "LED_INTENSITY"
                 /\ at \in (0..255) \X (0..255) /\ Follows(cmd, data)
                 /\ Draws(msgs[s], pics[s])
    <2>1. PICK data : data = Data(s)
      OBVIOUS
    <2>2. PICK at : at = ROTATE_COORDS(Start(x, s), y)
      OBVIOUS
    <2>3. PICK m : m = Msg(Crossed("LED_LEVEL_ROW"), at, data)
      OBVIOUS
    <2>4. msgs[s] = m /\ m = mext_led_row_col("LED_LEVEL_ROW", Start(x, s), y, data)
      BY <1>4, <2>1, <2>2, <2>3 DEF mext_led_row_col
    <2>5. at \in (0..255) \X (0..255)
      <3>1. s \in Nat
        OBVIOUS
      <3>. QED  BY <1>1, <1>2, <2>2, <3>1, StartInBytes
    <2>6. Follows(Crossed("LED_LEVEL_ROW"), data) /\ Crossed("LED_LEVEL_ROW") # "LED_INTENSITY"
      <3>1. data \in [1..Section -> Level]
        <4>1. m.data = data
          BY <2>3 DEF Msg
        <4>2. s \in 1 .. Len(levels) \div Section
          BY <1>3
        <4>3. CASE rotation \in ROW_REVBITS
          <5>1. m = Msg(Crossed("LED_LEVEL_ROW"), at,
                        pack_nybbles(IF TRUE THEN revcopy(Group(levels, s)) ELSE Group(levels, s)))
            BY <2>1, <2>3, <4>3, Zenon
          <5>. QED  BY <1>1, <1>3, <4>1, <4>2, <5>1, LevelsShow
        <4>4. CASE rotation \notin ROW_REVBITS
          <5>1. m = Msg(Crossed("LED_LEVEL_ROW"), at,
                        pack_nybbles(IF FALSE THEN revcopy(Group(levels, s)) ELSE Group(levels, s)))
            BY <2>1, <2>3, <4>4, Zenon
          <5>. QED  BY <1>1, <1>3, <4>1, <4>2, <5>1, LevelsShow
        <4>. QED  BY <4>3, <4>4
      <3>2. Follows("LED_LEVEL_ROW", data)
        BY <3>1 DEF Follows
      <3>. QED  BY <1>1, <3>2, CrossedFollows
    <2>7. Shows(m, rotation \in ROW_REVBITS, levels, s)
      <3>1. ASSUME rotation \in ROW_REVBITS
            PROVE  Shows(m, TRUE, levels, s)
        <4>1. m = Msg(Crossed("LED_LEVEL_ROW"), at,
                      pack_nybbles(IF TRUE THEN revcopy(Group(levels, s)) ELSE Group(levels, s)))
          BY <2>1, <2>3, <3>1, Zenon
        <4>. QED  BY <1>1, <1>3, <4>1, LevelsShow
      <3>2. ASSUME rotation \notin ROW_REVBITS
            PROVE  Shows(m, FALSE, levels, s)
        <4>1. m = Msg(Crossed("LED_LEVEL_ROW"), at,
                      pack_nybbles(IF FALSE THEN revcopy(Group(levels, s)) ELSE Group(levels, s)))
          BY <2>1, <2>3, <3>2, Zenon
        <4>. QED  BY <1>1, <1>3, <4>1, LevelsShow
      <3>. QED  BY <3>1, <3>2, EitherEnd
    <2>8. Draws(m, RowPicture(x, y, levels, s))
      <3>1. s \in Nat \ {0} /\ x + Section * s <= 256
        BY <1>3
      <3>. QED  BY <1>1, <2>4, <2>7, <3>1, RowSectionDraws
    <2>9. pics[s] = RowPicture(x, y, levels, s)
      BY <1>5
    <2>. QED  BY <2>3, <2>4, <2>5, <2>6, <2>8, <2>9, Zenon
  <1>8. Disjoint(pics, n)
    BY <1>1, <1>2, <1>5, LinesDisjoint
  <1>9. Promise!Draw(pics) /\ TypeOK'
    <2>1. DOMAIN pics = 1..n /\ msgs = [s \in 1..n |-> msgs[s]]
      BY <1>4, <1>5
    <2>. QED  BY <1>6, <1>7, <1>8, <2>1, WriteEachDraws
  <1>. QED  BY <1>3, <1>5, <1>9, Zenon DEF Promise!DrawRow, RowPicture

(* So does mext_led_level_col().                                            *)
LEMMA ColOfLevelsKeeps ==
    ASSUME TypeOK, NEW x, x \in 0 .. width - 1, NEW y \in Offsets, NEW levels \in LevelRows,
           mext_led_level_col(x, y, levels)
    PROVE  Promise!DrawCol(x, y, levels) /\ TypeOK'
  <1>. DEFINE Data(s) == pack_nybbles(IF rotation \in COL_REVBITS THEN revcopy(Group(levels, s))
                                                              ELSE Group(levels, s))
  <1>1. rotation \in 0..3 /\ y \in Corners /\ y \in Int
    BY OffsetsAreCorners DEF TypeOK, Rotations
  <1>2. x \in Int
    BY <1>1, Sizes
  <1>3. PICK n \in Nat :
           /\ n = Len(levels) \div Section /\ levels \in Seq(Level)
           /\ \A s \in 1..n : y + Section * s <= 256
    BY LevelsFit
  <1>4. PICK msgs : msgs = [s \in 1..n |-> mext_led_row_col("LED_LEVEL_COLUMN", x, Start(y, s), Data(s))]
    OBVIOUS
  <1>5. PICK pics : pics = [s \in 1..n |-> ColPicture(x, y, levels, s)]
    OBVIOUS
  <1>6. WriteEach(msgs)
    BY <1>3, <1>4, Zenon DEF mext_led_level_col, mext_led_level_row_col, mext_led_row_col, Start
  <1>7. ASSUME NEW s \in 1..n
        PROVE  \E cmd, at, data :
                 /\ msgs[s] = Msg(cmd, at, data) /\ cmd # "LED_INTENSITY"
                 /\ at \in (0..255) \X (0..255) /\ Follows(cmd, data)
                 /\ Draws(msgs[s], pics[s])
    <2>1. PICK data : data = Data(s)
      OBVIOUS
    <2>2. PICK at : at = ROTATE_COORDS(x, Start(y, s))
      OBVIOUS
    <2>3. PICK m : m = Msg(Crossed("LED_LEVEL_COLUMN"), at, data)
      OBVIOUS
    <2>4. msgs[s] = m /\ m = mext_led_row_col("LED_LEVEL_COLUMN", x, Start(y, s), data)
      BY <1>4, <2>1, <2>2, <2>3 DEF mext_led_row_col
    <2>5. at \in (0..255) \X (0..255)
      <3>1. s \in Nat
        OBVIOUS
      <3>. QED  BY <1>1, <1>2, <2>2, <3>1, StartInBytes
    <2>6. Follows(Crossed("LED_LEVEL_COLUMN"), data) /\ Crossed("LED_LEVEL_COLUMN") # "LED_INTENSITY"
      <3>1. data \in [1..Section -> Level]
        <4>1. m.data = data
          BY <2>3 DEF Msg
        <4>2. s \in 1 .. Len(levels) \div Section
          BY <1>3
        <4>3. CASE rotation \in COL_REVBITS
          <5>1. m = Msg(Crossed("LED_LEVEL_COLUMN"), at,
                        pack_nybbles(IF TRUE THEN revcopy(Group(levels, s)) ELSE Group(levels, s)))
            BY <2>1, <2>3, <4>3, Zenon
          <5>. QED  BY <1>1, <1>3, <4>1, <4>2, <5>1, LevelsShow
        <4>4. CASE rotation \notin COL_REVBITS
          <5>1. m = Msg(Crossed("LED_LEVEL_COLUMN"), at,
                        pack_nybbles(IF FALSE THEN revcopy(Group(levels, s)) ELSE Group(levels, s)))
            BY <2>1, <2>3, <4>4, Zenon
          <5>. QED  BY <1>1, <1>3, <4>1, <4>2, <5>1, LevelsShow
        <4>. QED  BY <4>3, <4>4
      <3>2. Follows("LED_LEVEL_COLUMN", data)
        BY <3>1 DEF Follows
      <3>. QED  BY <1>1, <3>2, CrossedFollows
    <2>7. Shows(m, rotation \in COL_REVBITS, levels, s)
      <3>1. ASSUME rotation \in COL_REVBITS
            PROVE  Shows(m, TRUE, levels, s)
        <4>1. m = Msg(Crossed("LED_LEVEL_COLUMN"), at,
                      pack_nybbles(IF TRUE THEN revcopy(Group(levels, s)) ELSE Group(levels, s)))
          BY <2>1, <2>3, <3>1, Zenon
        <4>. QED  BY <1>1, <1>3, <4>1, LevelsShow
      <3>2. ASSUME rotation \notin COL_REVBITS
            PROVE  Shows(m, FALSE, levels, s)
        <4>1. m = Msg(Crossed("LED_LEVEL_COLUMN"), at,
                      pack_nybbles(IF FALSE THEN revcopy(Group(levels, s)) ELSE Group(levels, s)))
          BY <2>1, <2>3, <3>2, Zenon
        <4>. QED  BY <1>1, <1>3, <4>1, LevelsShow
      <3>. QED  BY <3>1, <3>2, EitherEnd
    <2>8. Draws(m, ColPicture(x, y, levels, s))
      <3>1. s \in Nat \ {0} /\ y + Section * s <= 256
        BY <1>3
      <3>. QED  BY <1>1, <2>4, <2>7, <3>1, ColSectionDraws
    <2>9. pics[s] = ColPicture(x, y, levels, s)
      BY <1>5
    <2>. QED  BY <2>3, <2>4, <2>5, <2>6, <2>8, <2>9, Zenon
  <1>8. Disjoint(pics, n)
    BY <1>1, <1>2, <1>5, LinesDisjoint
  <1>9. Promise!Draw(pics) /\ TypeOK'
    <2>1. DOMAIN pics = 1..n /\ msgs = [s \in 1..n |-> msgs[s]]
      BY <1>4, <1>5
    <2>. QED  BY <1>6, <1>7, <1>8, <2>1, WriteEachDraws
  <1>. QED  BY <1>3, <1>5, <1>9, Zenon DEF Promise!DrawCol, ColPicture

-----------------------------------------------------------------------------
(* Brightness                                                               *)

(* The brightness is what a message about it says, if it is written; the    *)
(* picture stays.                                                           *)
LEMMA DimKeeps ==
    ASSUME TypeOK, NEW i \in Intensities, mext_led_intensity(i)
    PROVE  Promise!DimTo(i) /\ TypeOK'
  <1>1. PICK level \in Level : level = i % (MaxLevel + 1)
    <2>1. i \in Int /\ MaxLevel + 1 \in Nat \ {0}
      BY CallsAssumption, Constants
    <2>2. PICK k \in Nat \ {0} : k = MaxLevel + 1
      BY <2>1
    <2>3. i % k \in 0 .. k - 1
      BY <2>1
    <2>4. i % (MaxLevel + 1) \in Level
      BY <2>2, <2>3, Constants DEF Level
    <2>. QED  BY <2>4
  <1>2. PICK m : m = Msg("LED_INTENSITY", <<0, 0>>, level)
    OBVIOUS
  <1>3. m \in Messages
    <2>1. <<0, 0>> \in (0..255) \X (0..255) /\ Follows("LED_INTENSITY", level)
      BY DEF Follows
    <2>. QED  BY <1>2, <2>1, MessagesAre
  <1>4. PICK msgs : msgs = <<m>>
    OBVIOUS
  <1>5. msgs \in Seq(Messages) /\ Len(msgs) = 1 /\ DOMAIN msgs = 1..1 /\ msgs[1] = m
    BY <1>3, <1>4
  <1>6. Write(msgs, TRUE)
    BY <1>1, <1>2, <1>4 DEF mext_led_intensity, WriteOne, Plain, LevelRange
  <1>7. PICK kept \in SUBSET (1..1) :
           unsent' = 1 - Cardinality(kept) /\ wire' = wire \o Those(kept, msgs)
    BY <1>5, <1>6 DEF Write
  <1>8. rotation' = rotation /\ lit' = lit /\ brightness' = brightness
    BY <1>6 DEF Write, deviceVars
  <1>9. ASSUME NEW part \in Parts, NEW b, NEW q \in Hardware
        PROVE  Effect(part, msgs, kept, Fold(part, b, wire), Fold(part, b, wire'), q)
    <2>1. wire \in Seq(Messages) /\ kept \in SUBSET (1 .. Len(msgs))
      BY <1>5 DEF TypeOK
    <2>. QED  BY <1>5, <1>7, <2>1, WrittenLater, Zenon
  <1>10. Frame' = Frame
    <2>. DEFINE old == Fold("lit", lit, wire)  new == Fold("lit", lit, wire')
    <2>1. \A s \in kept, q \in Hardware : ~Touches("lit", msgs[s], q)
      <3>1. Painted(m) = <<>>
        BY <1>2 DEF Painted, Msg
      <3>2. \A s \in kept : msgs[s] = m
        BY <1>5
      <3>. QED  BY <3>1, <3>2 DEF Touches
    <2>2. \A q \in Hardware : new[q] = old[q]
      <3>1. ASSUME NEW q \in Hardware PROVE new[q] = old[q]
        <4>1. Effect("lit", msgs, kept, old, new, q)
          BY <1>9, Zenon DEF Parts
        <4>. HIDE DEF old, new
        <4>2. See("lit", new, q) = See("lit", old, q)
          BY <2>1, <4>1, Zenon DEF Effect
        <4>. QED  BY <4>2 DEF See
      <3>. QED  BY <3>1
    <2>3. /\ Frame = [p \in Logical |-> old[Place(p)]]
          /\ Frame' = [p \in Logical |-> new[Place(p)]]
      BY <1>8, FrameIs
    <2>4. rotation \in 0..3
      BY DEF TypeOK, Rotations
    <2>. HIDE DEF old, new
    <2>5. \A p \in Logical : new[Place(p)] = old[Place(p)]
      BY <2>2, <2>4, PlaceOnHardware
    <2>. QED  BY <2>3, <2>5
  <1>11. \/ /\ FoldLeft(Dimmed, brightness', wire') = i % (MaxLevel + 1)
            /\ unsent' = 0
         \/ /\ FoldLeft(Dimmed, brightness', wire') = FoldLeft(Dimmed, brightness, wire)
            /\ unsent' = 1
    <2>. DEFINE old == Fold("brightness", brightness, wire)
                new == Fold("brightness", brightness, wire')
    <2>1. PICK q : q \in Hardware
      BY SomePlace
    <2>2. Effect("brightness", msgs, kept, old, new, q)
      BY <1>9, <2>1, Zenon DEF Parts
    <2>3. /\ FoldLeft(Dimmed, brightness', wire') = new
          /\ FoldLeft(Dimmed, brightness, wire) = old
      BY <1>8, Zenon DEF Fold
    <2>. HIDE DEF old, new
    <2>4. /\ (\A s \in kept : msgs[s].cmd # "LED_INTENSITY") => new = old
          /\ \A v : /\ \E s \in kept : msgs[s].cmd = "LED_INTENSITY"
                    /\ \A s \in kept : msgs[s].cmd = "LED_INTENSITY" => msgs[s].data = v
                    => new = v
      BY <2>2 DEF Effect, See, Touches, Gives
    <2>5. m.cmd = "LED_INTENSITY" /\ m.data = level
      BY <1>2 DEF Msg
    <2>6. CASE kept = {}
      <3>1. new = old /\ Cardinality(kept) = 0
        BY <2>4, <2>6, FS_EmptySet
      <3>2. unsent' = 1
        BY <1>7, <3>1
      <3>. QED  BY <2>3, <3>1, <3>2
    <2>7. CASE kept = {1}
      <3>1. new = level
        BY <1>5, <2>4, <2>5, <2>7
      <3>2. Cardinality(kept) = 1
        BY <2>7, FS_Singleton
      <3>3. unsent' = 0
        BY <1>7, <3>2
      <3>. QED  BY <1>1, <2>3, <3>1, <3>3
    <2>8. kept = {} \/ kept = {1}
      <3>1. \A s \in kept : s = 1
        OBVIOUS
      <3>. QED  BY <3>1
    <2>. QED  BY <2>6, <2>7, <2>8
  <1>12. Promise!DimTo(i)
    BY <1>8, <1>10, <1>11, Zenon DEF Promise!DimTo
  <1>. QED  BY <1>5, <1>6, <1>12, WriteTypes

-----------------------------------------------------------------------------
(* The LEDs seen from rotation r. *)
PictureAt(r) ==
    [p \in LogicalGrid(r, Cols, Rows) |->
        FoldLeft(Shown, lit, wire)[output_cb(r, Cols, Rows, p)]]

(* A place keeps its LED when the grid is turned by a quarter. *)
LEMMA PlaceTurned ==
    ASSUME NEW r \in 0..3, NEW s \in 0..3, s = (r + 1) % 4,
           NEW p \in LogicalGrid(s, Cols, Rows)
    PROVE  LET q == <<p[2], monome_get_cols(s, Cols, Rows) - 1 - p[1]>>
           IN  /\ q \in LogicalGrid(r, Cols, Rows)
               /\ output_cb(r, Cols, Rows, q)
                    = output_cb(s, Cols, Rows, p)
  <1>. DEFINE C == Cols
              R == Rows
              W == monome_get_cols(s, C, R)
              H == monome_get_rows(s, C, R)
              q == <<p[2], W - 1 - p[1]>>
  <1>1. C \in 1..UintRange /\ R \in 1..UintRange
    BY Constants
  <1>2. W \in 1..UintRange /\ H \in 1..UintRange /\ W \in Int /\ H \in Int
    BY <1>1, UintAssumption DEF monome_get_cols, monome_get_rows
  <1>3. p = <<p[1], p[2]>> /\ p[1] \in 0 .. W - 1 /\ p[2] \in 0 .. H - 1
    BY DEF LogicalGrid
  <1>4. /\ Sub(W - 1, p[1]) = W - 1 - p[1] /\ W - 1 - p[1] \in 0 .. W - 1
        /\ Sub(H - 1, p[2]) = H - 1 - p[2] /\ H - 1 - p[2] \in 0 .. H - 1
    BY <1>2, <1>3, Mirror
  <1>5. /\ Sub(W - 1, q[2]) = p[1]
    <2>1. Sub(W - 1, W - 1 - p[1]) = W - 1 - (W - 1 - p[1])
      BY <1>2, <1>4, Mirror
    <2>2. W - 1 - (W - 1 - p[1]) = p[1]
      BY <1>2, <1>3
    <2>. QED  BY <2>1, <2>2
  <1>6. /\ monome_get_cols(r, C, R) = H /\ monome_get_rows(r, C, R) = W
    <2>1. (r = 0 /\ s = 1) \/ (r = 1 /\ s = 2) \/ (r = 2 /\ s = 3) \/ (r = 3 /\ s = 0)
      OBVIOUS
    <2>. QED  BY <2>1 DEF monome_get_cols, monome_get_rows, ROW_COL_SWAP
  <1>7. q \in LogicalGrid(r, C, R)
    BY <1>3, <1>4, <1>6 DEF LogicalGrid
  <1>8. output_cb(s, C, R, p) =
           CASE s = 0 -> p
             [] s = 1 -> <<p[2], Sub(W - 1, p[1])>>
             [] s = 2 -> <<Sub(W - 1, p[1]), Sub(H - 1, p[2])>>
             [] s = 3 -> <<Sub(H - 1, p[2]), p[1]>>
    BY Zenon DEF output_cb, r90_output_cb, r180_output_cb, r270_output_cb
  <1>9. output_cb(r, C, R, q) =
           CASE r = 0 -> q
             [] r = 1 -> <<q[2], Sub(H - 1, q[1])>>
             [] r = 2 -> <<Sub(H - 1, q[1]), Sub(W - 1, q[2])>>
             [] r = 3 -> <<Sub(W - 1, q[2]), q[1]>>
    BY <1>6, Zenon DEF output_cb, r90_output_cb, r180_output_cb, r270_output_cb
  <1>10. q[1] = p[2] /\ q[2] = W - 1 - p[1]
    OBVIOUS
  <1>11. output_cb(r, C, R, q) = output_cb(s, C, R, p)
    <2>. HIDE DEF q, W, H, C, R
    <2>1. CASE r = 0
      <3>1. s = 1
        BY <2>1
      <3>2. output_cb(s, C, R, p) = <<p[2], Sub(W - 1, p[1])>>
        BY <1>8, <3>1
      <3>3. output_cb(r, C, R, q) = q
        BY <1>9, <2>1
      <3>. QED  BY <1>4, <3>2, <3>3 DEF q
    <2>2. CASE r = 1
      <3>1. s = 2
        BY <2>2
      <3>2. output_cb(s, C, R, p) = <<Sub(W - 1, p[1]), Sub(H - 1, p[2])>>
        BY <1>8, <3>1
      <3>3. output_cb(r, C, R, q) = <<q[2], Sub(H - 1, q[1])>>
        BY <1>9, <2>2
      <3>. QED  BY <1>4, <1>10, <3>2, <3>3
    <2>3. CASE r = 2
      <3>1. s = 3
        BY <2>3
      <3>2. output_cb(s, C, R, p) = <<Sub(H - 1, p[2]), p[1]>>
        BY <1>8, <3>1
      <3>3. output_cb(r, C, R, q) = <<Sub(H - 1, q[1]), Sub(W - 1, q[2])>>
        BY <1>9, <2>3
      <3>. QED  BY <1>5, <1>10, <3>2, <3>3
    <2>4. CASE r = 3
      <3>1. s = 0
        BY <2>4
      <3>2. output_cb(s, C, R, p) = p
        BY <1>8, <3>1
      <3>3. output_cb(r, C, R, q) = <<Sub(W - 1, q[2]), q[1]>>
        BY <1>9, <2>4
      <3>. QED  BY <1>3, <1>5, <1>10, <3>2, <3>3
    <2>. QED  BY <2>1, <2>2, <2>3, <2>4
  <1>. QED  BY <1>7, <1>11

(* The same picture from the next side. *)
LEMMA QuarterTurned ==
    ASSUME NEW t \in 0..5, NEW r \in 0..3, NEW s \in 0..3,
           r = t % 4, s = (t + 1) % 4
    PROVE  Promise!QuarterTurn(t, PictureAt(r)) = PictureAt(s)
  <1>1. s = (r + 1) % 4 /\ ((t + 1) % 2 = 0 <=> s \notin {1, 3})
    OBVIOUS
  <1>2. /\ Promise!Width(t + 1) = monome_get_cols(s, Cols, Rows)
        /\ Promise!Height(t + 1) = monome_get_rows(s, Cols, Rows)
    BY <1>1 DEF Promise!Width, Promise!Height, monome_get_cols, monome_get_rows, ROW_COL_SWAP
  <1>3. Promise!Places(t + 1) = LogicalGrid(s, Cols, Rows)
    BY <1>2 DEF Promise!Places, LogicalGrid
  <1>4. ASSUME NEW p \in LogicalGrid(s, Cols, Rows)
        PROVE  PictureAt(r)[<<p[2], Promise!Width(t + 1) - 1 - p[1]>>] = PictureAt(s)[p]
    <2>. DEFINE q == <<p[2], monome_get_cols(s, Cols, Rows) - 1 - p[1]>>
    <2>1. /\ q \in LogicalGrid(r, Cols, Rows)
          /\ output_cb(r, Cols, Rows, q) = output_cb(s, Cols, Rows, p)
      BY <1>1, PlaceTurned
    <2>. HIDE DEF q
    <2>2. PictureAt(r)[q] = PictureAt(s)[p]
      BY <2>1, Zenon DEF PictureAt
    <2>. QED  BY <1>2, <2>2, Zenon DEF q
  <1>. QED  BY <1>3, <1>4, Zenon DEF Promise!QuarterTurn, PictureAt

(* Turning the grid changes no LED, and GridFrame's picture turns with it. *)
LEMMA RotationTurns ==
    ASSUME TypeOK,
           UNCHANGED <<wire, deviceVars, result, unsent, calls>>,
           NEW arg \in Rotated, rotation' = RotationOf(arg)
    PROVE  Promise!SetRotation
  <1>1. rotation \in 0..3 /\ arg \in Int /\ rotation' = arg % 4 /\ rotation' \in 0..3
    BY CallsAssumption DEF TypeOK, Rotations, RotationOf
  <1>2. Frame = PictureAt(rotation) /\ Frame' = PictureAt(rotation')
    <2>1. wire' = wire /\ lit' = lit
      BY DEF deviceVars
    <2>. QED  BY <2>1, Zenon DEF Frame, PictureAt
  <1>. DEFINE n == (rotation' - rotation) % 4
              once == Promise!QuarterTurn(rotation, Frame)
              twice == Promise!QuarterTurn(rotation + 1, once)
              thrice == Promise!QuarterTurn(rotation + 2, twice)
              At(k) == PictureAt((rotation + k) % 4)
  <1>3. \A k \in 0..3 : (rotation + k) % 4 \in 0..3
    BY <1>1
  <1>4. Frame = At(0)
    <2>1. (rotation + 0) % 4 = rotation
      BY <1>1
    <2>. QED  BY <1>2, <2>1
  <1>5. once = At(1)
    <2>1. rotation \in 0..5 /\ (rotation + 1) % 4 \in 0..3 /\ rotation = rotation % 4
      BY <1>1
    <2>. QED  BY <1>1, <1>2, <2>1, QuarterTurned
  <1>. HIDE DEF once
  <1>6. twice = At(2)
    <2>1. rotation + 1 \in 0..5 /\ (rotation + 1) % 4 \in 0..3
          /\ (rotation + 1 + 1) % 4 = (rotation + 2) % 4 /\ (rotation + 2) % 4 \in 0..3
      BY <1>1
    <2>2. Promise!QuarterTurn(rotation + 1, PictureAt((rotation + 1) % 4))
            = PictureAt((rotation + 2) % 4)
      BY <2>1, QuarterTurned
    <2>. QED  BY <1>5, <2>2
  <1>. HIDE DEF twice
  <1>7. thrice = At(3)
    <2>1. rotation + 2 \in 0..5 /\ (rotation + 2) % 4 \in 0..3
          /\ (rotation + 2 + 1) % 4 = (rotation + 3) % 4 /\ (rotation + 3) % 4 \in 0..3
      BY <1>1
    <2>2. Promise!QuarterTurn(rotation + 2, PictureAt((rotation + 2) % 4))
            = PictureAt((rotation + 3) % 4)
      BY <2>1, QuarterTurned
    <2>. QED  BY <1>6, <2>2
  <1>. HIDE DEF thrice
  <1>8. n \in 0..3 /\ (rotation + n) % 4 = rotation'
    <2>1. \A a, b \in 0..3 : (b - a) % 4 \in 0..3 /\ (a + ((b - a) % 4)) % 4 = b
      OBVIOUS
    <2>. QED  BY <1>1, <2>1
  <1>9. Promise!Turned(n) = CASE n = 0 -> Frame [] n = 1 -> once
                                 [] n = 2 -> twice [] n = 3 -> thrice
    BY Zenon DEF Promise!Turned, once, twice, thrice
  <1>10. Promise!Turned(n) = At(n)
    <2>. HIDE DEF n, At
    <2>1. CASE n = 0 BY <1>4, <1>9, <2>1
    <2>2. CASE n = 1 BY <1>5, <1>9, <2>2
    <2>3. CASE n = 2 BY <1>6, <1>9, <2>3
    <2>4. CASE n = 3 BY <1>7, <1>9, <2>4
    <2>. QED  BY <1>8, <2>1, <2>2, <2>3, <2>4
  <1>11. Frame' = Promise!Turned(n)
    BY <1>2, <1>8, <1>10
  <1>12. UNCHANGED <<FoldLeft(Dimmed, brightness, wire), unsent>>
    <2>1. wire' = wire /\ brightness' = brightness /\ unsent' = unsent
      BY DEF deviceVars
    <2>. QED  BY <2>1, Zenon
  <1>. QED  BY <1>1, <1>11, <1>12, Zenon DEF Promise!SetRotation

(* Sections of coordinates that fit a byte begin at numbers.                *)
LEMMA FloorInt ==
    ASSUME NEW at \in (0..255) \X (0..255)
    PROVE  Floor(at[1]) \in Int /\ Floor(at[2]) \in Int
  <1>1. ASSUME NEW k \in 0..255 PROVE Floor(k) \in Int
    <2>1. CASE Section = 1 BY <2>1 DEF Floor
    <2>2. CASE Section = 2 BY <2>2 DEF Floor
    <2>3. CASE Section = 4 BY <2>3 DEF Floor
    <2>4. CASE Section = 8 BY <2>4 DEF Floor
    <2>. QED  BY <2>1, <2>2, <2>3, <2>4, Constants
  <1>2. at[1] \in 0..255 /\ at[2] \in 0..255
    OBVIOUS
  <1>. QED  BY <1>1, <1>2

(* What a message shows are levels. *)
LEMMA MessageShown ==
    ASSUME NEW m \in Messages, NEW leds \in [Hardware -> Level], NEW b \in Level
    PROVE  Shown(leds, m) \in [Hardware -> Level] /\ Dimmed(b, m) \in Level
  <1>1. PICK cmd, at, data : /\ m = Msg(cmd, at, data)
                             /\ at \in (0..255) \X (0..255) /\ Follows(cmd, data)
    BY MessagesAre
  <1>2. m.cmd = cmd /\ m.at = at /\ m.data = data
    BY <1>1 DEF Msg
  <1>3. 0 \in Level /\ MaxLevel \in Level /\ \A c : OnOff(c) \in Level
    BY Constants DEF Level, OnOff
  <1>4. ASSUME NEW q \in DOMAIN Painted(m)
        PROVE  Painted(m)[q] \in Level
    <2>1. CASE cmd \in {"LED_ON", "LED_OFF", "LED_ALL_ON", "LED_ALL_OFF",
                       "LED_LEVEL_SET", "LED_LEVEL_ALL"}
      BY <1>1, <1>2, <1>3, <1>4, <2>1 DEF Painted, Follows
    <2>2. CASE cmd \in {"LED_ROW", "LED_COLUMN", "LED_LEVEL_ROW", "LED_LEVEL_COLUMN"}
      <3>1. PICK i \in 0 .. Section - 1 : Painted(m)[q] = LineLevel(m, i)
        <4>1. \A a, k : a \in Int /\ k \in Span(a) => k - a \in 0 .. Section - 1
          BY Constants DEF Span
        <4>2. Floor(at[1]) \in Int /\ Floor(at[2]) \in Int
          BY <1>1, FloorInt
        <4>3. CASE cmd \in {"LED_ROW", "LED_LEVEL_ROW"}
          <5>1. q \in RowPlaces(m) /\ Painted(m)[q] = LineLevel(m, q[1] - Floor(at[1]))
            BY <1>2, <1>4, <4>3, PaintedLine
          <5>2. q[1] \in Span(Floor(at[1]))
            BY <1>2, <5>1 DEF RowPlaces
          <5>. QED  BY <4>1, <4>2, <5>1, <5>2
        <4>4. CASE cmd \in {"LED_COLUMN", "LED_LEVEL_COLUMN"}
          <5>1. q \in ColPlaces(m) /\ Painted(m)[q] = LineLevel(m, q[2] - Floor(at[2]))
            BY <1>2, <1>4, <4>4, PaintedLine
          <5>2. q[2] \in Span(Floor(at[2]))
            BY <1>2, <5>1 DEF ColPlaces
          <5>. QED  BY <4>1, <4>2, <5>1, <5>2
        <4>. QED  BY <2>2, <4>3, <4>4
      <3>2. cmd \in {"LED_LEVEL_ROW", "LED_LEVEL_COLUMN"} => data[i + 1] \in Level
        <4>1. i + 1 \in 1..Section
          BY Constants
        <4>. QED  BY <1>1, <4>1 DEF Follows
      <3>. QED  BY <1>2, <1>3, <2>2, <3>1, <3>2 DEF LineLevel
    <2>3. CASE cmd \in {"LED_MAP", "LED_LEVEL_MAP"}
      <3>1. \A a, k : a \in Int /\ k \in Span(a) => k - a \in 0 .. Section - 1
        BY Constants DEF Span
      <3>2. Floor(at[1]) \in Int /\ Floor(at[2]) \in Int
        BY <1>1, FloorInt
      <3>3. q \in MapOf(at) /\ Painted(m)[q] = MapLevel(m, <<q[1] - Floor(at[1]), q[2] - Floor(at[2])>>)
        BY <1>2, <1>4, <2>3, PaintedMap
      <3>4. PICK d \in Points : d = <<q[1] - Floor(at[1]), q[2] - Floor(at[2])>>
        <4>1. q[1] \in Span(Floor(at[1])) /\ q[2] \in Span(Floor(at[2]))
          BY <3>3 DEF MapOf
        <4>. QED  BY <3>1, <3>2, <4>1 DEF Points
      <3>5. cmd = "LED_LEVEL_MAP" => data[d] \in Level
        BY <1>1 DEF Follows
      <3>. QED  BY <1>2, <1>3, <2>3, <3>3, <3>4, <3>5 DEF MapLevel
    <2>4. CASE cmd = "LED_INTENSITY"
      <3>1. Painted(m) = <<>>
        BY <1>2, <2>4 DEF Painted
      <3>. QED  BY <1>4, <3>1
    <2>. QED  BY <1>1, <2>1, <2>2, <2>3, <2>4 DEF Follows
  <1>5. Shown(leds, m) \in [Hardware -> Level]
    BY <1>4 DEF Shown
  <1>6. Dimmed(b, m) \in Level
    BY <1>1, <1>2 DEF Dimmed, Follows
  <1>. QED  BY <1>5, <1>6

(* The device executes what was sent in that order, which changes nothing   *)
(* of what the application will see.                                        *)
LEMMA DeviceKeeps ==
    ASSUME TypeOK, DeviceExecutes
    PROVE  UNCHANGED Promise!vars /\ TypeOK'
  <1>1. /\ wire \in Seq(Messages) /\ wire # <<>> /\ wire' = Tail(wire)
        /\ lit' = Shown(lit, Head(wire)) /\ brightness' = Dimmed(brightness, Head(wire))
        /\ rotation' = rotation /\ unsent' = unsent /\ result' = result /\ calls' = calls
    BY DEF DeviceExecutes, TypeOK, hostVars
  <1>2. Fold("lit", lit', wire') = Fold("lit", lit, wire)
    <2>1. "lit" \in Parts /\ Step("lit", lit, Head(wire)) = Shown(lit, Head(wire))
      BY DEF Parts, Step
    <2>. QED  BY <1>1, <2>1, FoldHead
  <1>3. Fold("brightness", brightness', wire') = Fold("brightness", brightness, wire)
    <2>1. /\ "brightness" \in Parts
          /\ Step("brightness", brightness, Head(wire)) = Dimmed(brightness, Head(wire))
      BY DEF Parts, Step
    <2>. QED  BY <1>1, <2>1, FoldHead
  <1>4. Frame' = Frame
    BY <1>1, <1>2, FrameIs
  <1>5. FoldLeft(Dimmed, brightness', wire') = FoldLeft(Dimmed, brightness, wire)
    BY <1>3, Zenon DEF Fold
  <1>6. UNCHANGED Promise!vars
    BY <1>1, <1>4, <1>5, Zenon DEF Promise!vars
  <1>7. PICK m \in Messages : m = Head(wire)
    <2>1. Head(wire) \in Messages
      BY <1>1, HeadTailProperties
    <2>. QED  BY <2>1
  <1>8. wire' \in Seq(Messages)
    BY <1>1, HeadTailProperties
  <1>9. lit' \in [Hardware -> Level] /\ brightness' \in Level
    BY <1>1, <1>7, MessageShown DEF TypeOK
  <1>. QED  BY <1>1, <1>6, <1>8, <1>9 DEF TypeOK

(* At first the grid is dark and nothing is under way.                      *)
LEMMA StartsAlike ==
    ASSUME Init
    PROVE  Promise!Init /\ TypeOK
  <1>1. TypeOK
    BY CallsAssumption, Constants, EmptySeq DEF Init, TypeOK, Rotations, Level
  <1>2. rotation = 0 /\ rotation \in 0..3 /\ wire = <<>> /\ unsent = 0
        /\ lit = [p \in Hardware |-> 0] /\ brightness = MaxLevel
    BY DEF Init
  <1>3. Fold("lit", lit, wire) = lit /\ Fold("brightness", brightness, wire) = brightness
    BY <1>2, FoldNothing DEF Parts
  <1>4. Frame = [p \in Promise!Places(0) |-> 0]
    <2>1. Frame = [p \in Logical |-> lit[Place(p)]]
      BY <1>3, FrameIs
    <2>2. \A p \in Logical : lit[Place(p)] = 0
      BY <1>2, PlaceOnHardware
    <2>3. Promise!Places(0) = Logical
      BY <1>2, Sizes
    <2>. QED  BY <2>1, <2>2, <2>3
  <1>5. FoldLeft(Dimmed, brightness, wire) = MaxLevel
    BY <1>2, <1>3, Zenon DEF Fold
  <1>. QED  BY <1>1, <1>2, <1>4, <1>5, Zenon DEF Promise!Init

-----------------------------------------------------------------------------
(* Every call *)

(* Every LED function does what GridFrame promises for its arguments.       *)
LEMMA CallsKeep ==
    ASSUME TypeOK
    PROVE  CallKeepsPromise
  <1>1. rotation \in 0..3
    BY DEF TypeOK, Rotations
  <1>2. ASSUME NEW x \in 0 .. width - 1, NEW y \in 0 .. height - 1
        PROVE  /\ \A on \in BOOLEAN :
                    mext_led_set(x, y, on) => Promise!SetTo(<<x, y>>, OnOff(on))
               /\ \A level \in Level :
                    mext_led_level_set(x, y, level) => Promise!SetTo(<<x, y>>, level)
    <2>1. PICK p \in Logical : p = <<x, y>>
      BY <1>1, Sizes
    <2>2. p[1] = x /\ p[2] = y
      BY <2>1
    <2>3. \A on \in BOOLEAN : mext_led_set(x, y, on) => Promise!SetTo(<<x, y>>, OnOff(on))
      BY <2>1, <2>2, LedSetKeeps, Zenon
    <2>4. \A level \in Level :
             mext_led_level_set(x, y, level) => Promise!SetTo(<<x, y>>, level)
      BY <2>1, <2>2, LevelSetKeeps, Zenon
    <2>. QED  BY <2>3, <2>4
  <1>3. /\ \A on \in BOOLEAN : mext_led_all(on) => Promise!AllTo(OnOff(on))
        /\ \A level \in Level : mext_led_level_all(level) => Promise!AllTo(level)
    BY AllKeeps, Zenon
  <1>4. \A i \in Intensities : mext_led_intensity(i) => Promise!DimTo(i)
    BY DimKeeps, Zenon
  <1>5. \A x, y \in Offsets :
          /\ \A bits \in Bitmaps : mext_led_map(x, y, bits) =>
               Promise!DrawMap(x, y, Promise!OfBits(bits))
          /\ \A levels \in LevelMaps : mext_led_level_map(x, y, levels) =>
               Promise!DrawMap(x, y, levels)
    BY MapKeeps, Zenon
  <1>6. \A off \in Offsets, y \in 0 .. height - 1 :
          /\ \A bytes \in ByteRows : mext_led_row(off, y, bytes) =>
               Promise!DrawRow(off, y, Promise!OfBytes(bytes))
          /\ \A levels \in LevelRows : mext_led_level_row(off, y, levels) =>
               Promise!DrawRow(off, y, levels)
    BY RowOfBytesKeeps, RowOfLevelsKeeps, Zenon
  <1>7. \A off \in Offsets, x \in 0 .. width - 1 :
          /\ \A bytes \in ByteRows : mext_led_col(x, off, bytes) =>
               Promise!DrawCol(x, off, Promise!OfBytes(bytes))
          /\ \A levels \in LevelRows : mext_led_level_col(x, off, levels) =>
               Promise!DrawCol(x, off, levels)
    BY ColOfBytesKeeps, ColOfLevelsKeeps, Zenon
  <1>. QED  BY <1>2, <1>3, <1>4, <1>5, <1>6, <1>7, Zenon DEF CallKeepsPromise

(* What GridFrame allows, whatever the arguments are. *)
LEMMA CallIsPromised ==
    ASSUME TypeOK, LedCall \/ LevelCall
    PROVE  Promise!Next /\ TypeOK'
  <1>1. rotation \in 0..3
    BY DEF TypeOK, Rotations
  <1>2. /\ Promise!Places(rotation) = Logical
        /\ Promise!Width(rotation) = width /\ Promise!Height(rotation) = height
        /\ Logical = LogicalGrid(rotation, Cols, Rows)
    BY <1>1, Sizes DEF Logical
  <1>3. /\ 0 \in Level /\ MaxLevel \in Level
        /\ \A on \in BOOLEAN : OnOff(on) \in Level
        /\ Promise!Level = Level
    BY Constants DEF Level, OnOff, Promise!Level
  <1>4. ASSUME NEW p \in Logical, NEW on \in BOOLEAN, mext_led_set(p[1], p[2], on)
        PROVE  Promise!Next /\ TypeOK'
    BY <1>2, <1>3, <1>4, LedSetKeeps, Zenon DEF Promise!Next, Promise!Set
  <1>5. ASSUME NEW p \in Logical, NEW level \in Level, mext_led_level_set(p[1], p[2], level)
        PROVE  Promise!Next /\ TypeOK'
    BY <1>2, <1>3, <1>5, LevelSetKeeps, Zenon DEF Promise!Next, Promise!Set
  <1>6. ASSUME NEW on \in BOOLEAN, mext_led_all(on)
        PROVE  Promise!Next /\ TypeOK'
    BY <1>3, <1>6, AllKeeps, Zenon DEF Promise!Next, Promise!All
  <1>7. ASSUME NEW level \in Level, mext_led_level_all(level)
        PROVE  Promise!Next /\ TypeOK'
    BY <1>3, <1>7, AllKeeps, Zenon DEF Promise!Next, Promise!All
  <1>8. ASSUME NEW x \in Offsets, NEW y \in Offsets, NEW bits \in Bitmaps,
               mext_led_map(x, y, bits)
        PROVE  Promise!Next /\ TypeOK'
    <2>1. Promise!OfBits(bits) \in {Promise!OfBits(b) : b \in Bitmaps} \cup LevelMaps
      OBVIOUS
    <2>. QED  BY <1>8, <2>1, MapKeeps, Zenon DEF Promise!Next, Promise!Map
  <1>9. ASSUME NEW x \in Offsets, NEW y \in Offsets, NEW levels \in LevelMaps,
               mext_led_level_map(x, y, levels)
        PROVE  Promise!Next /\ TypeOK'
    <2>1. levels \in {Promise!OfBits(b) : b \in Bitmaps} \cup LevelMaps
      OBVIOUS
    <2>. QED  BY <1>9, <2>1, MapKeeps, Zenon DEF Promise!Next, Promise!Map
  <1>10. ASSUME NEW off \in Offsets, NEW bytes \in ByteRows,
                \/ \E y \in 0 .. height - 1 : mext_led_row(off, y, bytes)
                \/ \E x \in 0 .. width - 1 : mext_led_col(x, off, bytes)
         PROVE  Promise!Next /\ TypeOK'
    <2>1. Promise!OfBytes(bytes) \in {Promise!OfBytes(b) : b \in ByteRows} \cup LevelRows
      OBVIOUS
    <2>. QED  BY <1>2, <1>10, <2>1, RowOfBytesKeeps, ColOfBytesKeeps, Zenon
              DEF Promise!Next, Promise!RowOrCol
  <1>11. ASSUME NEW off \in Offsets, NEW levels \in LevelRows,
                \/ \E y \in 0 .. height - 1 : mext_led_level_row(off, y, levels)
                \/ \E x \in 0 .. width - 1 : mext_led_level_col(x, off, levels)
         PROVE  Promise!Next /\ TypeOK'
    <2>1. levels \in {Promise!OfBytes(b) : b \in ByteRows} \cup LevelRows
      OBVIOUS
    <2>. QED  BY <1>2, <1>11, <2>1, RowOfLevelsKeeps, ColOfLevelsKeeps, Zenon
              DEF Promise!Next, Promise!RowOrCol
  <1>12. ASSUME NEW i \in Intensities, mext_led_intensity(i)
         PROVE  Promise!Next /\ TypeOK'
    BY <1>12, DimKeeps, Zenon DEF Promise!Next, Promise!Dim
  <1>13. CASE LedCall
    BY <1>2, <1>4, <1>6, <1>8, <1>10, <1>12, <1>13, Zenon DEF LedCall
  <1>14. CASE LevelCall
    BY <1>2, <1>5, <1>7, <1>9, <1>11, <1>14, Zenon DEF LevelCall
  <1>. QED  BY <1>13, <1>14

(* A call is counted. *)
LEMMA CallCounts ==
    ASSUME TypeOK, LedCall \/ LevelCall
    PROVE  calls' # calls
  <1>1. \E msgs, rep : Write(msgs, rep)
    BY Zenon DEF LedCall, LevelCall, WriteOne, WriteEach, mext_led_set, mext_led_all,
       mext_led_map, mext_led_row, mext_led_col, mext_led_intensity,
       mext_led_level_set, mext_led_level_all, mext_led_level_map,
       mext_led_level_row, mext_led_level_col
  <1>2. calls' = calls + 1 /\ calls \in Int
    BY <1>1, CallsAssumption DEF Write, TypeOK
  <1>. QED  BY <1>2

(* Nothing changes unless something happens. *)
LEMMA SamePicture ==
    ASSUME UNCHANGED vars
    PROVE  UNCHANGED Promise!vars
  <1>1. /\ rotation' = rotation /\ unsent' = unsent /\ wire' = wire
        /\ lit' = lit /\ brightness' = brightness
    BY DEF vars, hostVars, deviceVars
  <1>2. Frame' = Frame
    BY <1>1, FrameIs
  <1>3. FoldLeft(Dimmed, brightness', wire') = FoldLeft(Dimmed, brightness, wire)
    BY <1>1, Zenon
  <1>. QED  BY <1>1, <1>2, <1>3, Zenon DEF Promise!vars

(* Turning the grid writes nothing. *)
LEMMA TurningKeeps ==
    ASSUME TypeOK, monome_set_rotation
    PROVE  Promise!SetRotation /\ TypeOK' /\ calls' = calls
  <1>1. PICK arg \in Rotated : rotation' = RotationOf(arg)
    BY DEF monome_set_rotation
  <1>2. UNCHANGED <<wire, deviceVars, result, unsent, calls>>
    BY DEF monome_set_rotation
  <1>3. Promise!SetRotation
    BY <1>1, <1>2, RotationTurns
  <1>4. rotation' \in Rotations
    BY <1>1, CallsAssumption, RotationOfInRange
  <1>. QED  BY <1>2, <1>3, <1>4 DEF TypeOK, deviceVars

-----------------------------------------------------------------------------
(* Theorems *)

(* What libmonome sends are messages of the protocol, with coordinates that *)
(* fit their bytes and levels that fit four bits, and the LEDs have levels. *)
THEOREM MextGridTypes == Spec => []TypeOK
  <1>1. Init => TypeOK
    BY StartsAlike
  <1>2. TypeOK /\ [Next]_vars => TypeOK'
    <2>1. ASSUME TypeOK, Next PROVE TypeOK'
      BY <2>1, TurningKeeps, CallIsPromised, DeviceKeeps DEF Next
    <2>2. ASSUME TypeOK, UNCHANGED vars PROVE TypeOK'
      BY <2>2 DEF TypeOK, vars, hostVars, deviceVars
    <2>. QED  BY <2>1, <2>2
  <1>. QED  BY <1>1, <1>2, PTL DEF Spec

(* Every step of the LED functions, of monome_set_rotation() and of the     *)
(* device is the step of GridFrame that belongs to it, with the same        *)
(* arguments, unless nothing of a call was written.                         *)
THEOREM MextDrawsWhatItPromises == Spec => MextGridImplementsGridFrame
  <1>. DEFINE Promised ==
                CASE calls' = calls -> UNCHANGED Promise!vars \/ Promise!SetRotation
                  [] calls' # calls /\ wire' # wire -> CallKeepsPromise
                  [] calls' # calls /\ wire' = wire -> Promise!Next
  <1>1. Init => Promise!Init
    BY StartsAlike
  <1>2. TypeOK /\ [Next]_vars => [Promised]_vars
    <2>1. SUFFICES ASSUME TypeOK, Next PROVE Promised
      OBVIOUS
    <2>2. CASE calls' = calls
      <3>1. ~(LedCall \/ LevelCall)
        BY <2>1, <2>2, CallCounts
      <3>2. UNCHANGED Promise!vars \/ Promise!SetRotation
        BY <2>1, <3>1, TurningKeeps, DeviceKeeps DEF Next
      <3>. QED  BY <2>2, <3>2
    <2>3. CASE calls' # calls
      <3>1. LedCall \/ LevelCall
        BY <2>1, <2>3, TurningKeeps DEF Next, DeviceExecutes, hostVars
      <3>2. CallKeepsPromise /\ Promise!Next
        BY <2>1, <3>1, CallsKeep, CallIsPromised
      <3>. QED  BY <2>3, <3>2
    <2>. QED  BY <2>2, <2>3
  <1>. QED  BY <1>1, <1>2, MextGridTypes, PTL DEF Spec, MextGridImplementsGridFrame

(* The LED functions of the mext protocol implement GridFrame.              *)
THEOREM MextGridRefinesGridFrame == Spec => Promise!Spec
  <1>1. Init => Promise!Init
    BY StartsAlike
  <1>2. TypeOK /\ [Next]_vars => [Promise!Next]_(Promise!vars)
    <2>1. ASSUME TypeOK, Next PROVE Promise!Next \/ UNCHANGED Promise!vars
      BY <2>1, TurningKeeps, CallIsPromised, DeviceKeeps DEF Next, Promise!Next
    <2>2. ASSUME UNCHANGED vars PROVE UNCHANGED Promise!vars
      BY <2>2, SamePicture
    <2>. QED  BY <2>1, <2>2
  <1>. QED  BY <1>1, <1>2, MextGridTypes, PTL DEF Spec, Promise!Spec

=============================================================================
