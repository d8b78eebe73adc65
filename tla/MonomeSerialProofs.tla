------------------------- MODULE MonomeSerialProofs -------------------------
(***************************************************************************)
(* Proofs about MonomeSerial and the LED functions of SerialGrid below it: *)
(* the daemon forwards every press until the device is unplugged and ends  *)
(* for no other reason, functions say so when they fail, and every LED     *)
(* function draws what GridFrame promises in each of the four rotations,   *)
(* for grids, keys, requests and pictures of any kind and however many.    *)
(***************************************************************************)
EXTENDS MonomeSerial, SharedLemmas, FiniteSetTheorems,
        SequenceTheorems, TLAPS

-----------------------------------------------------------------------------
(* Messages                                                                 *)

(* What a device can do with a message: dim to a byte, draw a line of one   *)
(* section or two.                                                          *)
Sound(m) == /\ m.cmd = "INTENSITY" => m.data \in 0..255
            /\ m.cmd \in {"ROW", "COL"} => Len(m.data) \in 1..2

(* What every function of the library leaves behind: values of their types, *)
(* and a result that is negative if something was lost, unless it is that   *)
(* of the 40h's monome_led_all().                                           *)
CallIsSound ==
    /\ lit' \subseteq Hardware /\ brightness' \in 0..255
    /\ sensing' \subseteq Sensors
    /\ result' \in {2 * Section} \cup (-Section .. 0)
    /\ lost' \in 0..Section /\ torn' \in BOOLEAN
    /\ result' >= 0 /\ (lost' > 0 \/ torn' # torn) =>
          ~Series /\ result' = 2 * Section

(* The sections of a message that is lost whole, one pair each.             *)
LEMMA SectionsCounted ==
    ASSUME NEW m, Sound(m)
    PROVE  Cardinality({1} \X (1 .. Sections(m))) \in 1..2
  <1>1. Sections(m) \in 1..2
    BY DEF Sound, Sections
  <1>2. CASE Sections(m) = 1
    <2>1. {1} \X (1 .. Sections(m)) = {<<1, 1>>}
      BY <1>2
    <2>2. Cardinality({<<1, 1>>}) = 1
      BY FS_Singleton, Zenon
    <2>. QED  BY <2>1, <2>2
  <1>3. CASE Sections(m) = 2
    <2>1. {1} \X (1 .. Sections(m)) = {<<1, 1>>} \cup {<<1, 2>>}
      BY <1>3
    <2>2. IsFiniteSet({<<1, 1>>}) /\ Cardinality({<<1, 1>>}) = 1
      BY FS_Singleton, Zenon
    <2>3. <<1, 2>> \notin {<<1, 1>>}
      OBVIOUS
    <2>4. Cardinality({<<1, 1>>} \cup {<<1, 2>>}) = Cardinality({<<1, 1>>}) + 1
      BY <2>2, <2>3, FS_AddElement, Zenon
    <2>. QED  BY <2>1, <2>2, <2>4
  <1>. QED  BY <1>1, <1>2, <1>3

(* A call that writes one message. *)
LEMMA OneMessage ==
    ASSUME GridTypeOK, NEW m, Sound(m), WriteOne(m)
    PROVE  CallIsSound
  <1>. Section \in 2..8
    BY GridsAssumption
  <1>1. PICK written \in SUBSET {1} :
          /\ MonomeWrite(<<m>>, written)
          /\ result' = IF written = {} THEN -1 ELSE 0
    BY DEF WriteOne
  <1>2. DOMAIN <<m>> = {1} /\ <<m>>[1] = m
    OBVIOUS
  <1>3. lit' \subseteq Hardware
    BY <1>1 DEF MonomeWrite, Shown, GridTypeOK
  <1>4. sensing' \subseteq Sensors
    BY <1>1 DEF MonomeWrite, Sensed, GridTypeOK
  <1>5. brightness' \in 0..255
    <2>1. Dimmed(<<m>>, written) \in 0..255
      <3>. DEFINE about == {i \in written : <<m>>[i].cmd = "INTENSITY"}
      <3>1. CASE about = {}
        BY <3>1 DEF Dimmed, GridTypeOK
      <3>2. CASE about # {}
        <4>1. about = {1} /\ m.cmd = "INTENSITY"
          BY <1>2, <3>2
        <4>2. Max({1}) = 1
          BY DEF Max
        <4>3. Dimmed(<<m>>, written) = m.data
          BY <1>2, <3>2, <4>1, <4>2 DEF Dimmed
        <4>. QED  BY <4>1, <4>3 DEF Sound
      <3>. QED  BY <3>1, <3>2
    <2>. QED  BY <1>1, <2>1 DEF MonomeWrite, GridTypeOK
  <1>6. torn' \in BOOLEAN
    BY <1>1 DEF MonomeWrite, GridTypeOK
  <1>7. CASE written = {}
    <2>1. UNION {{i} \X (1 .. Sections(<<m>>[i])) : i \in {1} \ written}
            = {1} \X (1 .. Sections(m))
      BY <1>2, <1>7
    <2>2. lost' = Cardinality({1} \X (1 .. Sections(m)))
      BY <1>1, <1>2, <2>1 DEF MonomeWrite
    <2>3. lost' \in 0..Section /\ result' = -1
      BY <1>1, <1>7, <2>2, SectionsCounted
    <2>. QED  BY <1>3, <1>4, <1>5, <1>6, <2>3 DEF CallIsSound
  <1>8. CASE written = {1}
    <2>1. {1} \ written = {}
      BY <1>8
    <2>2. torn' = torn /\ lost' = Cardinality({})
      BY <1>1, <1>2, <2>1 DEF MonomeWrite
    <2>3. lost' = 0 /\ result' = 0
      BY <1>1, <1>8, <2>2, FS_EmptySet
    <2>. QED  BY <1>3, <1>4, <1>5, <1>6, <2>2, <2>3 DEF CallIsSound
  <1>. QED  BY <1>7, <1>8

(* What the 40h's calls of one message a row have in common. *)
LEMMA ManyMessages ==
    ASSUME GridTypeOK, NEW msgs, DOMAIN msgs = 1..Section,
           \A i \in 1..Section : /\ msgs[i].cmd \in {"ROW", "COL"}
                                 /\ Len(msgs[i].data) = 1,
           NEW written \in SUBSET (1..Section), MonomeWrite(msgs, written)
    PROVE  /\ lit' \subseteq Hardware /\ brightness' \in 0..255
           /\ sensing' \subseteq Sensors
           /\ lost' \in 0..Section /\ torn' \in BOOLEAN
           /\ Cardinality(written) \in 0..Section
           /\ Cardinality(written) = Section => lost' = 0 /\ torn' = torn
           /\ lost' = Cardinality((1..Section) \ written)
  <1>. Section \in 2..8
    BY GridsAssumption
  <1>1. lit' \subseteq Hardware
    BY DEF MonomeWrite, Shown, GridTypeOK
  <1>2. sensing' \subseteq Sensors
    BY DEF MonomeWrite, Sensed, GridTypeOK
  <1>3. brightness' \in 0..255
    <2>1. {i \in written : msgs[i].cmd = "INTENSITY"} = {}
      OBVIOUS
    <2>. QED  BY <2>1 DEF MonomeWrite, Dimmed, GridTypeOK
  <1>4. torn' \in BOOLEAN
    BY DEF MonomeWrite, GridTypeOK
  <1>. DEFINE failed == (1..Section) \ written
              lines == UNION {{i} \X (1 .. Sections(msgs[i])) : i \in failed}
  <1>5. IsFiniteSet(1..Section) /\ Cardinality(1..Section) = Section
    <2>1. 1 \in Int /\ Section \in Int /\ ~(1 > Section) /\ Section - 1 + 1 = Section
      OBVIOUS
    <2>. QED  BY <2>1, FS_Interval
  <1>6. ASSUME NEW T \in SUBSET (1..Section)
        PROVE  /\ IsFiniteSet(T) /\ Cardinality(T) \in 0..Section
               /\ Cardinality(T) = Section => T = 1..Section
    <2>1. /\ IsFiniteSet(T) /\ Cardinality(T) <= Section
          /\ Cardinality(T) = Section => T = 1..Section
      BY <1>5, FS_Subset, Zenon
    <2>2. Cardinality(T) \in Nat
      BY <2>1, FS_CardinalityType
    <2>. QED  BY <2>1, <2>2
  <1>7. /\ IsFiniteSet(failed) /\ Cardinality(failed) \in 0..Section
        /\ Cardinality(written) \in 0..Section
        /\ Cardinality(written) = Section => written = 1..Section
    BY <1>6
  <1>8. lines = failed \X {1}
    <2>1. \A i \in failed : Sections(msgs[i]) = 1
      BY DEF Sections
    <2>2. \A i \in failed : {i} \X (1 .. Sections(msgs[i])) = {i} \X {1}
      BY <2>1
    <2>3. lines = UNION {{i} \X {1} : i \in failed}
      BY <2>2
    <2>. QED  BY <2>3
  <1>9. Cardinality(failed \X {1}) = Cardinality(failed)
    <2>1. IsFiniteSet({1}) /\ Cardinality({1}) = 1
      BY FS_Singleton
    <2>. HIDE DEF failed
    <2>2. Cardinality(failed \X {1}) = Cardinality(failed) * Cardinality({1})
      BY <1>7, <2>1, FS_Product, Zenon
    <2>. QED  BY <1>7, <2>1, <2>2
  <1>10. lost' = Cardinality(lines)
    BY DEF MonomeWrite
  <1>11. ASSUME Cardinality(written) = Section PROVE lost' = 0 /\ torn' = torn
    <2>1. failed = {}
      BY <1>7, <1>11
    <2>2. Cardinality(failed) = 0
      BY <2>1, FS_EmptySet
    <2>. QED  BY <1>8, <1>9, <1>10, <2>1, <2>2 DEF MonomeWrite
  <1>12. lost' = Cardinality((1..Section) \ written)
    BY <1>8, <1>9, <1>10
  <1>. QED  BY <1>1, <1>2, <1>3, <1>4, <1>7, <1>8, <1>9, <1>10, <1>11, <1>12

-----------------------------------------------------------------------------
(* The functions of the library                                             *)

(* A line of one byte or two stays as long when its bits are reversed. *)
LEMMA OneByteSent ==
    ASSUME NEW mode, NEW byte
    PROVE  Len(BytesSent(mode, <<byte>>)) = 1
  BY DEF BytesSent, Reversed, Reverse

LEMMA TwoBytesSent ==
    ASSUME NEW mode, NEW bytes, DOMAIN bytes = 1..2, Len(bytes) = 2
    PROVE  Len(BytesSent(mode, bytes)) = 2
  BY DEF BytesSent, Reversed, Reverse

LEMMA CrossedIsALine ==
    ASSUME NEW mode \in {"ROW", "COL"}
    PROVE  Crossed(mode) \in {"ROW", "COL"}
  BY DEF Crossed

(* A row or column of a series device is one message of one byte or two. *)
LEMMA SeriesLineIsSound ==
    ASSUME NEW mode \in {"ROW", "COL"}, NEW address, NEW length,
           NEW S, NEW bytes \in Seq(S)
    PROVE  Sound(SeriesLine(mode, address, length, bytes))
  <1>. DEFINE m == SeriesLine(mode, address, length, bytes)
  <1>1. CASE length <= Section
    <2>1. m.cmd = Crossed(mode) /\ m.data = BytesSent(mode, <<bytes[1]>>)
      BY <1>1 DEF SeriesLine, proto_series_led_col_row_8, Msg
    <2>2. m.cmd \in {"ROW", "COL"} /\ Len(m.data) = 1
      BY <2>1, CrossedIsALine, OneByteSent
    <2>3. m.cmd # "INTENSITY" /\ Len(m.data) \in 1..2
      BY <2>2
    <2>. HIDE DEF m
    <2>4. Sound(m)
      BY <2>3 DEF Sound
    <2>. QED  BY <2>4 DEF m
  <1>2. CASE ~(length <= Section)
    <2>. DEFINE both == IF Len(bytes) > 1 THEN SubSeq(bytes, 1, 2) ELSE sdata(bytes[1])
                data == BytesSent(mode, both)
    <2>1. DOMAIN both = 1..2 /\ Len(both) = 2
      <3>1. CASE Len(bytes) > 1
        <4>1. \A i \in 1..2 : bytes[i] \in S
          BY <3>1
        <4>. QED  BY <3>1, <4>1, SubSeqProperties
      <3>2. CASE ~(Len(bytes) > 1)
        BY <3>2 DEF sdata
      <3>. QED  BY <3>1, <3>2
    <2>. HIDE DEF both
    <2>2. Len(data) = 2
      BY <2>1, TwoBytesSent
    <2>. HIDE DEF data
    <2>3. Len(Reverse(data)) = 2
      BY <2>2 DEF Reverse
    <2>4. m.cmd = Crossed(mode) /\ m.data \in {data, Reverse(data)}
      BY <1>2 DEF both, data, SeriesLine, proto_series_led_col_row_16, Msg
    <2>5. m.cmd \in {"ROW", "COL"} /\ Len(m.data) = 2
      BY <2>2, <2>3, <2>4, CrossedIsALine
    <2>6. m.cmd # "INTENSITY" /\ Len(m.data) \in 1..2
      BY <2>5
    <2>. HIDE DEF m
    <2>7. Sound(m)
      BY <2>6 DEF Sound
    <2>. QED  BY <2>7 DEF m
  <1>. QED  BY <1>1, <1>2

(* So is one of a 40h, of one byte. *)
LEMMA LineIsSound ==
    ASSUME NEW mode \in {"ROW", "COL"}, NEW address, NEW byte
    PROVE  LET m == proto_40h_led_col_row(mode, address, byte)
           IN  Sound(m) /\ m.cmd \in {"ROW", "COL"} /\ Len(m.data) = 1
  BY CrossedIsALine, OneByteSent DEF Sound, proto_40h_led_col_row, Msg

LEMMA LedSetIsSound ==
    ASSUME GridTypeOK, NEW x, NEW y, NEW on, monome_led_set(x, y, on)
    PROVE  CallIsSound
  <1>1. PICK m : m.cmd \in {"LED_OFF", "LED_ON"} /\ WriteOne(m)
    BY DEF monome_led_set, proto_series_led_set, proto_40h_led_set, Msg
  <1>. QED  BY <1>1, OneMessage DEF Sound

LEMMA LedAllIsSound ==
    ASSUME GridTypeOK, NEW status, monome_led_all(status)
    PROVE  CallIsSound
  <1>1. CASE Series /\ WriteOne(proto_series_led_all(status))
    <2>1. proto_series_led_all(status).cmd = "CLEAR"
      BY DEF proto_series_led_all, Msg
    <2>. QED  BY <1>1, <2>1, OneMessage DEF Sound
  <1>2. CASE /\ ~Series
             /\ \E written \in SUBSET (1..Section) :
                  MonomeWrite(proto_40h_led_all(status), written)
             /\ result' = 2 * Section
    <2>. DEFINE msgs == proto_40h_led_all(status)
    <2>1. /\ DOMAIN msgs = 1..Section
          /\ \A i \in 1..Section : msgs[i].cmd \in {"ROW", "COL"} /\ Len(msgs[i].data) = 1
      BY DEF proto_40h_led_all, Msg
    <2>. HIDE DEF msgs
    <2>2. PICK written \in SUBSET (1..Section) : MonomeWrite(msgs, written)
      BY <1>2 DEF msgs
    <2>3. /\ lit' \subseteq Hardware /\ brightness' \in 0..255
          /\ sensing' \subseteq Sensors
          /\ lost' \in 0..Section /\ torn' \in BOOLEAN
      BY <2>1, <2>2, ManyMessages, ZenonT(60)
    <2>4. ~Series /\ result' = 2 * Section
      BY <1>2
    <2>5. result' \in {2 * Section} \cup (-Section .. 0)
      BY <2>4
    <2>. QED  BY <2>3, <2>4, <2>5, Zenon DEF CallIsSound
  <1>. QED  BY <1>1, <1>2 DEF monome_led_all

LEMMA LedMapIsSound ==
    ASSUME GridTypeOK, NEW x, NEW y, NEW bits, monome_led_map(x, y, bits)
    PROVE  CallIsSound
  <1>1. CASE Series /\ WriteOne(proto_series_led_map(x, y, bits))
    <2>1. proto_series_led_map(x, y, bits).cmd = "FRAME"
      BY DEF proto_series_led_map, Msg
    <2>. QED  BY <1>1, <2>1, OneMessage DEF Sound
  <1>2. CASE /\ ~Series
             /\ \E written \in SUBSET (1..Section) :
                  /\ MonomeWrite(proto_40h_led_map(bits), written)
                  /\ result' = -(Section - Cardinality(written))
    <2>. DEFINE msgs == proto_40h_led_map(bits)
    <2>1. /\ DOMAIN msgs = 1..Section
          /\ \A i \in 1..Section : msgs[i].cmd \in {"ROW", "COL"} /\ Len(msgs[i].data) = 1
      BY LineIsSound DEF proto_40h_led_map
    <2>. HIDE DEF msgs
    <2>2. PICK written \in SUBSET (1..Section) :
            /\ MonomeWrite(msgs, written)
            /\ result' = -(Section - Cardinality(written))
      BY <1>2 DEF msgs
    <2>3. /\ lit' \subseteq Hardware /\ brightness' \in 0..255
          /\ sensing' \subseteq Sensors
          /\ lost' \in 0..Section /\ torn' \in BOOLEAN
          /\ Cardinality(written) \in 0..Section
          /\ Cardinality(written) = Section => lost' = 0 /\ torn' = torn
      BY <2>1, <2>2, ManyMessages
    <2>4. /\ Section \in Nat
          /\ Section - Cardinality(written) \in 0..Section
          /\ result' >= 0 => Cardinality(written) = Section
      BY <2>2, <2>3, GridsAssumption
    <2>. QED  BY <2>2, <2>3, <2>4 DEF CallIsSound
  <1>. QED  BY <1>1, <1>2 DEF monome_led_map

LEMMA LedRowIsSound ==
    ASSUME GridTypeOK, NEW y, NEW S, NEW bytes \in Seq(S),
           monome_led_row(y, bytes)
    PROVE  CallIsSound
  BY SeriesLineIsSound, LineIsSound, OneMessage
     DEF monome_led_row, proto_series_led_row

LEMMA LedColIsSound ==
    ASSUME GridTypeOK, NEW x, NEW S, NEW bytes \in Seq(S),
           monome_led_col(x, bytes)
    PROVE  CallIsSound
  BY SeriesLineIsSound, LineIsSound, OneMessage
     DEF monome_led_col, proto_series_led_col

LEMMA LedIntensityIsSound ==
    ASSUME GridTypeOK, NEW b \in Int, monome_led_intensity(b)
    PROVE  CallIsSound
  <1>1. b % 16 \in 0..255 /\ b % 256 \in 0..255
    OBVIOUS
  <1>2. PICK m : /\ m.cmd = "INTENSITY" /\ m.data \in {b % 16, b % 256}
                 /\ WriteOne(m)
    BY DEF monome_led_intensity, proto_series_led_intensity, proto_40h_intensity, Msg
  <1>. QED  BY <1>1, <1>2, OneMessage DEF Sound

LEMMA TiltIsSound ==
    ASSUME GridTypeOK, NEW sensor,
           monome_tilt_enable(sensor) \/ monome_tilt_disable(sensor)
    PROVE  CallIsSound
  <1>1. PICK m : m.cmd = "TILT" /\ WriteOne(m)
    BY DEF monome_tilt_enable, monome_tilt_disable, proto_series_tilt_enable,
           proto_series_tilt_disable, proto_40h_tilt_enable,
           proto_40h_tilt_disable, Msg
  <1>. QED  BY <1>1, OneMessage DEF Sound

-----------------------------------------------------------------------------
(* Calls of the program                                                     *)

(* Levels are reduced to bytes. *)
LEMMA ReducedRow ==
    ASSUME NEW levels \in LevelRows
    PROVE  reduce_levels_to_bitmask(levels) \in Seq(SUBSET (0 .. Section - 1))
  <1>1. Len(levels) \in Nat /\ Section \in 2..8
    BY CallsAssumption, GridsAssumption
  <1>2. Len(levels) \div Section \in Nat
    BY <1>1
  <1>. QED  BY <1>2 DEF reduce_levels_to_bitmask

LEMMA LedCallIsSound ==
    ASSUME GridTypeOK, LedCall
    PROVE  CallIsSound
  <1>1. CASE \E x \in 0 .. width - 1, y \in 0 .. height - 1, on \in {0, 1} :
               monome_led_set(x, y, on)
    BY <1>1, LedSetIsSound
  <1>2. CASE \E status \in {0, 1} : monome_led_all(status)
    BY <1>2, LedAllIsSound
  <1>3. CASE \E x, y \in Corners, bits \in Bitmaps : monome_led_map(x, y, bits)
    BY <1>3, LedMapIsSound
  <1>4. CASE \E y \in 0 .. height - 1, bytes \in ByteRows : monome_led_row(y, bytes)
    BY <1>4, LedRowIsSound, CallsAssumption
  <1>5. CASE \E x \in 0 .. width - 1, bytes \in ByteRows : monome_led_col(x, bytes)
    BY <1>5, LedColIsSound, CallsAssumption
  <1>6. CASE \E b \in Intensities : monome_led_intensity(b)
    BY <1>6, LedIntensityIsSound, CallsAssumption
  <1>. QED  BY <1>1, <1>2, <1>3, <1>4, <1>5, <1>6, Zenon DEF LedCall

LEMMA LevelCallIsSound ==
    ASSUME GridTypeOK, LevelCall
    PROVE  CallIsSound
  <1>1. CASE \E x \in 0 .. width - 1, y \in 0 .. height - 1, level \in Level :
               monome_led_level_set(x, y, level)
    BY <1>1, LedSetIsSound DEF monome_led_level_set
  <1>2. CASE \E level \in Level : monome_led_level_all(level)
    BY <1>2, LedAllIsSound DEF monome_led_level_all
  <1>3. CASE \E x, y \in Corners, levels \in LevelMaps :
               monome_led_level_map(x, y, levels)
    BY <1>3, LedMapIsSound DEF monome_led_level_map
  <1>4. CASE \E y \in 0 .. height - 1, levels \in LevelRows :
               monome_led_level_row(y, levels)
    BY <1>4, LedRowIsSound, ReducedRow DEF monome_led_level_row
  <1>5. CASE \E x \in 0 .. width - 1, levels \in LevelRows :
               monome_led_level_col(x, levels)
    BY <1>5, LedColIsSound, ReducedRow DEF monome_led_level_col
  <1>. QED  BY <1>1, <1>2, <1>3, <1>4, <1>5, Zenon DEF LevelCall

(* A call that is sound leaves the types of SerialGrid intact.              *)
LEMMA SoundCallKeepsTypes ==
    ASSUME GridTypeOK, CallIsSound \/ UNCHANGED outputVars,
           UNCHANGED grid, rotation' \in Rotations, calls' \in 0..MaxCalls
    PROVE  GridTypeOK'
  BY DEF GridTypeOK, CallIsSound, outputVars, Hardware

LEMMA ProgramCallIsSound ==
    ASSUME GridTypeOK, ProgramCalls
    PROVE  GridTypeOK' /\ (CallIsSound \/ UNCHANGED outputVars)
  <1>1. CASE SetRotation
    <2>1. PICK arg \in Rotated : rotation' = RotationOf(arg)
      BY <1>1 DEF SetRotation
    <2>2. rotation' \in Rotations
      BY <2>1, RotationOfInRange, CallsAssumption
    <2>3. UNCHANGED <<grid, outputVars, calls>>
      BY <1>1 DEF SetRotation
    <2>. QED  BY <2>2, <2>3, SoundCallKeepsTypes DEF GridTypeOK
  <1>2. CASE /\ calls < MaxCalls /\ calls' = calls + 1
             /\ LedCall \/ LevelCall \/ TiltCall
             /\ UNCHANGED <<grid, rotation>>
    <2>1. CallIsSound
      BY <1>2, LedCallIsSound, LevelCallIsSound, TiltIsSound DEF TiltCall
    <2>2. calls' \in 0..MaxCalls
      BY <1>2, CallsAssumption DEF GridTypeOK
    <2>. QED  BY <1>2, <2>1, <2>2, SoundCallKeepsTypes DEF GridTypeOK
  <1>. QED  BY <1>1, <1>2 DEF ProgramCalls

-----------------------------------------------------------------------------
(* Requests                                                                 *)

(* The bytes of a row are a sequence.                                       *)
LEMMA ArgumentsAreASequence ==
    ASSUME NEW r \in Requests, r.args # <<>>
    PROVE  \E S : Tail(r.args) \in Seq(S)
  <1>. DEFINE S == {r.args[i] : i \in 1 .. Len(r.args)}
  <1>1. r.args \in Seq(S)
    <2>1. /\ Len(r.args) \in Nat
          /\ r.args = [i \in 1 .. Len(r.args) |-> r.args[i]]
      BY RequestsAssumption
    <2>2. \A i \in 1 .. Len(r.args) : r.args[i] \in S
      OBVIOUS
    <2>. QED  BY <2>1, <2>2, IsASeq
  <1>. HIDE DEF S
  <1>. QED  BY <1>1, HeadTailProperties

LEMMA ServeIsSound ==
    ASSUME GridTypeOK, NEW r \in Requests, Serve(r)
    PROVE  CallIsSound \/ UNCHANGED outputVars
  <1>1. CASE ~Handled(r)
    BY <1>1 DEF Serve
  <1>2. CASE Handled(r) /\ r.path = "led"
    BY <1>2, LedSetIsSound DEF Serve, osc_led_handler
  <1>3. CASE Handled(r) /\ r.path = "clear"
    BY <1>3, LedAllIsSound DEF Serve, osc_led_all_handler
  <1>4. CASE Handled(r) /\ r.path = "frame"
    BY <1>4, LedMapIsSound DEF Serve, osc_led_map_handler
  <1>5. CASE Handled(r) /\ r.path = "intensity"
    <2>1. osc_intensity_handler(r.args)
      BY <1>5 DEF Serve
    <2>. DEFINE b == IF r.args = <<>> THEN 15 ELSE r.args[1]
    <2>2. b \in Int
      <3>1. r.args # <<>> => r.args[1] \in Int
        BY <1>5, RequestsAssumption, Zenon
      <3>. QED  BY <3>1
    <2>3. monome_led_intensity(b)
      BY <2>1 DEF osc_intensity_handler
    <2>. HIDE DEF b
    <2>. QED  BY <2>2, <2>3, LedIntensityIsSound
  <1>6. CASE Handled(r) /\ r.path \in {"led_row", "led_col"}
    <2>1. osc_led_col_row_handler(r.path, r.args)
      BY <1>6 DEF Serve
    <2>2. r.args # <<>>
      BY <1>6 DEF Handled, register_osc_methods
    <2>3. PICK S : Tail(r.args) \in Seq(S)
      BY <2>2, ArgumentsAreASequence
    <2>. QED  BY <2>1, <2>3, LedRowIsSound, LedColIsSound
              DEF osc_led_col_row_handler
  <1>7. Handled(r) => r.path \in {"led", "clear", "frame", "led_row", "led_col",
                                  "intensity"}
    BY DEF Handled, register_osc_methods
  <1>. QED  BY <1>1, <1>2, <1>3, <1>4, <1>5, <1>6, <1>7

-----------------------------------------------------------------------------
(* The inputs of the device                                                 *)

(* Nothing happens before the daemon has started, and only a program that   *)
(* uses the library itself turns the grid later on.                         *)
NothingBefore ==
    /\ client = "program" => pc = "away"
    /\ pc \in {"away", "start"} =>
          presses = <<>> /\ made = <<>> /\ inputs = <<>> /\ link = "up"

(* What poll() reported was so, and a hangup stays. *)
HangupIsReal == "POLLHUP" \in revents.device => link = "down"

(* What waits are the last inputs that were made. *)
InputsWait ==
    /\ Len(inputs) <= Len(made)
    /\ inputs = IF link = "down" THEN <<>>
                ELSE SubSeq(made, Len(made) - Len(inputs) + 1, Len(made))

KeysOnGrid == \A i \in DOMAIN made : made[i].at \in Hardware

DInv == /\ TypeOK /\ NothingBefore /\ HangupIsReal /\ EndsWhenUnplugged
        /\ InputsWait /\ KeysOnGrid /\ PressesAreForwarded

(* One more input is one more key, or none. *)
LEMMA OneMoreInput ==
    ASSUME NEW n \in Nat, NEW all
    PROVE  /\ KeysAmong(n, all) \in Nat
           /\ KeysAmong(n + 1, all) =
                IF all[n + 1].type # "TILT" THEN KeysAmong(n, all) + 1
                                            ELSE KeysAmong(n, all)
  <1>. DEFINE S(k) == {i \in 1..k : all[i].type # "TILT"}
  <1>1. IsFiniteSet(S(n))
    <2>1. IsFiniteSet(1..n)
      BY FS_Interval
    <2>2. S(n) \in SUBSET (1..n)
      OBVIOUS
    <2>. QED  BY <2>1, <2>2, FS_Subset
  <1>2. S(n + 1) = IF all[n + 1].type # "TILT" THEN S(n) \cup {n + 1} ELSE S(n)
    OBVIOUS
  <1>3. n + 1 \notin S(n)
    OBVIOUS
  <1>4. /\ KeysAmong(n, all) = Cardinality(S(n))
        /\ KeysAmong(n + 1, all) = Cardinality(S(n + 1))
    BY DEF KeysAmong
  <1>. HIDE DEF S
  <1>5. Cardinality(S(n)) \in Nat
    BY <1>1, FS_CardinalityType
  <1>6. Cardinality(S(n) \cup {n + 1}) = Cardinality(S(n)) + 1
    BY <1>1, <1>3, FS_AddElement
  <1>. QED  BY <1>2, <1>4, <1>5, <1>6

(* No input, no key. *)
LEMMA NoInput ==
    ASSUME NEW all
    PROVE  KeysAmong(0, all) = 0
  <1>1. {i \in 1..0 : all[i].type # "TILT"} = {}
    OBVIOUS
  <1>. QED  BY <1>1, FS_EmptySet DEF KeysAmong

(* New inputs do not change the count among the old ones.                   *)
LEMMA KeysAmongStays ==
    ASSUME NEW S, NEW all \in Seq(S), NEW e \in S, NEW n \in 0..Len(all)
    PROVE  KeysAmong(n, Append(all, e)) = KeysAmong(n, all)
  <1>. DEFINE more == Append(all, e)
  <1>1. \A i \in 1..n : more[i] = all[i]
    OBVIOUS
  <1>. HIDE DEF more
  <1>2. {i \in 1..n : more[i].type # "TILT"} = {i \in 1..n : all[i].type # "TILT"}
    BY <1>1
  <1>. QED  BY <1>2 DEF KeysAmong, more

(* Nothing but the inputs made and the presses sent is counted. *)
LEMMA ForwardedStays ==
    ASSUME DInv, UNCHANGED <<grid, rotation, presses, made, before, link, inputs>>
    PROVE  InputsWait' /\ KeysOnGrid' /\ PressesAreForwarded'
  <1>1. InputsWait'
    BY DEF DInv, InputsWait
  <1>2. KeysOnGrid'
    BY DEF DInv, KeysOnGrid, Hardware
  <1>3. PressesAreForwarded'
    BY DEF DInv, PressesAreForwarded
  <1>. QED  BY <1>1, <1>2, <1>3

LEMMA SizesFit ==
    ASSUME GridTypeOK
    PROVE  grid.cols \in GridSize /\ grid.rows \in GridSize
  BY GridsAssumption, UintAssumption DEF GridTypeOK, GridSize

(* The place of a key is a pair of numbers, from which the library finds    *)
(* the key if it is one of the grid.                                        *)
LEMMA PressIsTranslated ==
    ASSUME GridTypeOK, NEW e, e.at \in Nat \X Nat, e.type \in {"DOWN", "UP"}
    PROVE  /\ monome_handle_press(e) \in [type : {"DOWN", "UP"}, at : Nat \X Nat]
           /\ monome_handle_press(e).type = e.type
           /\ e.at \in Hardware =>
                output_cb(rotation, grid.cols, grid.rows,
                          monome_handle_press(e).at) = e.at
  <1>. rotation \in Rotations
    BY DEF GridTypeOK
  <1>1. PICK i \in Nat, j \in Nat : e.at = <<i, j>>
    OBVIOUS
  <1>. DEFINE p == input_cb(rotation, grid.cols, grid.rows, e.at)
  <1>2. p \in (0 .. i + j + grid.cols + grid.rows) \X (0 .. i + j + grid.cols + grid.rows)
    BY <1>1, SizesFit, InputIsBounded
  <1>3. p \in Nat \X Nat
    BY <1>2
  <1>4. e.at \in Hardware => output_cb(rotation, grid.cols, grid.rows, p) = e.at
    BY SizesFit, InputStaysInside DEF Hardware
  <1>. HIDE DEF p
  <1>5. monome_handle_press(e) = [type |-> e.type, at |-> p]
    BY DEF monome_handle_press, p
  <1>. QED  BY <1>3, <1>4, <1>5

-----------------------------------------------------------------------------
(* Steps                                                                    *)

LEMMA InitDInv == Init => DInv
  <1>. SUFFICES ASSUME Init PROVE DInv
    OBVIOUS
  <1>. USE DEF Init, GridInit
  <1>1. GridTypeOK
    <2>1. 0 \in -Section .. 0 /\ 0 \in 0..Section /\ MaxLevel \in 0..255
      BY GridsAssumption
    <2>2. 0 \in 0..MaxCalls
      BY CallsAssumption
    <2>3. result \in {2 * Section} \cup (-Section .. 0)
      BY <2>1
    <2>4. grid \in Grids /\ rotation \in Rotations
      BY DEF Rotations
    <2>5. lit \subseteq Hardware /\ sensing \subseteq Sensors /\ torn \in BOOLEAN
      OBVIOUS
    <2>6. brightness \in 0..255 /\ lost \in 0..Section /\ calls \in 0..MaxCalls
      BY <2>1, <2>2
    <2>. QED  BY <2>3, <2>4, <2>5, <2>6, Zenon DEF GridTypeOK
  <1>2. TypeOK
    <2>1. /\ client \in {"program", "monomeserial"} /\ pc \in {"away", "start"}
          /\ revents \in Ready
      BY DEF Ready
    <2>. QED  BY <1>1, <2>1, DaemonAssumption DEF TypeOK
  <1>3. NothingBefore /\ HangupIsReal /\ EndsWhenUnplugged /\ KeysOnGrid
    BY DEF NothingBefore, HangupIsReal, EndsWhenUnplugged, KeysOnGrid
  <1>4. InputsWait
    BY DEF InputsWait
  <1>5. PressesAreForwarded
    BY NoInput DEF PressesAreForwarded
  <1>. QED  BY <1>2, <1>3, <1>4, <1>5 DEF DInv

(* The user presses a key or moves the device. *)
LEMMA DeviceInputKeepsDInv ==
    ASSUME DInv, DeviceInput
    PROVE  DInv'
  <1>1. PICK e \in Input : /\ e.at \in Hardware
                           /\ inputs' = Append(inputs, e)
                           /\ made' = Append(made, e)
    BY DEF DeviceInput
  <1>2. /\ UNCHANGED <<gridVars, daemonVars, link, requests, before, arrived>>
        /\ link = "up" /\ Len(made) < MaxInputs /\ Running
    BY DEF DeviceInput
  <1>3. /\ inputs \in Seq(Input) /\ made \in Seq(Input) /\ GridTypeOK
        /\ Len(inputs) <= Len(made)
        /\ inputs = SubSeq(made, Len(made) - Len(inputs) + 1, Len(made))
    BY <1>2 DEF DInv, TypeOK, InputsWait
  <1>4. /\ Len(made) \in Nat /\ Len(inputs) \in Nat
        /\ Len(made') = Len(made) + 1 /\ Len(inputs') = Len(inputs) + 1
        /\ made' \in Seq(Input) /\ inputs' \in Seq(Input)
        /\ \A i \in 1..Len(made) : made'[i] = made[i]
        /\ made'[Len(made) + 1] = e
    BY <1>1, <1>3
  <1>5. TypeOK'
    <2>1. GridTypeOK'
      BY <1>2, <1>3 DEF gridVars, outputVars, GridTypeOK, Hardware
    <2>. QED  BY <1>2, <1>4, <2>1, DaemonAssumption DEF DInv, TypeOK, daemonVars
  <1>6. InputsWait'
    <2>. DEFINE n == Len(made) - Len(inputs)
    <2>1. n \in 0..Len(made) /\ inputs = SubSeq(made, n + 1, Len(made))
      BY <1>3, <1>4
    <2>2. SubSeq(made', n + 1, Len(made')) = inputs \o <<e>>
      BY <1>1, <1>3, <2>1, LeftGrows
    <2>3. inputs' = inputs \o <<e>>
      BY <1>1, <1>3, AppendIsConcat
    <2>4. Len(made') - Len(inputs') = n
      BY <1>4
    <2>. QED  BY <1>2, <1>3, <1>4, <2>2, <2>3, <2>4 DEF InputsWait
  <1>7. KeysOnGrid'
    BY <1>1, <1>2, <1>3, <1>4 DEF DInv, KeysOnGrid, gridVars, Hardware
  <1>8. PressesAreForwarded'
    <2>1. \A n \in 0..Len(made) : KeysAmong(n, made') = KeysAmong(n, made)
      BY <1>1, <1>3, KeysAmongStays
    <2>2. UNCHANGED <<grid, rotation, presses, link, before>>
      BY <1>2 DEF gridVars, daemonVars
    <2>3. Len(made') - Len(inputs') \in 0..Len(made)
          /\ Len(made') - Len(inputs') = Len(made) - Len(inputs)
      BY <1>3, <1>4
    <2>4. Len(presses) = KeysAmong(Len(made) - Len(inputs), made)
      BY <1>2 DEF DInv, PressesAreForwarded
    <2>5. \A n \in 1..Len(presses) : \E i \in DOMAIN made :
            /\ made[i].type # "TILT" /\ KeysAmong(i, made) = n
            /\ presses[n].type = made[i].type
            /\ output_cb(rotation, grid.cols, grid.rows, presses[n].at) = made[i].at
      BY <1>2 DEF DInv, PressesAreForwarded
    <2>6. ASSUME NEW n \in 1..Len(presses)
          PROVE  \E i \in DOMAIN made' :
            /\ made'[i].type # "TILT" /\ KeysAmong(i, made') = n
            /\ presses[n].type = made'[i].type
            /\ output_cb(rotation, grid.cols, grid.rows, presses[n].at) = made'[i].at
      <3>1. PICK i \in DOMAIN made :
            /\ made[i].type # "TILT" /\ KeysAmong(i, made) = n
            /\ presses[n].type = made[i].type
            /\ output_cb(rotation, grid.cols, grid.rows, presses[n].at) = made[i].at
        BY <2>5
      <3>2. i \in 1..Len(made) /\ DOMAIN made' = 1 .. Len(made) + 1
        BY <1>3, <1>4
      <3>. QED  BY <1>4, <2>1, <3>1, <3>2
    <2>. QED  BY <1>2, <2>1, <2>2, <2>3, <2>4, <2>6 DEF PressesAreForwarded
  <1>9. NothingBefore' /\ HangupIsReal' /\ EndsWhenUnplugged'
    BY <1>2 DEF DInv, NothingBefore, HangupIsReal, EndsWhenUnplugged, daemonVars, Running
  <1>. QED  BY <1>5, <1>6, <1>7, <1>8, <1>9 DEF DInv

(* Whatever the daemon and the program draw, the inputs stay. *)
LEMMA DrawingKeepsDInv ==
    ASSUME DInv, CallIsSound \/ UNCHANGED outputVars,
           UNCHANGED <<grid, rotation, calls, client, revents, presses,
                       failedPolls, link, inputs, made, before, arrived>>,
           requests' \in Seq(Requests),
           \/ pc = "clear" /\ pc' = "poll"
           \/ pc = "osc" /\ pc' = "poll"
    PROVE  DInv'
  <1>1. GridTypeOK'
    BY SoundCallKeepsTypes DEF DInv, TypeOK, GridTypeOK
  <1>2. TypeOK'
    BY <1>1 DEF DInv, TypeOK
  <1>3. NothingBefore' /\ HangupIsReal' /\ EndsWhenUnplugged'
    BY DEF DInv, NothingBefore, HangupIsReal, EndsWhenUnplugged
  <1>. QED  BY <1>2, <1>3, ForwardedStays DEF DInv

(* One message is taken from the socket. *)
LEMMA ReceiveKeepsDInv ==
    ASSUME DInv, Receive
    PROVE  DInv' /\ (CallIsSound \/ UNCHANGED outputVars)
  <1>1. GridTypeOK /\ requests \in Seq(Requests)
    BY DEF DInv, TypeOK
  <1>2. CASE "POLLIN" \in revents.osc /\ requests # <<>>
    <2>1. Head(requests) \in Requests /\ Tail(requests) \in Seq(Requests)
      BY <1>1, <1>2
    <2>2. Serve(Head(requests)) /\ requests' = Tail(requests)
      BY <1>2 DEF Receive
    <2>3. CallIsSound \/ UNCHANGED outputVars
      BY <1>1, <2>1, <2>2, ServeIsSound
    <2>. QED  BY <2>1, <2>2, <2>3, DrawingKeepsDInv DEF Receive
  <1>3. CASE ~("POLLIN" \in revents.osc /\ requests # <<>>)
    BY <1>1, <1>3, DrawingKeepsDInv DEF Receive
  <1>. QED  BY <1>2, <1>3

LEMMA ClearKeepsDInv ==
    ASSUME DInv, Clear
    PROVE  DInv' /\ CallIsSound
  <1>1. CallIsSound
    BY LedAllIsSound DEF Clear, DInv, TypeOK
  <1>. QED  BY <1>1, DrawingKeepsDInv DEF Clear, DInv, TypeOK, worldVars

(* The rotation is set before the first input. *)
LEMMA StartKeepsDInv ==
    ASSUME DInv, Start
    PROVE  DInv'
  <1>1. rotation' \in Rotations
    <2>1. rotation' = rotation \/ \E arg \in Rotated : rotation' = RotationOf(arg)
      BY DEF Start
    <2>. QED  BY <2>1, RotationOfInRange, CallsAssumption DEF DInv, TypeOK, GridTypeOK
  <1>2. /\ UNCHANGED <<grid, outputVars, calls, client, revents, presses,
                       failedPolls, worldVars>>
        /\ pc = "start" /\ pc' \in {"failed", "clear"}
    BY DEF Start
  <1>3. GridTypeOK'
    BY <1>1, <1>2, SoundCallKeepsTypes DEF DInv, TypeOK, GridTypeOK
  <1>4. TypeOK'
    BY <1>2, <1>3 DEF DInv, TypeOK, worldVars
  <1>5. NothingBefore' /\ HangupIsReal' /\ EndsWhenUnplugged'
    BY <1>2 DEF DInv, NothingBefore, HangupIsReal, EndsWhenUnplugged, worldVars
  <1>6. presses = <<>> /\ made = <<>> /\ inputs = <<>> /\ link = "up"
    BY <1>2 DEF DInv, NothingBefore
  <1>7. presses' = <<>> /\ made' = <<>> /\ inputs' = <<>> /\ link' = "up"
    BY <1>2, <1>6 DEF worldVars
  <1>8. InputsWait' /\ KeysOnGrid' /\ PressesAreForwarded'
    BY <1>7, NoInput DEF InputsWait, KeysOnGrid, PressesAreForwarded
  <1>. QED  BY <1>4, <1>5, <1>8 DEF DInv

(* A program that uses the library itself makes no inputs. *)
LEMMA ProgramKeepsDInv ==
    ASSUME DInv, client = "program", ProgramCalls, UNCHANGED <<daemonVars, worldVars>>
    PROVE  DInv' /\ (CallIsSound \/ UNCHANGED outputVars)
  <1>1. GridTypeOK' /\ (CallIsSound \/ UNCHANGED outputVars)
    BY ProgramCallIsSound DEF DInv, TypeOK
  <1>2. TypeOK'
    BY <1>1 DEF DInv, TypeOK, daemonVars, worldVars
  <1>3. NothingBefore' /\ HangupIsReal' /\ EndsWhenUnplugged'
    BY DEF DInv, NothingBefore, HangupIsReal, EndsWhenUnplugged, daemonVars, worldVars
  <1>4. presses = <<>> /\ made = <<>> /\ inputs = <<>> /\ link = "up"
    BY DEF DInv, NothingBefore
  <1>5. presses' = <<>> /\ made' = <<>> /\ inputs' = <<>> /\ link' = "up"
    BY <1>4 DEF daemonVars, worldVars
  <1>6. InputsWait' /\ KeysOnGrid' /\ PressesAreForwarded'
    BY <1>5, NoInput DEF InputsWait, KeysOnGrid, PressesAreForwarded
  <1>. QED  BY <1>1, <1>2, <1>3, <1>6 DEF DInv

(* poll() and the look at what it reported. *)
LEMMA PollKeepsDInv ==
    ASSUME DInv, Poll \/ PollFails \/ Check
    PROVE  DInv'
  <1>1. /\ UNCHANGED <<gridVars, client, presses, worldVars>>
        /\ pc \in {"poll", "check"} /\ pc' \in {"check", "device", "done"}
        /\ revents' \in {revents, Reported}
        /\ pc' = "done" => "POLLHUP" \in revents.device
        /\ failedPolls' \in 0..MaxFailedPolls
    BY DaemonAssumption DEF Poll, PollFails, Check, DInv, TypeOK
  <1>2. UNCHANGED <<grid, rotation, outputVars, calls, link, inputs, requests,
                    made, before, arrived>>
    BY <1>1 DEF gridVars, worldVars
  <1>3. GridTypeOK'
    BY <1>2, SoundCallKeepsTypes DEF DInv, TypeOK, GridTypeOK
  <1>4. Reported \in Ready /\ ("POLLHUP" \in Reported.device => link = "down")
    BY DEF Reported, Ready
  <1>5. TypeOK'
    BY <1>1, <1>2, <1>3, <1>4 DEF DInv, TypeOK
  <1>6. NothingBefore' /\ HangupIsReal' /\ EndsWhenUnplugged'
    BY <1>1, <1>2, <1>4 DEF DInv, NothingBefore, HangupIsReal, EndsWhenUnplugged
  <1>. QED  BY <1>1, <1>2, <1>5, <1>6, ForwardedStays DEF DInv

LEMMA RequestKeepsDInv ==
    ASSUME DInv, RequestArrives
    PROVE  DInv'
  <1>1. /\ UNCHANGED <<gridVars, daemonVars, link, inputs, made, before>>
        /\ arrived' = arrived + 1 /\ arrived < MaxRequests
        /\ \E r \in Requests : requests' = Append(requests, r)
    BY DEF RequestArrives
  <1>2. UNCHANGED <<grid, rotation, outputVars, calls, presses, client, pc,
                    revents, failedPolls>>
    BY <1>1 DEF gridVars, daemonVars
  <1>3. GridTypeOK'
    BY <1>2, SoundCallKeepsTypes DEF DInv, TypeOK, GridTypeOK
  <1>4. requests' \in Seq(Requests) /\ arrived' \in 0..MaxRequests
    BY <1>1, DaemonAssumption DEF DInv, TypeOK
  <1>5. TypeOK'
    BY <1>1, <1>2, <1>3, <1>4 DEF DInv, TypeOK
  <1>6. NothingBefore' /\ HangupIsReal' /\ EndsWhenUnplugged'
    BY <1>1, <1>2 DEF DInv, NothingBefore, HangupIsReal, EndsWhenUnplugged
  <1>. QED  BY <1>1, <1>2, <1>5, <1>6, ForwardedStays DEF DInv

(* What was sent before the unplugging stays sent. *)
LEMMA UnplugKeepsDInv ==
    ASSUME DInv, Unplug
    PROVE  DInv'
  <1>1. /\ UNCHANGED <<gridVars, daemonVars, requests, made, arrived>>
        /\ link = "up" /\ link' = "down" /\ Running
        /\ inputs' = <<>> /\ before' = Len(presses)
    BY DEF Unplug
  <1>2. UNCHANGED <<grid, rotation, outputVars, calls, presses, client, pc,
                    revents, failedPolls>>
    BY <1>1 DEF gridVars, daemonVars
  <1>3. GridTypeOK'
    BY <1>2, SoundCallKeepsTypes DEF DInv, TypeOK, GridTypeOK
  <1>4. TypeOK'
    <2>1. Len(presses) \in 0..Len(presses)
      BY DEF DInv, TypeOK
    <2>. QED  BY <1>1, <1>2, <1>3, <2>1 DEF DInv, TypeOK
  <1>5. NothingBefore' /\ HangupIsReal' /\ EndsWhenUnplugged'
    BY <1>1, <1>2 DEF DInv, NothingBefore, HangupIsReal, EndsWhenUnplugged, Running
  <1>6. InputsWait' /\ KeysOnGrid'
    <2>1. Len(made) \in Nat
      BY DEF DInv, TypeOK
    <2>. QED  BY <1>1, <1>2, <2>1 DEF DInv, InputsWait, KeysOnGrid, Hardware
  <1>7. PressesAreForwarded'
    BY <1>1, <1>2 DEF DInv, PressesAreForwarded
  <1>. QED  BY <1>4, <1>5, <1>6, <1>7 DEF DInv

(* One more press was sent; those before the unplugging stay. *)
LEMMA PressesGrow ==
    ASSUME DInv, NEW p \in [type : {"DOWN", "UP"}, at : Nat \X Nat],
           presses' = Append(presses, p)
    PROVE  /\ presses' \in Seq([type : {"DOWN", "UP"}, at : Nat \X Nat])
           /\ Len(presses') = Len(presses) + 1
           /\ \A n \in 1..Len(presses) : presses'[n] = presses[n]
           /\ presses'[Len(presses) + 1] = p
           /\ before \in 0..Len(presses')
  <1>1. /\ presses \in Seq([type : {"DOWN", "UP"}, at : Nat \X Nat])
        /\ before \in 0..Len(presses)
    BY DEF DInv, TypeOK
  <1>. QED  BY <1>1

(* The oldest input is read: a key is sent on, a tilt is dropped. *)
LEMMA ReadInputKeepsDInv ==
    ASSUME DInv, pc = "device", pc' = "osc", inputs # <<>>,
           inputs' = Tail(inputs),
           presses' = IF Head(inputs).type \notin Registered THEN presses
                      ELSE Append(presses, monome_handle_press(Head(inputs))),
           UNCHANGED <<gridVars, client, revents, failedPolls, link, requests,
                       made, before, arrived>>
    PROVE  DInv'
  <1>. DEFINE taken == Len(made) - Len(inputs)
              e == Head(inputs)
  <1>1. link = "up"
    BY DEF DInv, InputsWait, TypeOK
  <1>2. /\ inputs \in Seq(Input) /\ made \in Seq(Input) /\ GridTypeOK
        /\ Len(inputs) \in Nat \ {0} /\ Len(made) \in Nat
        /\ Len(inputs) <= Len(made)
        /\ inputs = SubSeq(made, taken + 1, Len(made))
    BY <1>1 DEF DInv, TypeOK, InputsWait
  <1>3. taken \in 0 .. Len(made) - 1 /\ taken + 1 \in 1 .. Len(made)
    BY <1>2
  <1>4. e = made[taken + 1] /\ e \in Input
    <2>1. inputs[1] = made[taken + 1]
      BY <1>2, <1>3
    <2>. QED  BY <1>2, <2>1
  <1>5. e.at \in Hardware
    BY <1>2, <1>3, <1>4 DEF DInv, KeysOnGrid
  <1>6. e.at \in Nat \X Nat /\ e.type \in {"DOWN", "UP", "TILT"}
    BY <1>4, DaemonAssumption DEF Input
  <1>7. /\ Len(inputs') = Len(inputs) - 1 /\ inputs' \in Seq(Input)
        /\ Len(made) - Len(inputs') = taken + 1
    BY <1>2
  <1>. HIDE DEF e, taken
  <1>8. UNCHANGED <<grid, rotation, outputVars, calls>>
    BY DEF gridVars
  <1>9. GridTypeOK'
    BY <1>2, <1>8, SoundCallKeepsTypes DEF GridTypeOK
  <1>10. InputsWait'
    <2>1. taken \in 0..Len(made) /\ Tail(inputs) = SubSeq(made, taken + 1 + 1, Len(made))
      BY <1>2, <1>3, WhatIsLeft
    <2>2. inputs' = SubSeq(made, taken + 1 + 1, Len(made))
      BY <2>1, Zenon
    <2>3. Len(inputs') <= Len(made)
      BY <1>2, <1>7
    <2>4. inputs' = SubSeq(made, Len(made) - Len(inputs') + 1, Len(made))
      BY <1>7, <2>2
    <2>. QED  BY <1>1, <2>3, <2>4 DEF InputsWait
  <1>11. KeysOnGrid'
    BY <1>8 DEF DInv, KeysOnGrid, Hardware
  <1>12. NothingBefore' /\ HangupIsReal' /\ EndsWhenUnplugged'
    BY DEF DInv, NothingBefore, HangupIsReal, EndsWhenUnplugged
  <1>13. /\ KeysAmong(taken, made) = Len(presses)
         /\ KeysAmong(taken + 1, made) =
              IF e.type # "TILT" THEN Len(presses) + 1 ELSE Len(presses)
    <2>1. KeysAmong(taken, made) = Len(presses)
      BY <1>1 DEF DInv, PressesAreForwarded, taken
    <2>2. taken \in Nat
      BY <1>3
    <2>3. KeysAmong(taken + 1, made) =
            IF made[taken + 1].type # "TILT" THEN KeysAmong(taken, made) + 1
                                             ELSE KeysAmong(taken, made)
      BY <2>2, OneMoreInput
    <2>. QED  BY <1>4, <2>1, <2>3
  <1>14. \A n \in 1..Len(presses) : \E i \in DOMAIN made :
            /\ made[i].type # "TILT" /\ KeysAmong(i, made) = n
            /\ presses[n].type = made[i].type
            /\ output_cb(rotation, grid.cols, grid.rows, presses[n].at) = made[i].at
    BY <1>1 DEF DInv, PressesAreForwarded
  <1>15. CASE e.type = "TILT"
    <2>1. presses' = presses
      BY <1>15 DEF Registered, e
    <2>2. TypeOK'
      BY <1>7, <1>9, <2>1 DEF DInv, TypeOK
    <2>3. PressesAreForwarded'
      BY <1>1, <1>7, <1>8, <1>13, <1>14, <1>15, <2>1 DEF PressesAreForwarded
    <2>. QED  BY <1>10, <1>11, <1>12, <2>2, <2>3 DEF DInv
  <1>16. CASE e.type # "TILT"
    <2>. DEFINE p == monome_handle_press(e)
    <2>1. presses' = Append(presses, p)
      BY <1>6, <1>16 DEF Registered, e
    <2>2. /\ p \in [type : {"DOWN", "UP"}, at : Nat \X Nat] /\ p.type = e.type
          /\ output_cb(rotation, grid.cols, grid.rows, p.at) = e.at
      BY <1>2, <1>5, <1>6, <1>16, PressIsTranslated
    <2>. HIDE DEF p
    <2>3. /\ presses' \in Seq([type : {"DOWN", "UP"}, at : Nat \X Nat])
          /\ Len(presses') = Len(presses) + 1
          /\ \A n \in 1..Len(presses) : presses'[n] = presses[n]
          /\ presses'[Len(presses) + 1] = p
          /\ before \in 0..Len(presses')
      BY <2>1, <2>2, PressesGrow
    <2>4. TypeOK'
      BY <1>7, <1>9, <2>3 DEF DInv, TypeOK
    <2>5. ASSUME NEW n \in 1..Len(presses')
          PROVE  \E i \in DOMAIN made :
                    /\ made[i].type # "TILT" /\ KeysAmong(i, made) = n
                    /\ presses'[n].type = made[i].type
                    /\ output_cb(rotation, grid.cols, grid.rows, presses'[n].at)
                          = made[i].at
      <3>. Len(presses) \in Nat
        BY DEF DInv, TypeOK
      <3>1. CASE n \in 1..Len(presses)
        BY <1>14, <2>3, <3>1
      <3>2. CASE n = Len(presses) + 1
        <4>1. taken + 1 \in DOMAIN made
          BY <1>2, <1>3
        <4>. QED  BY <1>4, <1>13, <1>16, <2>2, <2>3, <3>2, <4>1
      <3>3. n \in 1..Len(presses) \/ n = Len(presses) + 1
        BY <2>3
      <3>. QED  BY <3>1, <3>2, <3>3
    <2>6. PressesAreForwarded'
      BY <1>1, <1>7, <1>8, <1>13, <1>16, <2>3, <2>5 DEF PressesAreForwarded
    <2>. QED  BY <1>10, <1>11, <1>12, <2>4, <2>6 DEF DInv
  <1>. QED  BY <1>15, <1>16

(* A read that fails once the device is gone may send a key that is none.   *)
LEMMA ReadNothingKeepsDInv ==
    ASSUME DInv, pc = "device", pc' = "osc", UNCHANGED inputs,
           \/ UNCHANGED presses
           \/ /\ link = "down"
              /\ presses' = Append(presses, monome_handle_press(EmptyMessage)),
           UNCHANGED <<gridVars, client, revents, failedPolls, link, requests,
                       made, before, arrived>>
    PROVE  DInv'
  <1>1. UNCHANGED <<grid, rotation, outputVars, calls>>
    BY DEF gridVars
  <1>2. GridTypeOK'
    BY <1>1, SoundCallKeepsTypes DEF DInv, TypeOK, GridTypeOK
  <1>3. NothingBefore' /\ HangupIsReal' /\ EndsWhenUnplugged'
    BY DEF DInv, NothingBefore, HangupIsReal, EndsWhenUnplugged
  <1>4. CASE UNCHANGED presses
    <2>1. TypeOK'
      BY <1>2, <1>4 DEF DInv, TypeOK
    <2>. QED  BY <1>1, <1>3, <1>4, <2>1, ForwardedStays DEF DInv
  <1>5. CASE link = "down" /\ presses' = Append(presses, monome_handle_press(EmptyMessage))
    <2>. DEFINE p == monome_handle_press(EmptyMessage)
    <2>1. EmptyMessage.at \in Nat \X Nat /\ EmptyMessage.type \in {"DOWN", "UP"}
      BY DEF EmptyMessage
    <2>2. p \in [type : {"DOWN", "UP"}, at : Nat \X Nat]
      BY <2>1, PressIsTranslated DEF DInv, TypeOK
    <2>. HIDE DEF p
    <2>3. /\ presses' \in Seq([type : {"DOWN", "UP"}, at : Nat \X Nat])
          /\ \A n \in 1..Len(presses) : presses'[n] = presses[n]
          /\ before \in 0..Len(presses')
      BY <1>5, <2>2, PressesGrow DEF p
    <2>4. TypeOK'
      BY <1>2, <2>3 DEF DInv, TypeOK
    <2>5. InputsWait' /\ KeysOnGrid'
      BY <1>1 DEF DInv, InputsWait, KeysOnGrid, Hardware
    <2>6. PressesAreForwarded'
      <3>1. before \in 0..Len(presses) /\ Len(presses) \in Nat
        BY DEF DInv, TypeOK
      <3>2. \A n \in 1..before : presses'[n] = presses[n]
        BY <2>3, <3>1
      <3>. QED  BY <1>1, <1>5, <3>2 DEF DInv, PressesAreForwarded
    <2>. QED  BY <1>3, <2>4, <2>5, <2>6 DEF DInv
  <1>. QED  BY <1>4, <1>5

LEMMA ReadDeviceKeepsDInv ==
    ASSUME DInv, ReadDevice
    PROVE  DInv'
  <1>1. CASE "POLLIN" \notin revents.device
    BY <1>1, ReadNothingKeepsDInv DEF ReadDevice
  <1>2. CASE "POLLIN" \in revents.device /\ inputs # <<>>
    BY <1>2, ReadInputKeepsDInv DEF ReadDevice
  <1>3. CASE "POLLIN" \in revents.device /\ inputs = <<>>
    BY <1>3, ReadNothingKeepsDInv DEF ReadDevice
  <1>. QED  BY <1>1, <1>2, <1>3

(* Nothing happens. *)
LEMMA StutterKeepsDInv ==
    ASSUME DInv, UNCHANGED vars
    PROVE  DInv'
  <1>1. UNCHANGED <<grid, rotation, outputVars, calls, daemonVars, worldVars>>
    BY DEF vars, gridVars
  <1>2. GridTypeOK'
    BY <1>1, SoundCallKeepsTypes DEF DInv, TypeOK, GridTypeOK
  <1>3. TypeOK'
    BY <1>1, <1>2 DEF DInv, TypeOK, daemonVars, worldVars
  <1>4. NothingBefore' /\ HangupIsReal' /\ EndsWhenUnplugged'
    BY <1>1 DEF DInv, NothingBefore, HangupIsReal, EndsWhenUnplugged,
                daemonVars, worldVars
  <1>. QED  BY <1>1, <1>3, <1>4, ForwardedStays DEF DInv, daemonVars, worldVars

(* Every step keeps the invariant, and every step that draws is a sound     *)
(* call.                                                                    *)
LEMMA NextKeepsDInv ==
    ASSUME DInv, [Next]_vars
    PROVE  DInv' /\ (CallIsSound \/ UNCHANGED outputVars)
  <1>1. CASE client = "program" /\ ProgramCalls /\ UNCHANGED <<daemonVars, worldVars>>
    BY <1>1, ProgramKeepsDInv
  <1>2. CASE Start
    BY <1>2, StartKeepsDInv DEF Start
  <1>3. CASE Clear
    BY <1>3, ClearKeepsDInv
  <1>4. CASE Poll \/ PollFails \/ Check
    <2>1. UNCHANGED outputVars
      BY <1>4 DEF Poll, PollFails, Check, gridVars
    <2>. QED  BY <1>4, <2>1, PollKeepsDInv
  <1>5. CASE ReadDevice
    <2>1. UNCHANGED outputVars
      BY <1>5 DEF ReadDevice, gridVars
    <2>. QED  BY <1>5, <2>1, ReadDeviceKeepsDInv
  <1>6. CASE Receive
    BY <1>6, ReceiveKeepsDInv
  <1>7. CASE DeviceInput
    <2>1. UNCHANGED outputVars
      BY <1>7 DEF DeviceInput, gridVars
    <2>. QED  BY <1>7, <2>1, DeviceInputKeepsDInv
  <1>8. CASE RequestArrives
    <2>1. UNCHANGED outputVars
      BY <1>8 DEF RequestArrives, gridVars
    <2>. QED  BY <1>8, <2>1, RequestKeepsDInv
  <1>9. CASE Unplug
    <2>1. UNCHANGED outputVars
      BY <1>9 DEF Unplug, gridVars
    <2>. QED  BY <1>9, <2>1, UnplugKeepsDInv
  <1>10. CASE UNCHANGED vars
    <2>1. UNCHANGED outputVars
      BY <1>10 DEF vars, gridVars
    <2>. QED  BY <1>10, <2>1, StutterKeepsDInv
  <1>. QED  BY <1>1, <1>2, <1>3, <1>4, <1>5, <1>6, <1>7, <1>8, <1>9, <1>10
            DEF Next, Daemon

LEMMA DInvariance == Spec => []DInv
  <1>1. Init => DInv
    BY InitDInv
  <1>2. DInv /\ [Next]_vars => DInv'
    BY NextKeepsDInv
  <1>. QED  BY <1>1, <1>2, PTL DEF Spec

-----------------------------------------------------------------------------
(* Every variable has its type: results, LEDs, sensors and messages are     *)
(* what the source's types allow, whatever fails.                           *)
THEOREM DaemonTypes == Spec => []TypeOK
  <1>1. DInv => TypeOK
    BY DEF DInv
  <1>. QED  BY <1>1, DInvariance, PTL

(* The daemon sends every press once and in order, with coordinates that    *)
(* lead back to its key, however it is turned and however often poll()      *)
(* fails, until the device is unplugged.                                    *)
THEOREM PressesReachTheNetwork == Spec => []PressesAreForwarded
  <1>1. DInv => PressesAreForwarded
    BY DEF DInv
  <1>. QED  BY <1>1, DInvariance, PTL

(* Once it runs, the daemon ends for no other reason than a device that was *)
(* unplugged.                                                               *)
THEOREM OnlyUnpluggingEnds == Spec => []EndsWhenUnplugged
  <1>1. DInv => EndsWhenUnplugged
    BY DEF DInv
  <1>. QED  BY <1>1, DInvariance, PTL

(* A function whose result is not negative wrote all of its messages, but   *)
(* for the 40h's monome_led_all().                                          *)
THEOREM FailuresAreReported == Spec => OnlyAllHidesItsFailure
  <1>. DEFINE Told == result' >= 0 /\ (lost' > 0 \/ torn' # torn) =>
                         ~Series /\ result' = 2 * Section
  <1>1. DInv /\ [Next]_vars => [Told]_outputVars
    BY NextKeepsDInv DEF CallIsSound
  <1>. QED  BY <1>1, DInvariance, PTL DEF Spec, OnlyAllHidesItsFailure

-----------------------------------------------------------------------------
(* Places of the grid                                                       *)

(* How long a side of a device is: one section or two. *)
Length == {Section, 2 * Section}

(* Counting from the other end. *)
LEMMA FromTheOtherEnd ==
    ASSUME NEW n \in Length, NEW i \in 0 .. n - 1
    PROVE  Sub(n - 1, i) = n - 1 - i /\ n - 1 - i \in 0 .. n - 1
  <1>1. n \in 1..UintRange
    BY GridsAssumption, UintAssumption DEF Length
  <1>. QED  BY <1>1, Mirror

(* Which byte a place is in, and where. *)
LEMMA PlaceInByte ==
    ASSUME NEW i \in 0 .. 2 * Section - 1
    PROVE  /\ i \div Section = IF i < Section THEN 0 ELSE 1
           /\ i % Section = IF i < Section THEN i ELSE i - Section
  <1>1. Section \in 2..8
    BY GridsAssumption
  <1>2. CASE Section = 2 BY <1>2
  <1>3. CASE Section = 3 BY <1>3
  <1>4. CASE Section = 4 BY <1>4
  <1>5. CASE Section = 5 BY <1>5
  <1>6. CASE Section = 6 BY <1>6
  <1>7. CASE Section = 7 BY <1>7
  <1>8. CASE Section = 8 BY <1>8
  <1>. QED  BY <1>1, <1>2, <1>3, <1>4, <1>5, <1>6, <1>7, <1>8

(* A place left of the first, in numbers of 32 bits: it is in a quadrant     *)
(* that no device has.                                                      *)
LEMMA WrappedPlace ==
    ASSUME UintRange % (4 * Section) = 0
    PROVE  Sub(Section - 1, Section) \div Section % 4 = 3
  <1>1. Section \in 2..8 /\ UintRange \in Nat \ {0}
    BY GridsAssumption, UintAssumption
  <1>0. Sub(Section - 1, Section) = (-1) % UintRange
    BY <1>1 DEF Sub
  <1>00. (-1) % UintRange = UintRange - 1
    BY <1>1
  <1>2. CASE Section = 2 BY <1>1, <1>2, <1>0, <1>00
  <1>3. CASE Section = 3 BY <1>1, <1>3, <1>0, <1>00
  <1>4. CASE Section = 4 BY <1>1, <1>4, <1>0, <1>00
  <1>5. CASE Section = 5 BY <1>1, <1>5, <1>0, <1>00
  <1>6. CASE Section = 6 BY <1>1, <1>6, <1>0, <1>00
  <1>7. CASE Section = 7 BY <1>1, <1>7, <1>0, <1>00
  <1>8. CASE Section = 8 BY <1>1, <1>8, <1>0, <1>00
  <1>. QED  BY <1>1, <1>2, <1>3, <1>4, <1>5, <1>6, <1>7, <1>8

(* The LEDs of a section are those in the quadrant of its corner. *)
LEMMA SectionAlongAxis ==
    ASSUME UintRange % (4 * Section) = 0,
           NEW n \in Length, NEW x \in {0, Section}, NEW i \in 0 .. n - 1
    PROVE  /\ x \div Section \in {0, 1}
           /\ i \in x .. x + Section - 1 <=> i \div Section = x \div Section
           /\ i \in x .. x + Section - 1 => i % Section = i - x
           /\ \/ Sub(n - 1, x) \div Section \in {0, 1}
              \/ Sub(n - 1, x) \div Section % 4 = 3 /\ n = Section
           /\ i \in x .. x + Section - 1 <=>
                (n - 1 - i) \div Section = (Sub(n - 1, x) \div Section) % 4
           /\ i \in x .. x + Section - 1 =>
                (n - 1 - i) % Section = Section - 1 - (i - x)
  <1>1. Section \in 2..8
    BY GridsAssumption
  <1>2. n - 1 - i \in 0 .. 2 * Section - 1 /\ i \in 0 .. 2 * Section - 1
    BY <1>1 DEF Length
  <1>3. /\ i \div Section = IF i < Section THEN 0 ELSE 1
        /\ i % Section = IF i < Section THEN i ELSE i - Section
        /\ (n - 1 - i) \div Section = IF n - 1 - i < Section THEN 0 ELSE 1
        /\ (n - 1 - i) % Section =
              IF n - 1 - i < Section THEN n - 1 - i ELSE n - 1 - i - Section
    BY <1>2, PlaceInByte
  <1>4. x \div Section = IF x = 0 THEN 0 ELSE 1
    <2>1. x \in 0 .. 2 * Section - 1
      BY <1>1
    <2>. QED  BY <2>1, <1>1, PlaceInByte
  <1>5. CASE x \in 0 .. n - 1
    <2>1. Sub(n - 1, x) = n - 1 - x /\ n - 1 - x \in 0 .. 2 * Section - 1
      BY <1>1, <1>5, FromTheOtherEnd DEF Length
    <2>2. (n - 1 - x) \div Section = IF n - 1 - x < Section THEN 0 ELSE 1
      BY <2>1, PlaceInByte
    <2>. QED  BY <1>1, <1>3, <1>4, <1>5, <2>1, <2>2 DEF Length
  <1>6. CASE x \notin 0 .. n - 1
    <2>1. n = Section /\ x = Section
      BY <1>1, <1>6 DEF Length
    <2>2. Sub(n - 1, x) \div Section % 4 = 3
      BY <2>1, WrappedPlace
    <2>. QED  BY <1>1, <1>3, <1>4, <2>1, <2>2
  <1>. QED  BY <1>5, <1>6

(* The byte and bit of a place in a line that is sent as it is, or reversed. *)
LEMMA BitsAlongAxis ==
    ASSUME NEW n \in Length, NEW i \in 0 .. n - 1, NEW bytes,
           DOMAIN bytes = 1 .. n \div Section, Len(bytes) = n \div Section,
           \A b \in DOMAIN bytes : bytes[b] \subseteq 0 .. Section - 1
    PROVE  /\ i \div Section + 1 \in DOMAIN bytes
           /\ (n - 1 - i) \div Section + 1 \in DOMAIN bytes
           /\ Len(Reversed(bytes)) = Len(bytes)
           /\ (n - 1 - i) % Section \in Reversed(bytes)[(n - 1 - i) \div Section + 1]
                <=> i % Section \in bytes[i \div Section + 1]
  <1>1. Section \in 2..8
    BY GridsAssumption
  <1>2. n - 1 - i \in 0 .. 2 * Section - 1 /\ i \in 0 .. 2 * Section - 1
    BY <1>1 DEF Length
  <1>3. /\ i \div Section = IF i < Section THEN 0 ELSE 1
        /\ i % Section = IF i < Section THEN i ELSE i - Section
        /\ (n - 1 - i) \div Section = IF n - 1 - i < Section THEN 0 ELSE 1
        /\ (n - 1 - i) % Section =
              IF n - 1 - i < Section THEN n - 1 - i ELSE n - 1 - i - Section
    BY <1>2, PlaceInByte
  <1>4. \A byte, k : byte \subseteq 0 .. Section - 1 /\ k \in 0 .. Section - 1 =>
           (Section - 1 - k \in REVERSE_BYTE(byte) <=> k \in byte)
    BY <1>1 DEF REVERSE_BYTE
  <1>5. CASE n = Section
    <2>1. n \div Section = 1
      <3>1. Section \in 0 .. 2 * Section - 1
        BY <1>1
      <3>. QED  BY <3>1, <1>5, <1>1, PlaceInByte
    <2>2. /\ DOMAIN bytes = 1..1 /\ Len(Reversed(bytes)) = 1
          /\ Reversed(bytes)[1] = REVERSE_BYTE(bytes[1])
      BY <2>1 DEF Reversed, Reverse
    <2>3. /\ i \div Section = 0 /\ (n - 1 - i) \div Section = 0
          /\ i % Section = i /\ (n - 1 - i) % Section = Section - 1 - i
      BY <1>1, <1>3, <1>5
    <2>4. 1 \in DOMAIN bytes /\ bytes[1] \subseteq 0 .. Section - 1 /\ i \in 0 .. Section - 1
      BY <1>5, <2>2
    <2>5. Section - 1 - i \in REVERSE_BYTE(bytes[1]) <=> i \in bytes[1]
      BY <1>4, <2>4
    <2>. QED  BY <2>1, <2>2, <2>3, <2>4, <2>5
  <1>6. CASE n = 2 * Section
    <2>1. n \div Section = 2
      <3>1. \/ Section = 2 \/ Section = 3 \/ Section = 4 \/ Section = 5
            \/ Section = 6 \/ Section = 7 \/ Section = 8
        BY <1>1
      <3>. QED  BY <3>1, <1>6
    <2>2. /\ DOMAIN bytes = 1..2 /\ Len(Reversed(bytes)) = 2
          /\ Reversed(bytes)[1] = REVERSE_BYTE(bytes[2])
          /\ Reversed(bytes)[2] = REVERSE_BYTE(bytes[1])
      BY <2>1 DEF Reversed, Reverse
    <2>3. CASE i < Section
      <3>1. /\ i \div Section = 0 /\ (n - 1 - i) \div Section = 1
            /\ i % Section = i /\ (n - 1 - i) % Section = Section - 1 - i
        BY <1>1, <1>3, <1>6, <2>3
      <3>2. 1 \in DOMAIN bytes /\ bytes[1] \subseteq 0 .. Section - 1 /\ i \in 0 .. Section - 1
        BY <1>1, <1>6, <2>2, <2>3
      <3>3. Section - 1 - i \in REVERSE_BYTE(bytes[1]) <=> i \in bytes[1]
        BY <1>4, <3>2
      <3>. QED  BY <2>1, <2>2, <3>1, <3>2, <3>3
    <2>4. CASE i >= Section
      <3>1. /\ i \div Section = 1 /\ (n - 1 - i) \div Section = 0
            /\ i % Section = i - Section
            /\ (n - 1 - i) % Section = Section - 1 - (i - Section)
            /\ i - Section \in 0 .. Section - 1
        BY <1>1, <1>3, <1>6, <2>4
      <3>2. 2 \in DOMAIN bytes /\ bytes[2] \subseteq 0 .. Section - 1
        <4>1. DOMAIN bytes = 1..2
          BY <2>1, Zenon
        <4>2. 2 \in 1..2
          OBVIOUS
        <4>. QED  BY <4>1, <4>2, Zenon
      <3>3. Section - 1 - (i - Section) \in REVERSE_BYTE(bytes[2]) <=> i - Section \in bytes[2]
        BY <1>4, <3>1, <3>2
      <3>. QED  BY <2>1, <2>2, <3>1, <3>2, <3>3
    <2>. QED  BY <1>1, <1>6, <2>3, <2>4
  <1>. QED  BY <1>5, <1>6 DEF Length

(* The LED of the hardware that a place of the application is, and all the  *)
(* places of the application.                                               *)
Place(p) == output_cb(rotation, grid.cols, grid.rows, p)
Logical == LogicalGrid(rotation, grid.cols, grid.rows)

(* A message draws the pictures of pics whose indices are in parts, in      *)
(* place of what its LEDs showed.                                           *)
Draws(m, pics, parts) ==
    /\ \A p \in Logical :
         Place(p) \in About(m) <=> \E i \in parts : p \in DOMAIN pics[i]
    /\ \A p \in Logical, i \in parts : p \in DOMAIN pics[i] =>
         pics[i][p] = OnOff(TurnsOn(m, Place(p)))

(* GridFrame counts as this module does. *)
LEMMA SameCardinality ==
    ASSUME NEW g, NEW S
    PROVE  Promise(g)!Cardinality(S) = Cardinality(S)
  BY Zenon DEF Cardinality, Promise!Cardinality

(* Every place of the application is an LED of the hardware. *)
LEMMA PlaceIsOnHardware ==
    ASSUME GridTypeOK, NEW p \in Logical
    PROVE  Place(p) \in Hardware
  BY SizesFit, OutputStaysInside DEF GridTypeOK, Place, Logical, Hardware

(* What GridFrame calls drawing, in terms of LEDs. *)
LEMMA DrawnOver ==
    ASSUME NEW g, g = grid, UNCHANGED <<grid, rotation, brightness>>,
           NEW pics, NEW drawn \in SUBSET DOMAIN pics,
           lost' = Cardinality(DOMAIN pics \ drawn),
           \A p \in Logical :
             \/ /\ \A i \in drawn : p \notin DOMAIN pics[i]
                /\ Place(p) \in lit' <=> Place(p) \in lit
             \/ /\ \E i \in drawn : p \in DOMAIN pics[i]
                /\ \A i \in drawn : p \in DOMAIN pics[i] =>
                      pics[i][p] = OnOff(Place(p) \in lit')
    PROVE  Promise(g)!Draw(pics)
  <1>. DEFINE Over(p) == {i \in drawn : p \in DOMAIN pics[i]}
  <1>1. /\ Frame = [p \in Logical |-> OnOff(Place(p) \in lit)]
        /\ Frame' = [p \in Logical |-> OnOff(Place(p) \in lit')]
        /\ DOMAIN Frame = Logical
    BY DEF Frame, Logical, Place
  <1>2. \A p \in Logical :
          Frame'[p] = IF Over(p) = {} THEN Frame[p]
                      ELSE pics[CHOOSE i \in Over(p) : TRUE][p]
    <2>. SUFFICES ASSUME NEW p \in Logical
                  PROVE  Frame'[p] = IF Over(p) = {} THEN Frame[p]
                            ELSE pics[CHOOSE i \in Over(p) : TRUE][p]
      OBVIOUS
    <2>1. Frame'[p] = OnOff(Place(p) \in lit') /\ Frame[p] = OnOff(Place(p) \in lit)
      BY <1>1
    <2>2. CASE Over(p) = {}
      BY <2>1, <2>2 DEF OnOff
    <2>3. CASE Over(p) # {}
      <3>1. (CHOOSE i \in Over(p) : TRUE) \in Over(p)
        BY <2>3
      <3>. QED  BY <2>1, <2>3, <3>1
    <2>. QED  BY <2>2, <2>3
  <1>3. Frame' = [p \in DOMAIN Frame |->
                    LET over == {i \in drawn : p \in DOMAIN pics[i]}
                    IN IF over = {} THEN Frame[p]
                       ELSE pics[CHOOSE i \in over : TRUE][p]]
    BY <1>1, <1>2
  <1>4. lost' = Promise(g)!Cardinality(DOMAIN pics \ drawn)
    BY SameCardinality, Zenon
  <1>. QED  BY <1>3, <1>4, Zenon DEF Promise!Draw

(* A call of one message, written or not. *)
LEMMA OneMessageDraws ==
    ASSUME GridTypeOK, NEW g, g = grid, UNCHANGED <<grid, rotation>>, ~torn',
           NEW m, m.cmd \notin {"INTENSITY", "TILT"}, WriteOne(m),
           Sections(m) \in 1..2,
           NEW pics, 1 .. Sections(m) \subseteq DOMAIN pics,
           Draws(m, pics, 1 .. Sections(m)),
           \A i \in DOMAIN pics \ (1 .. Sections(m)), p \in Logical :
              p \notin DOMAIN pics[i]
    PROVE  Promise(g)!Draw(pics)
  <1>. DEFINE parts == 1 .. Sections(m)
  <1>1. PICK written \in SUBSET {1} : MonomeWrite(<<m>>, written)
    BY DEF WriteOne
  <1>2. DOMAIN <<m>> = {1} /\ <<m>>[1] = m
    OBVIOUS
  <1>3. lit' = Shown(<<m>>, written) /\ UNCHANGED brightness
    <2>1. {i \in written : <<m>>[i].cmd = "INTENSITY"} = {}
      BY <1>2
    <2>2. Dimmed(<<m>>, written) = brightness
      BY <2>1 DEF Dimmed
    <2>. QED  BY <1>1, <2>2 DEF MonomeWrite
  <1>4. ASSUME NEW p \in Logical
        PROVE  Place(p) \in lit' <=> IF written = {1} /\ Place(p) \in About(m)
                                     THEN TurnsOn(m, Place(p)) ELSE Place(p) \in lit
    <2>. DEFINE about == {i \in written : Place(p) \in About(<<m>>[i])}
    <2>1. Place(p) \in lit' <=>
            IF about = {} THEN Place(p) \in lit
                          ELSE TurnsOn(<<m>>[Max(about)], Place(p))
      BY <1>3, PlaceIsOnHardware DEF Shown
    <2>2. CASE written = {1} /\ Place(p) \in About(m)
      <3>1. about = {1}
        BY <1>2, <2>2
      <3>2. Max({1}) = 1
        BY DEF Max
      <3>. QED  BY <1>2, <2>1, <2>2, <3>1, <3>2
    <2>3. CASE ~(written = {1} /\ Place(p) \in About(m))
      <3>1. about = {}
        BY <1>2, <2>3
      <3>. QED  BY <2>1, <2>3, <3>1
    <2>. QED  BY <2>2, <2>3
  <1>5. CASE written = {1}
    <2>1. lost' = Cardinality(DOMAIN pics \ DOMAIN pics)
      <3>1. {1} \ written = {} /\ DOMAIN pics \ DOMAIN pics = {}
        BY <1>5
      <3>. QED  BY <1>1, <1>2, <3>1 DEF MonomeWrite
    <2>2. ASSUME NEW p \in Logical
          PROVE  \/ /\ \A i \in DOMAIN pics : p \notin DOMAIN pics[i]
                    /\ Place(p) \in lit' <=> Place(p) \in lit
                 \/ /\ \E i \in DOMAIN pics : p \in DOMAIN pics[i]
                    /\ \A i \in DOMAIN pics : p \in DOMAIN pics[i] =>
                          pics[i][p] = OnOff(Place(p) \in lit')
      <3>1. CASE Place(p) \in About(m)
        <4>1. \E i \in parts : p \in DOMAIN pics[i]
          BY <3>1 DEF Draws
        <4>2. \A i \in DOMAIN pics : p \in DOMAIN pics[i] => i \in parts
          OBVIOUS
        <4>3. \A i \in parts : p \in DOMAIN pics[i] =>
                pics[i][p] = OnOff(TurnsOn(m, Place(p)))
          BY DEF Draws
        <4>4. OnOff(Place(p) \in lit') = OnOff(TurnsOn(m, Place(p)))
          BY <1>4, <1>5, <3>1 DEF OnOff
        <4>5. parts \subseteq DOMAIN pics
          OBVIOUS
        <4>. HIDE DEF parts
        <4>. QED  BY <4>1, <4>2, <4>3, <4>4, <4>5
      <3>2. CASE Place(p) \notin About(m)
        <4>1. \A i \in parts : p \notin DOMAIN pics[i]
          BY <3>2 DEF Draws
        <4>. QED  BY <1>4, <3>2, <4>1
      <3>. QED  BY <3>1, <3>2
    <2>3. DOMAIN pics \in SUBSET DOMAIN pics
      OBVIOUS
    <2>4. UNCHANGED <<grid, rotation, brightness>>
      BY <1>3
    <2>. QED  BY <2>1, <2>2, <2>3, <2>4, DrawnOver
  <1>6. CASE written = {}
    <2>1. lost' = Cardinality(DOMAIN pics \ (DOMAIN pics \ parts))
      <3>1. UNION {{i} \X (1 .. Sections(<<m>>[i])) : i \in {1} \ written}
              = {1} \X parts
        BY <1>2, <1>6
      <3>2. lost' = Cardinality({1} \X parts)
        BY <1>1, <1>2, <3>1 DEF MonomeWrite
      <3>3. DOMAIN pics \ (DOMAIN pics \ parts) = parts
        OBVIOUS
      <3>4. Cardinality({1} \X parts) = Cardinality(parts)
        <4>1. IsFiniteSet({1}) /\ Cardinality({1}) = 1
          BY FS_Singleton
        <4>2. IsFiniteSet(parts) /\ Cardinality(parts) \in Nat
          <5>1. 1 \in Int /\ Sections(m) \in Int
            OBVIOUS
          <5>. QED  BY <5>1, FS_Interval, FS_CardinalityType, Zenon
        <4>3. Cardinality({1} \X parts) = Cardinality({1}) * Cardinality(parts)
          BY <4>1, <4>2, FS_Product, Zenon
        <4>. QED  BY <4>1, <4>2, <4>3
      <3>. QED  BY <3>2, <3>3, <3>4
    <2>. QED  BY <1>3, <1>4, <1>6, <2>1, DrawnOver DEF Draws
  <1>. QED  BY <1>5, <1>6

-----------------------------------------------------------------------------
(* Single LEDs                                                              *)

(* Where the places of the application are, in each of the four rotations. *)
LEMMA PlaceIs ==
    ASSUME GridTypeOK, NEW p \in Logical
    PROVE  /\ grid.cols \in Length /\ grid.rows \in Length
           /\ width \in Length /\ height \in Length
           /\ p = <<p[1], p[2]>>
           /\ p[1] \in 0 .. width - 1 /\ p[2] \in 0 .. height - 1
           /\ width - 1 - p[1] \in 0 .. width - 1
           /\ height - 1 - p[2] \in 0 .. height - 1
           /\ rotation = 0 =>
                /\ width = grid.cols /\ height = grid.rows
                /\ Place(p) = <<p[1], p[2]>>
           /\ rotation = 1 =>
                /\ width = grid.rows /\ height = grid.cols
                /\ Place(p) = <<p[2], width - 1 - p[1]>>
           /\ rotation = 2 =>
                /\ width = grid.cols /\ height = grid.rows
                /\ Place(p) = <<width - 1 - p[1], height - 1 - p[2]>>
           /\ rotation = 3 =>
                /\ width = grid.rows /\ height = grid.cols
                /\ Place(p) = <<height - 1 - p[2], p[1]>>
  <1>1. grid.cols \in Length /\ grid.rows \in Length /\ rotation \in 0..3
    BY GridsAssumption DEF GridTypeOK, Length, Rotations
  <1>2. width \in Length /\ height \in Length
    BY <1>1 DEF width, height, monome_get_cols, monome_get_rows
  <1>3. p \in (0 .. width - 1) \X (0 .. height - 1)
    BY DEF Logical, LogicalGrid, width, height
  <1>4. /\ p = <<p[1], p[2]>>
        /\ p[1] \in 0 .. width - 1 /\ p[2] \in 0 .. height - 1
    BY <1>3
  <1>5. /\ Sub(width - 1, p[1]) = width - 1 - p[1]
        /\ width - 1 - p[1] \in 0 .. width - 1
        /\ Sub(height - 1, p[2]) = height - 1 - p[2]
        /\ height - 1 - p[2] \in 0 .. height - 1
    BY <1>2, <1>4, FromTheOtherEnd
  <1>6. rotation \in {0, 2} => width = grid.cols /\ height = grid.rows
    BY DEF width, height, monome_get_cols, monome_get_rows, ROW_COL_SWAP
  <1>7. rotation \in {1, 3} => width = grid.rows /\ height = grid.cols
    BY DEF width, height, monome_get_cols, monome_get_rows, ROW_COL_SWAP
  <1>8. Place(p) = CASE rotation = 0 -> p
                     [] rotation = 1 -> <<p[2], Sub(width - 1, p[1])>>
                     [] rotation = 2 -> <<Sub(width - 1, p[1]), Sub(height - 1, p[2])>>
                     [] rotation = 3 -> <<Sub(height - 1, p[2]), p[1]>>
    BY DEF Place, output_cb, width, height, r90_output_cb, r180_output_cb, r270_output_cb
  <1>9. /\ rotation = 0 => Place(p) = p
        /\ rotation = 1 => Place(p) = <<p[2], width - 1 - p[1]>>
        /\ rotation = 2 => Place(p) = <<width - 1 - p[1], height - 1 - p[2]>>
        /\ rotation = 3 => Place(p) = <<height - 1 - p[2], p[1]>>
    BY <1>5, <1>8
  <1>. QED  BY <1>1, <1>2, <1>4, <1>5, <1>6, <1>7, <1>9

(* No two places of the application are the same LED. *)
LEMMA PlacesDiffer ==
    ASSUME GridTypeOK, NEW p \in Logical, NEW q \in Logical, Place(p) = Place(q)
    PROVE  p = q
  <1>1. rotation \in 0..3 /\ width \in Int /\ height \in Int
    BY PlaceIs, GridsAssumption DEF GridTypeOK, Rotations, Length
  <1>3. p[1] \in Int /\ q[1] \in Int /\ p[2] \in Int /\ q[2] \in Int
    BY PlaceIs
  <1>2. p[1] = q[1] /\ p[2] = q[2]
    <2>1. CASE rotation = 0
      BY <2>1, PlaceIs
    <2>2. CASE rotation = 1
      <3>1. <<p[2], width - 1 - p[1]>> = <<q[2], width - 1 - q[1]>>
        BY <2>2, PlaceIs
      <3>. QED  BY <1>1, <1>3, <3>1
    <2>3. CASE rotation = 2
      <3>1. <<width - 1 - p[1], height - 1 - p[2]>>
              = <<width - 1 - q[1], height - 1 - q[2]>>
        BY <2>3, PlaceIs
      <3>. QED  BY <1>1, <1>3, <3>1
    <2>4. CASE rotation = 3
      <3>1. <<height - 1 - p[2], p[1]>> = <<height - 1 - q[2], q[1]>>
        BY <2>4, PlaceIs
      <3>. QED  BY <1>1, <1>3, <3>1
    <2>. QED  BY <1>1, <2>1, <2>2, <2>3, <2>4
  <1>. QED  BY <1>2, PlaceIs

(* What the 40h protocol packs into half a byte comes out again, if the     *)
(* other half is zero.                                                      *)
LEMMA OrOfLow ==
    ASSUME NEW a \in 0..15
    PROVE  Or4(a, 0) = a
  BY DEF Or4

(* The message of led_set() names the LED that its place is. *)
LEMMA SetMessage ==
    ASSUME GridTypeOK, NEW p \in Logical, NEW on
    PROVE  /\ Series => proto_series_led_set(p[1], p[2], on).at = Place(p)
           /\ ~Series => proto_40h_led_set(p[1], p[2], on).at = Place(p)
  <1>1. Section \in 2..8 /\ grid \in Grids
    BY GridsAssumption DEF GridTypeOK
  <1>2. PICK i \in 0 .. grid.cols - 1, j \in 0 .. grid.rows - 1 : Place(p) = <<i, j>>
    BY PlaceIsOnHardware DEF Hardware, HardwareGrid
  <1>3. ROTATE_COORDS(p[1], p[2]) = <<i, j>>
    BY <1>2, PlaceIs DEF ROTATE_COORDS, Place
  <1>4. i \in 0..15 /\ j \in 0..15
    BY <1>1, GridsAssumption
  <1>5. CASE Series
    <2>1. j \div 16 = 0 /\ j % 16 = j
      BY <1>4
    <2>2. Or4(i, j \div 16) = i
      BY <1>4, <2>1, OrOfLow
    <2>. QED  BY <1>2, <1>3, <1>5, <2>1, <2>2 DEF proto_series_led_set, Msg
  <1>6. CASE ~Series
    <2>1. i \in 0 .. Section - 1 /\ j \in 0 .. Section - 1
      BY <1>1, <1>6, GridsAssumption DEF Series
    <2>2. i % Section = i /\ j % Section = j
      BY <1>1, <2>1, PlaceInByte
    <2>. QED  BY <1>2, <1>3, <1>6, <2>2 DEF proto_40h_led_set, Msg
  <1>. QED  BY <1>5, <1>6

(* monome_led_set() sets the LED it is asked for, and no other. *)
LEMMA LedSetDraws ==
    ASSUME GridTypeOK, NEW g, g = grid, UNCHANGED <<grid, rotation>>, ~torn',
           NEW x \in 0 .. width - 1, NEW y \in 0 .. height - 1, NEW on \in {0, 1},
           monome_led_set(x, y, on)
    PROVE  Promise(g)!SetTo(<<x, y>>, OnOff(on = 1))
  <1>. DEFINE p == <<x, y>>
              pics == << [q \in {p} |-> OnOff(on = 1)] >>
              m == IF Series THEN proto_series_led_set(x, y, on)
                             ELSE proto_40h_led_set(x, y, on)
  <1>1. p \in Logical /\ p[1] = x /\ p[2] = y
    BY DEF Logical, LogicalGrid, width, height
  <1>2. /\ m.cmd = IF on = 0 THEN "LED_OFF" ELSE "LED_ON"
        /\ m.at = Place(p)
        /\ WriteOne(m)
    BY <1>1, SetMessage DEF monome_led_set, proto_series_led_set, proto_40h_led_set, Msg
  <1>. HIDE DEF m
  <1>3. About(m) = {Place(p)} /\ Sections(m) = 1
    BY <1>2 DEF About, Sections
  <1>4. TurnsOn(m, Place(p)) <=> on = 1
    <2>1. CASE on = 0
      <3>1. m.cmd = "LED_OFF"
        BY <1>2, <2>1
      <3>2. ~TurnsOn(m, Place(p))
        BY <3>1 DEF TurnsOn
      <3>. QED  BY <2>1, <3>2
    <2>2. CASE on = 1
      <3>1. m.cmd = "LED_ON"
        BY <1>2, <2>2
      <3>2. TurnsOn(m, Place(p))
        BY <3>1 DEF TurnsOn
      <3>. QED  BY <2>2, <3>2
    <2>. QED  BY <2>1, <2>2
  <1>5. \A i \in 1..1 : DOMAIN pics[i] = {p} /\ pics[i][p] = OnOff(on = 1)
    OBVIOUS
  <1>6. DOMAIN pics = 1..1
    OBVIOUS
  <1>. HIDE DEF pics, p
  <1>7. Draws(m, pics, 1 .. Sections(m))
    <2>1. \A q \in Logical : Place(q) \in About(m) <=> q = p
      BY <1>1, <1>3, PlacesDiffer
    <2>2. OnOff(TurnsOn(m, Place(p))) = OnOff(on = 1)
      BY <1>4 DEF OnOff
    <2>3. 1 .. Sections(m) = {1} /\ DOMAIN pics[1] = {p} /\ pics[1][p] = OnOff(on = 1)
      BY <1>3, <1>5
    <2>. QED  BY <2>1, <2>2, <2>3 DEF Draws
  <1>8. Promise(g)!Draw(pics)
    <2>1. m.cmd \notin {"INTENSITY", "TILT"} /\ Sections(m) \in 1..2
      BY <1>2, <1>3
    <2>2. DOMAIN pics \ (1 .. Sections(m)) = {} /\ 1 .. Sections(m) \subseteq DOMAIN pics
      BY <1>3, <1>6
    <2>. QED  BY <1>2, <1>7, <2>1, <2>2, OneMessageDraws
  <1>. QED  BY <1>8 DEF Promise!SetTo, pics, p

-----------------------------------------------------------------------------
(* Lines of the grid                                                        *)

(* The sections of a line. *)
LEMMA SectionsOfLine ==
    ASSUME NEW n \in Length
    PROVE  /\ n \div Section \in 1..2 /\ Section * (n \div Section) = n
           /\ \A a \in 0 .. n - 1 : a \div Section + 1 \in 1 .. n \div Section
           /\ \A a \in 0 .. n - 1, s \in Nat \ {0} :
                a \in 0 + Section * (s - 1) .. 0 + Section * s - 1
                  <=> s = a \div Section + 1
  <1>1. Section \in 2..8 /\ (n = Section \/ n = 2 * Section)
    BY GridsAssumption DEF Length
  <1>2. CASE Section = 2 BY <1>1, <1>2
  <1>3. CASE Section = 3 BY <1>1, <1>3
  <1>4. CASE Section = 4 BY <1>1, <1>4
  <1>5. CASE Section = 5 BY <1>1, <1>5
  <1>6. CASE Section = 6 BY <1>1, <1>6
  <1>7. CASE Section = 7 BY <1>1, <1>7
  <1>8. CASE Section = 8 BY <1>1, <1>8
  <1>. QED  BY <1>1, <1>2, <1>3, <1>4, <1>5, <1>6, <1>7, <1>8

(* The pictures of which GridFrame draws a row, or a column, one for each   *)
(* group of levels.                                                         *)
RowPictures(y, levels) ==
    [s \in 1 .. Len(levels) \div Section |->
        [p \in (0 + Section * (s - 1) .. 0 + Section * s - 1) \X {y} |->
            levels[p[1] - 0 + 1]]]

ColPictures(x, levels) ==
    [s \in 1 .. Len(levels) \div Section |->
        [p \in {x} \X (0 + Section * (s - 1) .. 0 + Section * s - 1) |->
            levels[p[2] - 0 + 1]]]

(* Rows and columns alike: how long they are and how many there are, the    *)
(* place along a line and the line it is on.                                *)
Modes == {"ROW", "COL"}
Long(mode) == IF mode = "ROW" THEN width ELSE height
Many(mode) == IF mode = "ROW" THEN height ELSE width
Along(mode, p) == IF mode = "ROW" THEN p[1] ELSE p[2]
Across(mode, p) == IF mode = "ROW" THEN p[2] ELSE p[1]

(* Are bits, or lines, counted from the other end? *)
Backwards(mode) == rotation \in (IF mode = "ROW" THEN ROW_REVBITS ELSE COL_REVBITS)
Opposite(mode) == rotation \in (IF mode = "ROW" THEN {2, 3} ELSE {1, 2})

(* The same for a line of either kind. *)
Pictures(mode, line, levels) == IF mode = "ROW" THEN RowPictures(line, levels)
                                                ELSE ColPictures(line, levels)

(* Where a place lies on the line it is on, before and after the rotation,  *)
(* as the functions for rows and columns have it.                           *)
LEMMA PlaceOnLine ==
    ASSUME GridTypeOK, NEW mode \in Modes, NEW p \in Logical
    PROVE  /\ Long(mode) \in Length /\ Long(mode) \in Int /\ Many(mode) \in Int
           /\ Crossed(mode) \in Modes
           /\ Along(mode, p) \in 0 .. Long(mode) - 1
           /\ Across(mode, p) \in 0 .. Many(mode) - 1
           /\ Along(Crossed(mode), Place(p)) =
                IF Backwards(mode) THEN Long(mode) - 1 - Along(mode, p)
                                   ELSE Along(mode, p)
           /\ Across(Crossed(mode), Place(p)) =
                IF Opposite(mode) THEN Many(mode) - 1 - Across(mode, p)
                                  ELSE Across(mode, p)
           /\ Place(p) = <<Place(p)[1], Place(p)[2]>>
  <1>1. rotation \in 0..3 /\ Section \in 2..8
    BY GridsAssumption DEF GridTypeOK, Rotations
  <1>2. /\ width \in Length /\ height \in Length /\ width \in Int /\ height \in Int
        /\ p[1] \in 0 .. width - 1 /\ p[2] \in 0 .. height - 1
    BY <1>1, PlaceIs DEF Length
  <1>3. /\ Long(mode) \in Length /\ Long(mode) \in Int /\ Many(mode) \in Int
        /\ Along(mode, p) \in 0 .. Long(mode) - 1
        /\ Across(mode, p) \in 0 .. Many(mode) - 1
    BY <1>2 DEF Modes, Long, Many, Along, Across
  <1>4. CASE rotation \in {0, 2}
    <2>1. Crossed(mode) = mode
      BY <1>4 DEF Crossed, Swapped, ROW_COL_SWAP
    <2>2. Place(p) = IF rotation = 0 THEN <<p[1], p[2]>>
                     ELSE <<width - 1 - p[1], height - 1 - p[2]>>
      BY <1>4, PlaceIs
    <2>3. /\ Backwards(mode) <=> rotation = 2
          /\ Opposite(mode) <=> rotation = 2
      BY <1>4 DEF Backwards, Opposite, Modes, ROW_REVBITS, COL_REVBITS
    <2>4. CASE rotation = 0
      <3>1. Place(p) = <<p[1], p[2]>>
        BY <2>2, <2>4
      <3>2. /\ Along(mode, Place(p)) = Along(mode, p)
            /\ Across(mode, Place(p)) = Across(mode, p)
        BY <3>1 DEF Along, Across
      <3>. QED  BY <1>3, <2>1, <2>3, <2>4, <3>1, <3>2
    <2>5. CASE rotation = 2
      <3>1. Place(p) = <<width - 1 - p[1], height - 1 - p[2]>>
        BY <2>2, <2>5
      <3>2. /\ Along(mode, Place(p)) = Long(mode) - 1 - Along(mode, p)
            /\ Across(mode, Place(p)) = Many(mode) - 1 - Across(mode, p)
        BY <3>1 DEF Modes, Long, Many, Along, Across
      <3>. QED  BY <1>3, <2>1, <2>3, <2>5, <3>1, <3>2
    <2>. QED  BY <1>4, <2>4, <2>5
  <1>5. CASE rotation \in {1, 3}
    <2>1. Crossed(mode) = IF mode = "ROW" THEN "COL" ELSE "ROW"
      BY <1>5 DEF Crossed, Swapped, ROW_COL_SWAP
    <2>2. Place(p) = IF rotation = 1 THEN <<p[2], width - 1 - p[1]>>
                     ELSE <<height - 1 - p[2], p[1]>>
      BY <1>5, PlaceIs
    <2>3. /\ Backwards(mode) <=> (rotation = 1 <=> mode = "ROW")
          /\ Opposite(mode) <=> (rotation = 1 <=> mode = "COL")
      BY <1>5 DEF Backwards, Opposite, Modes, ROW_REVBITS, COL_REVBITS
    <2>. QED  BY <1>3, <1>5, <2>1, <2>2, <2>3 DEF Modes, Long, Many, Along, Across
  <1>. QED  BY <1>1, <1>4, <1>5

(* The bytes used of a row on a grid that is n places long. *)
Bytes(used, n) ==
    /\ DOMAIN used = 1 .. n \div Section /\ Len(used) = n \div Section
    /\ \A b \in DOMAIN used : used[b] \subseteq 0 .. Section - 1

(* A place is in the picture of its section, if it is on the line.          *)
PicturesInOrder(mode, line, levels, pics) ==
    \A p \in Logical, s \in 1 .. Len(levels) \div Section :
       /\ p \in DOMAIN pics[s] <=>
             Across(mode, p) = line /\ s = Along(mode, p) \div Section + 1
       /\ p \in DOMAIN pics[s] => pics[s][p] = levels[Along(mode, p) + 1]

(* The pictures of a line are in order, one for each section. *)
LEMMA PictureOfPlace ==
    ASSUME GridTypeOK, NEW mode \in Modes, NEW line, NEW levels
    PROVE  PicturesInOrder(mode, line, levels, Pictures(mode, line, levels))
  <1>. DEFINE pics == Pictures(mode, line, levels)
  <1>. SUFFICES ASSUME NEW p \in Logical, NEW s \in 1 .. Len(levels) \div Section
                PROVE  /\ p \in DOMAIN pics[s] <=>
                             Across(mode, p) = line /\ s = Along(mode, p) \div Section + 1
                       /\ p \in DOMAIN pics[s] => pics[s][p] = levels[Along(mode, p) + 1]
    BY DEF PicturesInOrder
  <1>1. Long(mode) \in Length
    BY PlaceOnLine
  <1>2. /\ p = <<p[1], p[2]>> /\ Along(mode, p) \in 0 .. Long(mode) - 1
        /\ p[1] \in Int /\ p[2] \in Int
    BY PlaceIs, PlaceOnLine
  <1>3. Along(mode, p) \in 0 + Section * (s - 1) .. 0 + Section * s - 1
          <=> s = Along(mode, p) \div Section + 1
    <2>1. s \in Nat \ {0}
      OBVIOUS
    <2>. QED  BY <1>1, <1>2, <2>1, SectionsOfLine
  <1>6. CASE mode = "ROW"
    <2>1. pics[s] = [q \in (0 + Section * (s - 1) .. 0 + Section * s - 1) \X {line} |->
                        levels[q[1] - 0 + 1]]
      BY <1>6 DEF Pictures, RowPictures
    <2>2. p[1] - 0 + 1 = p[1] + 1
      BY <1>2
    <2>. QED  BY <1>2, <1>3, <1>6, <2>1, <2>2 DEF Along, Across
  <1>7. CASE mode = "COL"
    <2>1. pics[s] = [q \in {line} \X (0 + Section * (s - 1) .. 0 + Section * s - 1) |->
                        levels[q[2] - 0 + 1]]
      BY <1>7 DEF Pictures, ColPictures
    <2>2. p[2] - 0 + 1 = p[2] + 1
      BY <1>2
    <2>. QED  BY <1>2, <1>3, <1>7, <2>1, <2>2 DEF Along, Across
  <1>. QED  BY <1>6, <1>7 DEF Modes

(* A message of a row or column, wherever it lies on the hardware. *)
LEMMA LineDraws ==
    ASSUME GridTypeOK, NEW mode \in Modes, NEW line \in 0 .. Many(mode) - 1,
           NEW used, Bytes(used, Long(mode)),
           NEW m, m.cmd = Crossed(mode), m.data = BytesSent(mode, used),
           m.at = IF Opposite(mode) THEN Many(mode) - 1 - line ELSE line,
           NEW levels, Len(levels) \div Section \in Nat,
           Len(levels) \div Section >= Long(mode) \div Section,
           \A i \in 0 .. Long(mode) - 1 :
              levels[i + 1] = OnOff(i % Section \in used[i \div Section + 1])
    PROVE  LET pics == Pictures(mode, line, levels)
               L == Long(mode) \div Section
           IN  /\ Sections(m) = L
               /\ Draws(m, pics, 1 .. L)
               /\ \A i \in DOMAIN pics \ (1 .. L), p \in Logical :
                     p \notin DOMAIN pics[i]
  <1>. DEFINE pics == Pictures(mode, line, levels)
              L == Long(mode) \div Section
              K == Len(levels) \div Section
  <1>1. Section \in 2..8 /\ Long(mode) \in Length /\ Many(mode) \in Int
    <2>1. Section \in 2..8 /\ grid.cols \in Length /\ grid.rows \in Length
      BY GridsAssumption DEF GridTypeOK, Length
    <2>2. width \in Length /\ height \in Length
      BY <2>1 DEF width, height, monome_get_cols, monome_get_rows
    <2>. QED  BY <2>1, <2>2 DEF Length, Long, Many
  <1>2. L \in 1..2 /\ Section * L = Long(mode)
    BY <1>1, SectionsOfLine
  <1>3. Len(m.data) = L
    <2>1. Len(Reversed(used)) = L
      <3>1. 0 \in 0 .. Long(mode) - 1
        BY <1>1 DEF Length
      <3>. QED  BY <1>1, <3>1, BitsAlongAxis DEF Bytes
    <2>. QED  BY <2>1 DEF BytesSent, Bytes
  <1>4. m.cmd \in Modes
    BY DEF Crossed, Modes
  <1>5. Sections(m) = L
    BY <1>3, <1>4 DEF Sections, Modes
  <1>6. DOMAIN pics = 1 .. K
    BY DEF Pictures, RowPictures, ColPictures
  <1>7. ASSUME NEW p \in Logical, NEW s \in 1 .. K
        PROVE  /\ p \in DOMAIN pics[s] <=>
                    Across(mode, p) = line /\ s = Along(mode, p) \div Section + 1
               /\ p \in DOMAIN pics[s] => pics[s][p] = levels[Along(mode, p) + 1]
    <2>1. PicturesInOrder(mode, line, levels, pics)
      BY PictureOfPlace
    <2>. HIDE DEF pics
    <2>. QED  BY <2>1 DEF PicturesInOrder
  <1>8. ASSUME NEW p \in Logical
        PROVE  Along(mode, p) \div Section + 1 \in 1 .. L
    BY <1>1, PlaceOnLine, SectionsOfLine
  <1>9. ASSUME NEW p \in Logical
        PROVE  Place(p) \in About(m) <=> Across(mode, p) = line
    <2>. DEFINE i == Along(m.cmd, Place(p))
                j == Across(m.cmd, Place(p))
    <2>1. /\ i \in 0 .. Long(mode) - 1
          /\ j = IF Opposite(mode) THEN Many(mode) - 1 - Across(mode, p)
                                   ELSE Across(mode, p)
          /\ Across(mode, p) \in Int /\ line \in Int
          /\ Place(p) = <<Place(p)[1], Place(p)[2]>>
      <3>. DEFINE there == Crossed(mode)
      <3>1. /\ Long(mode) \in Int /\ Many(mode) \in Int
            /\ Along(mode, p) \in 0 .. Long(mode) - 1
            /\ Across(mode, p) \in 0 .. Many(mode) - 1
            /\ Along(there, Place(p)) =
                 IF Backwards(mode) THEN Long(mode) - 1 - Along(mode, p)
                                    ELSE Along(mode, p)
            /\ Across(there, Place(p)) =
                 IF Opposite(mode) THEN Many(mode) - 1 - Across(mode, p)
                                   ELSE Across(mode, p)
            /\ Place(p) = <<Place(p)[1], Place(p)[2]>>
        BY PlaceOnLine
      <3>2. m.cmd = there
        OBVIOUS
      <3>. HIDE DEF there
      <3>. QED  BY <3>1, <3>2
    <2>2. Place(p) \in About(m) <=> i \in 0 .. Long(mode) - 1 /\ j = m.at
      <3>1. CASE m.cmd = "ROW"
        <4>1. About(m) = (0 .. Long(mode) - 1) \X {m.at}
          BY <1>2, <1>3, <3>1 DEF About
        <4>. QED  BY <2>1, <3>1, <4>1 DEF Along, Across
      <3>2. CASE m.cmd = "COL"
        <4>1. About(m) = {m.at} \X (0 .. Long(mode) - 1)
          BY <1>2, <1>3, <3>2 DEF About
        <4>. QED  BY <2>1, <3>2, <4>1 DEF Along, Across
      <3>. QED  BY <1>4, <3>1, <3>2 DEF Modes
    <2>3. j = m.at <=> Across(mode, p) = line
      <3>1. \A n, a, b \in Int : n - 1 - a = n - 1 - b <=> a = b
        OBVIOUS
      <3>2. CASE Opposite(mode)
        <4>1. j = Many(mode) - 1 - Across(mode, p) /\ m.at = Many(mode) - 1 - line
          BY <2>1, <3>2
        <4>2. Many(mode) - 1 - Across(mode, p) = Many(mode) - 1 - line
                <=> Across(mode, p) = line
          BY <1>1, <2>1, <3>1
        <4>. QED  BY <4>1, <4>2
      <3>3. CASE ~Opposite(mode)
        BY <2>1, <3>3
      <3>. QED  BY <3>2, <3>3
    <2>. QED  BY <2>1, <2>2, <2>3
  <1>10. ASSUME NEW p \in Logical
         PROVE  TurnsOn(m, Place(p)) <=>
                  Along(mode, p) % Section \in used[Along(mode, p) \div Section + 1]
    <2>. DEFINE i == Along(mode, p)
                n == Long(mode)
                k == Along(m.cmd, Place(p))
    <2>1. i \in 0 .. n - 1 /\ k = IF Backwards(mode) THEN n - 1 - i ELSE i
      BY PlaceOnLine
    <2>2. (n - 1 - i) % Section \in Reversed(used)[(n - 1 - i) \div Section + 1]
            <=> i % Section \in used[i \div Section + 1]
      BY <1>1, <2>1, BitsAlongAxis DEF Bytes
    <2>3. m.data = IF Backwards(mode) THEN Reversed(used) ELSE used
      BY DEF BytesSent, Backwards
    <2>4. TurnsOn(m, Place(p)) <=> k % Section \in m.data[k \div Section + 1]
      BY <1>4 DEF TurnsOn, Modes, Along
    <2>5. CASE Backwards(mode)
      <3>1. k = n - 1 - i /\ m.data = Reversed(used)
        BY <2>1, <2>3, <2>5
      <3>. QED  BY <2>2, <2>4, <3>1
    <2>6. CASE ~Backwards(mode)
      <3>1. k = i /\ m.data = used
        BY <2>1, <2>3, <2>6
      <3>. QED  BY <2>4, <3>1
    <2>. QED  BY <2>5, <2>6
  <1>11. 1 .. L \subseteq 1 .. K
    BY <1>2
  <1>12. ASSUME NEW p \in Logical, NEW s \in 1 .. L, p \in DOMAIN pics[s]
         PROVE  pics[s][p] = OnOff(TurnsOn(m, Place(p)))
    <2>1. pics[s][p] = levels[Along(mode, p) + 1]
      BY <1>7, <1>11, <1>12
    <2>2. Along(mode, p) \in 0 .. Long(mode) - 1
      BY PlaceOnLine
    <2>. QED  BY <1>10, <2>1, <2>2 DEF OnOff
  <1>. HIDE DEF pics, L, K
  <1>13. Draws(m, pics, 1 .. L)
    BY <1>7, <1>8, <1>9, <1>11, <1>12 DEF Draws
  <1>14. \A i \in DOMAIN pics \ (1 .. L), p \in Logical : p \notin DOMAIN pics[i]
    BY <1>6, <1>7, <1>8
  <1>. QED  BY <1>5, <1>13, <1>14 DEF pics, L

-----------------------------------------------------------------------------
(* The functions for rows and columns                                       *)

(* How large the devices are, from each side. *)
LEMMA SizesIn ==
    ASSUME GridTypeOK
    PROVE  /\ grid \in Grids /\ rotation \in 0..3 /\ Section \in 2..8
           /\ grid.cols \in Length /\ grid.rows \in Length
           /\ width \in Length /\ height \in Length
           /\ width \in {grid.cols, grid.rows} /\ height \in {grid.cols, grid.rows}
           /\ width \in 1..16 /\ height \in 1..16
           /\ ~Series => width = Section /\ height = Section
  <1>1. /\ grid \in Grids /\ rotation \in 0..3 /\ Section \in 2..8
        /\ grid.cols \in Length /\ grid.rows \in Length
        /\ ~Series => grid.cols = Section /\ grid.rows = Section
    BY GridsAssumption DEF GridTypeOK, Rotations, Length, Series
  <1>2. width \in {grid.cols, grid.rows} /\ height \in {grid.cols, grid.rows}
    BY DEF width, height, monome_get_cols, monome_get_rows
  <1>. QED  BY <1>1, <1>2 DEF Length

(* Which line of the hardware a row or column of the application is, as     *)
(* both protocols work it out.                                              *)
LEMMA Address ==
    ASSUME GridTypeOK, NEW mode \in Modes, NEW line \in 0 .. Many(mode) - 1
    PROVE  LET at == IF Opposite(mode) THEN Many(mode) - 1 - line ELSE line
           IN  /\ RowColAddress(mode, line) = at
               /\ ~Series => ROTATE_COORDS(line, line)[IF mode = "ROW" THEN 1 ELSE 2] = at
               /\ at \in 0..15 /\ (~Series => at \in 0 .. Section - 1)
  <1>. DEFINE n == Many(mode)
              at == IF Opposite(mode) THEN n - 1 - line ELSE line
  <1>1. n \in Length /\ n \in 1..16 /\ (~Series => n = Section /\ width = height)
    BY SizesIn DEF Many
  <1>2. Sub(n - 1, line) = n - 1 - line /\ n - 1 - line \in 0 .. n - 1
    BY <1>1, FromTheOtherEnd
  <1>3. at \in 0..15 /\ (~Series => at \in 0 .. Section - 1)
    BY <1>1, <1>2
  <1>4. ROTATE_COORDS(line, line) =
           CASE rotation = 0 -> <<line, line>>
             [] rotation = 1 -> <<line, Sub(width - 1, line)>>
             [] rotation = 2 -> <<Sub(width - 1, line), Sub(height - 1, line)>>
             [] rotation = 3 -> <<Sub(height - 1, line), line>>
    BY DEF ROTATE_COORDS, output_cb, width, height, r90_output_cb, r180_output_cb, r270_output_cb
  <1>5. rotation \in 0..3
    BY SizesIn
  <1>6. CASE mode = "ROW"
    <2>1. n = height /\ (Opposite(mode) <=> rotation \in {2, 3})
      BY <1>6 DEF Many, Opposite
    <2>2. RowColAddress(mode, line) =
            ROTATE_COORDS(line, line)[IF rotation \in {1, 3} THEN 1 ELSE 2]
      BY <1>6 DEF RowColAddress, Swapped, ROW_COL_SWAP
    <2>3. CASE rotation = 0 BY <1>1, <1>2, <1>3, <1>4, <1>6, <2>1, <2>2, <2>3
    <2>4. CASE rotation = 1 BY <1>1, <1>2, <1>3, <1>4, <1>6, <2>1, <2>2, <2>4
    <2>5. CASE rotation = 2 BY <1>1, <1>2, <1>3, <1>4, <1>6, <2>1, <2>2, <2>5
    <2>6. CASE rotation = 3 BY <1>1, <1>2, <1>3, <1>4, <1>6, <2>1, <2>2, <2>6
    <2>. QED  BY <1>5, <2>3, <2>4, <2>5, <2>6
  <1>7. CASE mode = "COL"
    <2>1. n = width /\ (Opposite(mode) <=> rotation \in {1, 2})
      BY <1>7 DEF Many, Opposite
    <2>2. RowColAddress(mode, line) =
            ROTATE_COORDS(line, line)[IF rotation \in {1, 3} THEN 2 ELSE 1]
      BY <1>7 DEF RowColAddress, Swapped, ROW_COL_SWAP
    <2>3. CASE rotation = 0 BY <1>1, <1>2, <1>3, <1>4, <1>7, <2>1, <2>2, <2>3
    <2>4. CASE rotation = 1 BY <1>1, <1>2, <1>3, <1>4, <1>7, <2>1, <2>2, <2>4
    <2>5. CASE rotation = 2 BY <1>1, <1>2, <1>3, <1>4, <1>7, <2>1, <2>2, <2>5
    <2>6. CASE rotation = 3 BY <1>1, <1>2, <1>3, <1>4, <1>7, <2>1, <2>2, <2>6
    <2>. QED  BY <1>5, <2>3, <2>4, <2>5, <2>6
  <1>. QED  BY <1>6, <1>7 DEF Modes

(* The message of a row or column function, for bytes that are at least as  *)
(* many as the line has sections.                                           *)
LineMessage(mode, line, bytes) ==
    IF Series THEN SeriesLine(mode, line, Long(mode), bytes)
              ELSE proto_40h_led_col_row(mode, line, bytes[1])

(* Both protocols send that line, with the bytes they were given in the     *)
(* order of the hardware, and none that the device has no LEDs for.         *)
LEMMA LineMessageIs ==
    ASSUME GridTypeOK, ~BigEndian, NEW mode \in Modes, NEW line \in 0 .. Many(mode) - 1,
           NEW bytes \in Seq(SUBSET (0 .. Section - 1)),
           Long(mode) \div Section <= Len(bytes)
    PROVE  LET m == LineMessage(mode, line, bytes)
           IN  /\ m.cmd = Crossed(mode)
               /\ m.at = IF Opposite(mode) THEN Many(mode) - 1 - line ELSE line
               /\ \E used : /\ Bytes(used, Long(mode))
                            /\ \A b \in DOMAIN used : used[b] = bytes[b]
                            /\ m.data = BytesSent(mode, used)
  <1>. DEFINE m == LineMessage(mode, line, bytes)
              at == IF Opposite(mode) THEN Many(mode) - 1 - line ELSE line
              n == Long(mode)
  <1>1. /\ n \in Length /\ Section \in 2..8 /\ (~Series => n = Section)
        /\ n \div Section \in 1..2 /\ Section * (n \div Section) = n
    <2>1. n \in Length /\ Section \in 2..8 /\ (~Series => n = Section)
      BY SizesIn DEF Long
    <2>. QED  BY <2>1, SectionsOfLine
  <1>2. /\ RowColAddress(mode, line) = at
        /\ ~Series => ROTATE_COORDS(line, line)[IF mode = "ROW" THEN 1 ELSE 2] = at
        /\ at \in 0..15 /\ (~Series => at \in 0 .. Section - 1)
    BY Address
  <1>3. at % 16 = at /\ (~Series => at % Section = at)
    <2>. HIDE DEF at
    <2>1. at % 16 = at
      BY <1>2
    <2>2. ~Series => at % Section = at
      BY <1>1, <1>2, PlaceInByte
    <2>. QED  BY <2>1, <2>2
  <1>4. bytes[1] \subseteq 0 .. Section - 1
    BY <1>1
  <1>5. CASE ~Series
    <2>1. m = Msg(Crossed(mode), at % Section, BytesSent(mode, <<bytes[1]>>))
      BY <1>2, <1>5 DEF LineMessage, proto_40h_led_col_row
    <2>2. Bytes(<<bytes[1]>>, n) /\ \A b \in DOMAIN <<bytes[1]>> : <<bytes[1]>>[b] = bytes[b]
      BY <1>1, <1>4, <1>5 DEF Bytes
    <2>. QED  BY <1>3, <1>5, <2>1, <2>2 DEF Msg
  <1>6. CASE Series /\ n <= Section
    <2>1. m = Msg(Crossed(mode), at % 16, BytesSent(mode, <<bytes[1]>>))
      BY <1>2, <1>6 DEF LineMessage, SeriesLine, proto_series_led_col_row_8
    <2>2. n = Section /\ n \div Section = 1
      BY <1>1, <1>6 DEF Length
    <2>3. Bytes(<<bytes[1]>>, n) /\ \A b \in DOMAIN <<bytes[1]>> : <<bytes[1]>>[b] = bytes[b]
      BY <1>4, <2>2 DEF Bytes
    <2>. QED  BY <1>3, <2>1, <2>3 DEF Msg
  <1>7. CASE Series /\ ~(n <= Section)
    <2>1. n = 2 * Section /\ n \div Section = 2 /\ Len(bytes) > 1 /\ Len(bytes) \in Nat
      <3>1. n = 2 * Section
        BY <1>1, <1>7 DEF Length
      <3>2. n \div Section # 1
        BY <1>1, <3>1
      <3>. QED  BY <1>1, <3>1, <3>2
    <2>2. m = Msg(Crossed(mode), at % 16, BytesSent(mode, SubSeq(bytes, 1, 2)))
      BY <1>2, <1>7, <2>1 DEF LineMessage, SeriesLine, proto_series_led_col_row_16
    <2>. DEFINE used == SubSeq(bytes, 1, 2)
    <2>3. /\ DOMAIN used = 1..2 /\ Len(used) = 2
          /\ \A b \in 1..2 : used[b] = bytes[b] /\ bytes[b] \subseteq 0 .. Section - 1
      BY <2>1
    <2>. HIDE DEF used
    <2>4. Bytes(used, n) /\ \A b \in DOMAIN used : used[b] = bytes[b]
      BY <2>1, <2>3 DEF Bytes
    <2>5. /\ m.cmd = Crossed(mode) /\ m.at = at
          /\ m.data = BytesSent(mode, used)
      BY <1>3, <2>2 DEF Msg, used
    <2>. QED  BY <2>4, <2>5
  <1>. QED  BY <1>5, <1>6, <1>7

(* A row or column function that draws these levels. *)
LEMMA LedLineDraws ==
    ASSUME GridTypeOK, NEW g, g = grid, UNCHANGED <<grid, rotation>>, ~torn',
           ~BigEndian, NEW mode \in Modes, NEW line \in 0 .. Many(mode) - 1,
           NEW bytes \in Seq(SUBSET (0 .. Section - 1)),
           Long(mode) \div Section <= Len(bytes),
           WriteOne(LineMessage(mode, line, bytes)),
           NEW levels, Len(levels) \div Section = Len(bytes),
           \A i \in 0 .. Long(mode) - 1 :
              levels[i + 1] = OnOff(i % Section \in bytes[i \div Section + 1])
    PROVE  Promise(g)!Draw(Pictures(mode, line, levels))
  <1>. DEFINE m == LineMessage(mode, line, bytes)
              pics == Pictures(mode, line, levels)
              L == Long(mode) \div Section
  <1>1. /\ m.cmd = Crossed(mode)
        /\ m.at = IF Opposite(mode) THEN Many(mode) - 1 - line ELSE line
    BY LineMessageIs
  <1>2. PICK used : /\ Bytes(used, Long(mode))
                    /\ \A b \in DOMAIN used : used[b] = bytes[b]
                    /\ m.data = BytesSent(mode, used)
    BY LineMessageIs
  <1>3. Long(mode) \in Length
    BY SizesIn DEF Long
  <1>4. \A i \in 0 .. Long(mode) - 1 :
           levels[i + 1] = OnOff(i % Section \in used[i \div Section + 1])
    BY <1>2, <1>3, SectionsOfLine DEF Bytes
  <1>5. Len(bytes) \in Nat /\ L \in 1..2
    BY <1>3, SectionsOfLine
  <1>. HIDE DEF m
  <1>6. /\ Sections(m) = L
        /\ Draws(m, pics, 1 .. L)
        /\ \A i \in DOMAIN pics \ (1 .. L), p \in Logical : p \notin DOMAIN pics[i]
    <2>1. Len(levels) \div Section \in Nat /\ Len(levels) \div Section >= L
      BY <1>5
    <2>. QED  BY <1>1, <1>2, <1>4, <2>1, LineDraws
  <1>7. DOMAIN pics = 1 .. Len(bytes)
    BY DEF Pictures, RowPictures, ColPictures
  <1>8. m.cmd \notin {"INTENSITY", "TILT"}
    BY <1>1 DEF Crossed, Modes
  <1>. HIDE DEF pics, L
  <1>9. 1 .. Sections(m) \subseteq DOMAIN pics
    BY <1>5, <1>6, <1>7 DEF L
  <1>10. WriteOne(m)
    BY DEF m
  <1>. QED  BY <1>5, <1>6, <1>8, <1>9, <1>10, OneMessageDraws DEF pics

-----------------------------------------------------------------------------
(* Levels                                                                   *)

(* Bytes as levels, one level for each bit. *)
LEMMA LevelsOfBytes ==
    ASSUME NEW g, NEW n \in Length, NEW bytes \in Seq(SUBSET (0 .. Section - 1)),
           n \div Section <= Len(bytes)
    PROVE  LET levels == Promise(g)!OfBytes(bytes)
           IN  /\ Len(levels) \div Section = Len(bytes)
               /\ \A i \in 0 .. n - 1 :
                     levels[i + 1] = OnOff(i % Section \in bytes[i \div Section + 1])
  <1>. DEFINE levels == Promise(g)!OfBytes(bytes)
              k == Len(bytes)
  <1>1. Section \in 2..8 /\ k \in Nat
    BY GridsAssumption
  <1>2. /\ Section * k \in Nat /\ (Section * k) \div Section = k
        /\ n \div Section <= k => n <= Section * k
    <2>1. n = Section * (n \div Section) /\ n \div Section \in 1..2
      BY SectionsOfLine
    <2>. HIDE DEF k
    <2>2. CASE Section = 2 BY <1>1, <2>1, <2>2
    <2>3. CASE Section = 3 BY <1>1, <2>1, <2>3
    <2>4. CASE Section = 4 BY <1>1, <2>1, <2>4
    <2>5. CASE Section = 5 BY <1>1, <2>1, <2>5
    <2>6. CASE Section = 6 BY <1>1, <2>1, <2>6
    <2>7. CASE Section = 7 BY <1>1, <2>1, <2>7
    <2>8. CASE Section = 8 BY <1>1, <2>1, <2>8
    <2>. QED  BY <1>1, <2>2, <2>3, <2>4, <2>5, <2>6, <2>7, <2>8
  <1>3. levels = [i \in 1 .. Section * k |->
                     OnOff((i - 1) % Section \in bytes[(i - 1) \div Section + 1])]
    BY DEF Promise!OfBytes, Promise!OnOff, OnOff
  <1>4. Len(levels) = Section * k
    BY <1>2, <1>3
  <1>5. ASSUME NEW i \in 0 .. n - 1
        PROVE  levels[i + 1] = OnOff(i % Section \in bytes[i \div Section + 1])
    <2>1. n \in Int /\ i + 1 - 1 = i
      BY <1>1 DEF Length
    <2>2. i + 1 \in 1 .. Section * k
      BY <1>2, <2>1
    <2>. HIDE DEF levels
    <2>. QED  BY <1>3, <2>1, <2>2
  <1>. QED  BY <1>2, <1>4, <1>5

(* Levels as bytes, and which of the two each level becomes. *)
LEMMA ReducedLevel ==
    ASSUME NEW level \in Level
    PROVE  reduce_level_to_bit(level) = 1 <=> 2 * level > MaxLevel
  <1>1. MaxLevel \in Nat
    BY GridsAssumption
  <1>. QED  BY <1>1 DEF Level, reduce_level_to_bit

(* The bytes that levels are reduced to hold, bit for bit, which of off and *)
(* full each level is nearest to; a group that is not complete gets none.   *)
LEMMA BytesOfLevels ==
    ASSUME NEW n \in Length, NEW levels \in Seq(Level),
           n \div Section <= Len(levels) \div Section
    PROVE  LET bytes == reduce_levels_to_bitmask(levels)
           IN  /\ bytes \in Seq(SUBSET (0 .. Section - 1))
               /\ Len(bytes) = Len(levels) \div Section
               /\ Len(Nearest(levels)) = Len(levels)
               /\ \A i \in 0 .. n - 1 : Nearest(levels)[i + 1] =
                     OnOff(i % Section \in bytes[i \div Section + 1])
  <1>. DEFINE bytes == reduce_levels_to_bitmask(levels)
              k == Len(levels) \div Section
  <1>1. Section \in 2..8 /\ Len(levels) \in Nat
    BY GridsAssumption
  <1>2. k \in Nat
    BY <1>1
  <1>3. bytes \in Seq(SUBSET (0 .. Section - 1)) /\ Len(bytes) = k
    BY <1>2 DEF reduce_levels_to_bitmask
  <1>4. /\ Len(Nearest(levels)) = Len(levels)
        /\ \A i \in 1 .. Len(levels) : Nearest(levels)[i] = OnOff(2 * levels[i] > MaxLevel)
    BY DEF Nearest
  <1>5. n <= Len(levels)
    <2>. DEFINE l == Len(levels)
    <2>1. n = Section * (n \div Section) /\ n \div Section \in 1..2
      BY SectionsOfLine
    <2>. HIDE DEF l
    <2>2. CASE Section = 2 BY <1>1, <2>1, <2>2 DEF l
    <2>3. CASE Section = 3 BY <1>1, <2>1, <2>3 DEF l
    <2>4. CASE Section = 4 BY <1>1, <2>1, <2>4 DEF l
    <2>5. CASE Section = 5 BY <1>1, <2>1, <2>5 DEF l
    <2>6. CASE Section = 6 BY <1>1, <2>1, <2>6 DEF l
    <2>7. CASE Section = 7 BY <1>1, <2>1, <2>7 DEF l
    <2>8. CASE Section = 8 BY <1>1, <2>1, <2>8 DEF l
    <2>. QED  BY <1>1, <2>2, <2>3, <2>4, <2>5, <2>6, <2>7, <2>8
  <1>6. ASSUME NEW i \in 0 .. n - 1
        PROVE  Nearest(levels)[i + 1] =
                 OnOff(i % Section \in bytes[i \div Section + 1])
    <2>. DEFINE s == i \div Section + 1
                b == i % Section
    <2>1. n \in Int /\ i \in 0 .. 2 * Section - 1
      BY <1>1 DEF Length
    <2>2. s \in 1..2 /\ b \in 0 .. Section - 1 /\ Section * (s - 1) + b + 1 = i + 1
      <3>1. CASE i < Section
        <4>1. s = 1 /\ b = i
          BY <1>1, <2>1, <3>1, PlaceInByte
        <4>. HIDE DEF s, b
        <4>. QED  BY <1>1, <2>1, <3>1, <4>1
      <3>2. CASE i >= Section
        <4>. HIDE DEF s, b
        <4>a. ~(i < Section)
          BY <1>1, <2>1, <3>2
        <4>0. i \div Section = 1 /\ i % Section = i - Section
          BY <2>1, <4>a, PlaceInByte
        <4>1. s = 2 /\ b = i - Section
          BY <4>0 DEF s, b
        <4>. HIDE DEF s, b
        <4>. QED  BY <1>1, <2>1, <3>2, <4>1
      <3>. QED  BY <1>1, <2>1, <3>1, <3>2
    <2>3. s \in 1 .. k
      <3>1. s \in 1 .. n \div Section /\ n \div Section \in 1..2
        BY SectionsOfLine
      <3>. HIDE DEF s
      <3>. QED  BY <1>2, <3>1
    <2>4. i + 1 \in 1 .. Len(levels) /\ levels[i + 1] \in Level
      BY <1>1, <1>5, <2>1
    <2>. HIDE DEF s, b
    <2>5. b \in bytes[s] <=> reduce_level_to_bit(levels[i + 1]) = 1
      <3>1. bytes[s] = {j \in 0 .. Section - 1 :
                          reduce_level_to_bit(levels[Section * (s - 1) + j + 1]) = 1}
        BY <2>3 DEF reduce_levels_to_bitmask
      <3>. QED  BY <2>2, <3>1
    <2>6. b \in bytes[s] <=> 2 * levels[i + 1] > MaxLevel
      BY <2>4, <2>5, ReducedLevel
    <2>7. Nearest(levels)[i + 1] = OnOff(2 * levels[i + 1] > MaxLevel)
      BY <1>4, <2>4
    <2>. HIDE DEF bytes
    <2>. QED  BY <2>6, <2>7 DEF OnOff, s, b
  <1>. QED  BY <1>3, <1>4, <1>6

(* monome_led_row() draws its row, whatever the rotation. *)
LEMMA LedRowDraws ==
    ASSUME GridTypeOK, NEW g, g = grid, UNCHANGED <<grid, rotation>>, ~torn',
           ~BigEndian, NEW y \in 0 .. height - 1,
           NEW bytes \in Seq(SUBSET (0 .. Section - 1)),
           width \div Section <= Len(bytes), monome_led_row(y, bytes),
           NEW levels, Len(levels) \div Section = Len(bytes),
           \A i \in 0 .. width - 1 :
              levels[i + 1] = OnOff(i % Section \in bytes[i \div Section + 1])
    PROVE  Promise(g)!DrawRow(0, y, levels)
  <1>1. /\ "ROW" \in Modes /\ Long("ROW") = width /\ Many("ROW") = height
        /\ Pictures("ROW", y, levels) = RowPictures(y, levels)
    BY DEF Modes, Long, Many, Pictures
  <1>2. WriteOne(LineMessage("ROW", y, bytes))
    BY <1>1 DEF monome_led_row, proto_series_led_row, LineMessage
  <1>3. Promise(g)!Draw(RowPictures(y, levels))
    BY <1>1, <1>2, LedLineDraws
  <1>. QED  BY <1>3 DEF Promise!DrawRow, RowPictures

(* monome_led_col() draws its column, whatever the rotation. *)
LEMMA LedColDraws ==
    ASSUME GridTypeOK, NEW g, g = grid, UNCHANGED <<grid, rotation>>, ~torn',
           ~BigEndian, NEW x \in 0 .. width - 1,
           NEW bytes \in Seq(SUBSET (0 .. Section - 1)),
           height \div Section <= Len(bytes), monome_led_col(x, bytes),
           NEW levels, Len(levels) \div Section = Len(bytes),
           \A i \in 0 .. height - 1 :
              levels[i + 1] = OnOff(i % Section \in bytes[i \div Section + 1])
    PROVE  Promise(g)!DrawCol(x, 0, levels)
  <1>1. /\ "COL" \in Modes /\ Long("COL") = height /\ Many("COL") = width
        /\ Pictures("COL", x, levels) = ColPictures(x, levels)
    BY DEF Modes, Long, Many, Pictures
  <1>2. WriteOne(LineMessage("COL", x, bytes))
    BY <1>1 DEF monome_led_col, proto_series_led_col, LineMessage
  <1>3. Promise(g)!Draw(ColPictures(x, levels))
    BY <1>1, <1>2, LedLineDraws
  <1>. QED  BY <1>3 DEF Promise!DrawCol, ColPictures

(* An action of GridFrame's Dim. *)
LEMMA IntensityDims ==
    ASSUME GridTypeOK, NEW g, g = grid, UNCHANGED <<grid, rotation>>, ~torn',
           DrawingAssumption, NEW b \in Intensities, monome_led_intensity(b)
    PROVE  Promise(g)!DimTo(b)
  <1>1. b \in 0..MaxLevel /\ MaxLevel \in 0..15
    BY GridsAssumption DEF DrawingAssumption, Level
  <1>2. b % 16 = b /\ b % 256 = b /\ b % (MaxLevel + 1) = b
    <2>1. MaxLevel + 1 \in Nat \ {0} /\ b \in 0 .. (MaxLevel + 1) - 1
      BY <1>1
    <2>. QED  BY <1>1, <2>1, ModSmall
  <1>3. WriteOne(Msg("INTENSITY", 0, b))
    BY <1>2 DEF monome_led_intensity, proto_series_led_intensity, proto_40h_intensity
  <1>. DEFINE m == Msg("INTENSITY", 0, b)
  <1>4. m.cmd = "INTENSITY" /\ m.data = b
    BY DEF Msg
  <1>5. PICK written \in SUBSET {1} : MonomeWrite(<<m>>, written)
    BY <1>3 DEF WriteOne
  <1>. HIDE DEF m
  <1>6. DOMAIN <<m>> = {1} /\ <<m>>[1] = m
    OBVIOUS
  <1>7. Frame' = Frame
    <2>1. About(m) = {}
      BY <1>4 DEF About
    <2>2. \A i \in written : About(<<m>>[i]) = {}
      BY <1>6, <2>1
    <2>3. lit' = {p \in Hardware : p \in lit}
      <3>1. \A p \in Hardware : {i \in written : p \in About(<<m>>[i])} = {}
        BY <2>2
      <3>. QED  BY <1>5, <3>1 DEF MonomeWrite, Shown
    <2>4. lit' = lit
      BY <2>3 DEF GridTypeOK
    <2>. QED  BY <2>4 DEF Frame
  <1>8. CASE written = {1}
    <2>1. {i \in written : <<m>>[i].cmd = "INTENSITY"} = {1} /\ Max({1}) = 1
      BY <1>4, <1>6, <1>8 DEF Max
    <2>2. brightness' = b
      BY <1>4, <1>5, <1>6, <2>1 DEF MonomeWrite, Dimmed
    <2>3. {1} \ written = {}
      BY <1>8
    <2>4. lost' = 0
      BY <1>5, <1>6, <2>3, FS_EmptySet DEF MonomeWrite
    <2>. QED  BY <1>2, <1>7, <2>2, <2>4 DEF Promise!DimTo
  <1>9. CASE written = {}
    <2>1. {i \in written : <<m>>[i].cmd = "INTENSITY"} = {}
      BY <1>9
    <2>2. brightness' = brightness
      BY <1>5, <2>1 DEF MonomeWrite, Dimmed
    <2>3. UNION {{i} \X (1 .. Sections(<<m>>[i])) : i \in {1} \ written} = {<<1, 1>>}
      <3>1. Sections(m) = 1
        BY <1>4 DEF Sections
      <3>. QED  BY <1>6, <1>9, <3>1
    <2>4. lost' = 1
      BY <1>5, <1>6, <2>3, FS_Singleton DEF MonomeWrite
    <2>. QED  BY <1>7, <2>2, <2>4 DEF Promise!DimTo
  <1>. QED  BY <1>8, <1>9

-----------------------------------------------------------------------------
(* The whole grid                                                           *)

(* The places of GridFrame are those of the application. *)
LEMMA PlacesAreLogical ==
    ASSUME GridTypeOK, NEW g, g = grid
    PROVE  /\ Promise(g)!Places(rotation) = Logical
           /\ Logical = (0 .. width - 1) \X (0 .. height - 1)
  <1>1. /\ Logical = (0 .. width - 1) \X (0 .. height - 1)
        /\ width = IF rotation \in {1, 3} THEN grid.rows ELSE grid.cols
        /\ height = IF rotation \in {1, 3} THEN grid.cols ELSE grid.rows
    BY DEF Logical, LogicalGrid, width, height, monome_get_cols, monome_get_rows, ROW_COL_SWAP
  <1>2. rotation \in 0..3
    BY SizesIn
  <1>3. rotation % 2 = 0 <=> rotation \in {0, 2}
    BY <1>2
  <1>. QED  BY <1>1, <1>2, <1>3 DEF Promise!Places, Promise!Width, Promise!Height

(* The picture of a map, or of the whole grid, drawn by one message. *)
LEMMA WholePictureDraws ==
    ASSUME GridTypeOK, NEW g, g = grid, UNCHANGED <<grid, rotation>>, ~torn',
           Series, NEW m, m.cmd \in {"CLEAR", "FRAME"}, WriteOne(m),
           NEW f,
           \A p \in Logical : Place(p) \in About(m) <=> p \in DOMAIN f,
           \A p \in Logical : p \in DOMAIN f =>
              f[p] = OnOff(TurnsOn(m, Place(p)))
    PROVE  Promise(g)!Draw(Promise(g)!Lines(f))
  <1>. DEFINE pics == << f >>
  <1>1. Promise(g)!Lines(f) = pics
    BY DEF Promise!Lines, Series
  <1>2. Sections(m) = 1
    BY DEF Sections
  <1>3. DOMAIN pics = 1..1 /\ pics[1] = f
    OBVIOUS
  <1>. HIDE DEF pics
  <1>4. Draws(m, pics, 1..1)
    BY <1>3 DEF Draws
  <1>5. Promise(g)!Draw(pics)
    <2>1. m.cmd \notin {"INTENSITY", "TILT"} /\ Sections(m) \in 1..2
      BY <1>2
    <2>2. /\ 1 .. Sections(m) \subseteq DOMAIN pics
          /\ DOMAIN pics \ (1 .. Sections(m)) = {}
      BY <1>2, <1>3
    <2>3. Draws(m, pics, 1 .. Sections(m))
      BY <1>2, <1>4
    <2>. QED  BY <2>1, <2>2, <2>3, OneMessageDraws
  <1>. QED  BY <1>1, <1>5

(* monome_led_all() of a series device draws every LED. *)
LEMMA SeriesAllDraws ==
    ASSUME GridTypeOK, NEW g, g = grid, UNCHANGED <<grid, rotation>>, ~torn',
           Series, NEW on \in {0, 1}, monome_led_all(on)
    PROVE  Promise(g)!AllTo(OnOff(on = 1))
  <1>. DEFINE m == proto_series_led_all(on)
              f == [p \in Logical |-> OnOff(on = 1)]
  <1>1. m.cmd = "CLEAR" /\ (m.data = 1 <=> on = 1) /\ WriteOne(m)
    BY DEF proto_series_led_all, Msg, monome_led_all
  <1>. HIDE DEF m
  <1>2. About(m) = Hardware /\ \A q : TurnsOn(m, q) <=> on = 1
    BY <1>1 DEF About, TurnsOn
  <1>3. \A p \in Logical : /\ Place(p) \in About(m)
                           /\ f[p] = OnOff(TurnsOn(m, Place(p)))
    BY <1>2, PlaceIsOnHardware DEF OnOff
  <1>4. DOMAIN f = Logical
    OBVIOUS
  <1>5. f = [p \in Promise(g)!Places(rotation) |-> OnOff(on = 1)]
    BY PlacesAreLogical
  <1>. HIDE DEF f
  <1>6. Promise(g)!Draw(Promise(g)!Lines(f))
    BY <1>1, <1>3, <1>4, WholePictureDraws
  <1>. QED  BY <1>5, <1>6 DEF Promise!AllTo

(* What the rotation of a section does to a point, and to a map. *)
LEMMA PointTurned ==
    ASSUME rotation \in 0..3, NEW i \in 0 .. Section - 1, NEW j \in 0 .. Section - 1
    PROVE  output_cb(rotation, Section, Section, <<i, j>>) =
             CASE rotation = 0 -> <<i, j>>
               [] rotation = 1 -> <<j, Section - 1 - i>>
               [] rotation = 2 -> <<Section - 1 - i, Section - 1 - j>>
               [] rotation = 3 -> <<Section - 1 - j, i>>
  <1>1. Section \in Length /\ Section \in 2..8
    BY GridsAssumption DEF Length
  <1>2. Sub(Section - 1, i) = Section - 1 - i /\ Sub(Section - 1, j) = Section - 1 - j
    BY <1>1, FromTheOtherEnd
  <1>3. /\ monome_get_cols(rotation, Section, Section) = Section
        /\ monome_get_rows(rotation, Section, Section) = Section
    BY DEF monome_get_cols, monome_get_rows
  <1>. QED  BY <1>2, <1>3 DEF output_cb, r90_output_cb, r180_output_cb, r270_output_cb

(* The map_cb() of a rotation takes the bit of a point to where the          *)
(* output_cb() takes the point.                                             *)
LEMMA MapTurned ==
    ASSUME rotation \in 0..3, NEW bits \in SUBSET Points, NEW d \in Points
    PROVE  output_cb(rotation, Section, Section, d) \in map_cb(bits) <=> d \in bits
  <1>. DEFINE Out(p) == output_cb(rotation, Section, Section, p)
  <1>1. Section \in Int
    BY GridsAssumption
  <1>2. ASSUME NEW b \in Points, Out(b) = Out(d) PROVE b = d
    <2>1. PICK i \in 0 .. Section - 1, j \in 0 .. Section - 1 : b = <<i, j>>
      BY DEF Points
    <2>2. PICK k \in 0 .. Section - 1, l \in 0 .. Section - 1 : d = <<k, l>>
      BY DEF Points
    <2>3. i \in Int /\ j \in Int /\ k \in Int /\ l \in Int
      BY <1>1
    <2>4. CASE rotation = 0
      BY <1>2, <2>1, <2>2, <2>4, PointTurned
    <2>5. CASE rotation = 1
      <3>1. <<j, Section - 1 - i>> = <<l, Section - 1 - k>>
        BY <1>2, <2>1, <2>2, <2>5, PointTurned
      <3>. QED  BY <1>1, <2>1, <2>2, <2>3, <3>1
    <2>6. CASE rotation = 2
      <3>1. <<Section - 1 - i, Section - 1 - j>> = <<Section - 1 - k, Section - 1 - l>>
        BY <1>2, <2>1, <2>2, <2>6, PointTurned
      <3>. QED  BY <1>1, <2>1, <2>2, <2>3, <3>1
    <2>7. CASE rotation = 3
      <3>1. <<Section - 1 - j, i>> = <<Section - 1 - l, k>>
        BY <1>2, <2>1, <2>2, <2>7, PointTurned
      <3>. QED  BY <1>1, <2>1, <2>2, <2>3, <3>1
    <2>. QED  BY <2>4, <2>5, <2>6, <2>7
  <1>3. Out(d) \in map_cb(bits) <=> \E b \in bits : Out(b) = Out(d)
    BY DEF map_cb
  <1>. HIDE DEF Out
  <1>4. Out(d) \in map_cb(bits) <=> d \in bits
    BY <1>2, <1>3
  <1>. QED  BY <1>4 DEF Out

(* Two numbers of sections as one number of a quadrant, and back. *)
LEMMA QuadrantSplits ==
    ASSUME NEW a \in Int, NEW b \in Int, NEW u \in {0, 1}, NEW v \in {0, 1},
           a \in {0, 1} \/ (a % 4 = 3 /\ u = 0),
           b \in {0, 1} \/ (b % 4 = 3 /\ v = 0)
    PROVE  LET at == (a + 2 * b) % 4
           IN  u = at % 2 /\ v = at \div 2 <=> u = a % 4 /\ v = b % 4
  <1>1. CASE a \in {0, 1} /\ b \in {0, 1} BY <1>1
  <1>2. CASE a % 4 = 3 /\ u = 0 BY <1>2
  <1>3. CASE a \in {0, 1} /\ b % 4 = 3 /\ v = 0
    <2>1. (a + 2 * b) % 4 \in {2, 3}
      BY <1>3
    <2>. QED  BY <1>3, <2>1
  <1>. QED  BY <1>1, <1>2, <1>3

(* The LEDs of a frame. *)
LEMMA FrameCovers ==
    ASSUME NEW m, m.cmd = "FRAME", m.at \in 0..3,
           NEW i \in 0 .. 2 * Section - 1, NEW j \in 0 .. 2 * Section - 1
    PROVE  <<i, j>> \in About(m) <=>
              i \div Section = m.at % 2 /\ j \div Section = m.at \div 2
  <1>1. Section \in 2..8
    BY GridsAssumption
  <1>2. m.at % 2 \in {0, 1} /\ m.at \div 2 \in {0, 1}
    OBVIOUS
  <1>3. <<i, j>> \in About(m) <=>
          \E k \in 0 .. Section - 1, l \in 0 .. Section - 1 :
             i = Section * (m.at % 2) + k /\ j = Section * (m.at \div 2) + l
    <2>1. About(m) = {<<Section * (m.at % 2) + p[1], Section * (m.at \div 2) + p[2]>> :
                        p \in Points}
      BY DEF About
    <2>2. <<i, j>> \in About(m) <=>
            \E p \in Points : <<i, j>> = <<Section * (m.at % 2) + p[1],
                                          Section * (m.at \div 2) + p[2]>>
      BY <2>1
    <2>3. \A p \in Points : p[1] \in 0 .. Section - 1 /\ p[2] \in 0 .. Section - 1
      BY DEF Points
    <2>4. \A k \in 0 .. Section - 1, l \in 0 .. Section - 1 :
            <<k, l>> \in Points /\ <<k, l>>[1] = k /\ <<k, l>>[2] = l
      BY DEF Points
    <2>5. ASSUME <<i, j>> \in About(m)
          PROVE  \E k \in 0 .. Section - 1, l \in 0 .. Section - 1 :
                   i = Section * (m.at % 2) + k /\ j = Section * (m.at \div 2) + l
      <3>1. PICK p \in Points : <<i, j>> = <<Section * (m.at % 2) + p[1],
                                           Section * (m.at \div 2) + p[2]>>
        BY <2>2, <2>5
      <3>2. /\ i = Section * (m.at % 2) + p[1]
            /\ j = Section * (m.at \div 2) + p[2]
        BY <3>1, Zenon
      <3>. QED  BY <2>3, <3>2
    <2>6. ASSUME NEW k \in 0 .. Section - 1, NEW l \in 0 .. Section - 1,
                 i = Section * (m.at % 2) + k, j = Section * (m.at \div 2) + l
          PROVE  <<i, j>> \in About(m)
      <3>1. /\ <<k, l>> \in Points /\ <<k, l>>[1] = k /\ <<k, l>>[2] = l
        BY <2>4
      <3>. QED  BY <2>2, <2>6, <3>1
    <2>. QED  BY <2>5, <2>6
  <1>4. ASSUME NEW n \in 0 .. 2 * Section - 1, NEW s \in {0, 1}
        PROVE  (\E k \in 0 .. Section - 1 : n = Section * s + k)
                 <=> n \div Section = s
    <2>1. n \div Section = IF n < Section THEN 0 ELSE 1
      BY PlaceInByte
    <2>2. CASE s = 0
      BY <1>1, <2>1, <2>2
    <2>3. CASE s = 1
      <3>1. CASE n < Section
        BY <1>1, <2>1, <2>3, <3>1
      <3>2. CASE ~(n < Section)
        <4>1. n - Section \in 0 .. Section - 1 /\ n = Section * 1 + (n - Section)
          BY <1>1, <3>2
        <4>. QED  BY <2>1, <2>3, <3>2, <4>1
      <3>. QED  BY <3>1, <3>2
    <2>. QED  BY <2>2, <2>3
  <1>. QED  BY <1>2, <1>3, <1>4

-----------------------------------------------------------------------------
(* Maps of a series device                                                  *)

(* A section along one axis, counted from either end. *)
LEMMA AxisForwards ==
    ASSUME UintRange % (4 * Section) = 0,
           NEW n \in Length, NEW x \in {0, Section}, NEW i \in 0 .. n - 1
    PROVE  /\ i \in 0 .. 2 * Section - 1 /\ i \div Section \in {0, 1}
           /\ x \div Section \in {0, 1}
           /\ i \in x .. x + Section - 1 <=> i \div Section = (x \div Section) % 4
           /\ i \in x .. x + Section - 1 =>
                 i - x \in 0 .. Section - 1 /\ i % Section = i - x
  <1>1. Section \in 2..8
    BY GridsAssumption
  <1>2. i \in 0 .. 2 * Section - 1
    BY <1>1 DEF Length
  <1>3. i \div Section = IF i < Section THEN 0 ELSE 1
    BY <1>2, PlaceInByte
  <1>4. /\ x \div Section \in {0, 1}
        /\ i \in x .. x + Section - 1 <=> i \div Section = x \div Section
        /\ i \in x .. x + Section - 1 => i % Section = i - x
    BY SectionAlongAxis
  <1>5. (x \div Section) % 4 = x \div Section
    BY <1>4
  <1>6. i \in x .. x + Section - 1 => i - x \in 0 .. Section - 1
    BY <1>1 DEF Length
  <1>. QED  BY <1>2, <1>3, <1>4, <1>5, <1>6

(* The same from the other end: a section that begins beyond the last place *)
(* is in a quadrant of its own, which no LED is in.                         *)
LEMMA AxisBackwards ==
    ASSUME UintRange % (4 * Section) = 0,
           NEW n \in Length, NEW x \in {0, Section}, NEW i \in 0 .. n - 1
    PROVE  LET a == Sub(n - 1, x) \div Section
               k == n - 1 - i
           IN  /\ k \in 0 .. 2 * Section - 1 /\ k \div Section \in {0, 1} /\ a \in Int
               /\ a \in {0, 1} \/ (a % 4 = 3 /\ k \div Section = 0)
               /\ i \in x .. x + Section - 1 <=> k \div Section = a % 4
               /\ i \in x .. x + Section - 1 =>
                     /\ i - x \in 0 .. Section - 1
                     /\ k % Section = Section - 1 - (i - x)
  <1>. DEFINE k == n - 1 - i
              a == Sub(n - 1, x) \div Section
  <1>1. Section \in 2..8 /\ UintRange \in Nat \ {0}
    BY GridsAssumption, UintAssumption
  <1>2. k \in 0 .. 2 * Section - 1 /\ (n = Section => k \in 0 .. Section - 1)
    BY <1>1 DEF Length
  <1>3. k \div Section = IF k < Section THEN 0 ELSE 1
    BY <1>2, PlaceInByte
  <1>4. a \in Int
    <2>1. n - 1 - x \in Int
      BY <1>1 DEF Length
    <2>2. Sub(n - 1, x) \in Nat
      BY <1>1, <2>1 DEF Sub
    <2>. QED  BY <1>1, <2>2
  <1>5. /\ a \in {0, 1} \/ (a % 4 = 3 /\ n = Section)
        /\ i \in x .. x + Section - 1 <=> k \div Section = a % 4
        /\ i \in x .. x + Section - 1 => k % Section = Section - 1 - (i - x)
    BY SectionAlongAxis, Zenon
  <1>7. i \in x .. x + Section - 1 => i - x \in 0 .. Section - 1
    BY <1>1 DEF Length
  <1>8. k \div Section \in {0, 1} /\ (n = Section => k \div Section = 0)
    BY <1>1, <1>2, <1>3
  <1>. HIDE DEF k, a
  <1>9. /\ k \in 0 .. 2 * Section - 1 /\ k \div Section \in {0, 1} /\ a \in Int
        /\ a \in {0, 1} \/ (a % 4 = 3 /\ k \div Section = 0)
        /\ i \in x .. x + Section - 1 <=> k \div Section = a % 4
        /\ i \in x .. x + Section - 1 =>
              /\ i - x \in 0 .. Section - 1
              /\ k % Section = Section - 1 - (i - x)
    BY <1>2, <1>4, <1>5, <1>7, <1>8, Zenon
  <1>. QED  BY <1>9 DEF k, a

(* The LEDs of a map that is turned. *)
LEMMA MapPlaces ==
    ASSUME GridTypeOK, UintRange % (4 * Section) = 0,
           NEW x \in {0, Section}, NEW y \in {0, Section}, NEW p \in Logical,
           NEW bits \in SUBSET Points, NEW m,
           m = proto_series_led_map(x, y, bits)
    PROVE  LET inside == /\ p[1] \in x .. x + Section - 1
                         /\ p[2] \in y .. y + Section - 1
               d == <<p[1] - x, p[2] - y>>
           IN  /\ Place(p) \in About(m) <=> inside
               /\ inside => /\ d \in Points
                            /\ TurnsOn(m, Place(p)) <=> d \in bits
  <1>. DEFINE i == p[1]
              j == p[2]
              inside == i \in x .. x + Section - 1 /\ j \in y .. y + Section - 1
              d == <<i - x, j - y>>
              at == ROTATE_COORDS(x, y)
              a == at[1] \div Section
              b == at[2] \div Section
              q == Place(p)
              u == q[1] \div Section
              v == q[2] \div Section
              c == <<q[1] % Section, q[2] % Section>>
  <1>1. /\ m.cmd = "FRAME" /\ m.at = (a + 2 * b) % 4 /\ m.data = map_cb(bits)
    BY DEF proto_series_led_map, Msg, Quadrant
  <1>2. /\ width \in Length /\ height \in Length /\ rotation \in 0..3
        /\ i \in 0 .. width - 1 /\ j \in 0 .. height - 1
        /\ Section \in Int
    BY SizesIn, PlaceIs
  <1>3. at = CASE rotation = 0 -> <<x, y>>
               [] rotation = 1 -> <<y, Sub(width - 1, x)>>
               [] rotation = 2 -> <<Sub(width - 1, x), Sub(height - 1, y)>>
               [] rotation = 3 -> <<Sub(height - 1, y), x>>
    BY DEF ROTATE_COORDS, output_cb, width, height, r90_output_cb, r180_output_cb, r270_output_cb
  <1>11. /\ i \in 0 .. 2 * Section - 1 /\ i \div Section \in {0, 1}
         /\ x \div Section \in {0, 1}
         /\ i \in x .. x + Section - 1 <=> i \div Section = (x \div Section) % 4
         /\ i \in x .. x + Section - 1 =>
               i - x \in 0 .. Section - 1 /\ i % Section = i - x
    BY <1>2, AxisForwards
  <1>12. /\ j \in 0 .. 2 * Section - 1 /\ j \div Section \in {0, 1}
         /\ y \div Section \in {0, 1}
         /\ j \in y .. y + Section - 1 <=> j \div Section = (y \div Section) % 4
         /\ j \in y .. y + Section - 1 =>
               j - y \in 0 .. Section - 1 /\ j % Section = j - y
    BY <1>2, AxisForwards
  <1>13. /\ (width - 1 - i) \in 0 .. 2 * Section - 1
         /\ (width - 1 - i) \div Section \in {0, 1}
         /\ Sub(width - 1, x) \div Section \in Int
         /\ Sub(width - 1, x) \div Section \in {0, 1}
              \/ (/\ (Sub(width - 1, x) \div Section) % 4 = 3
                  /\ (width - 1 - i) \div Section = 0)
         /\ i \in x .. x + Section - 1 <=>
               (width - 1 - i) \div Section = (Sub(width - 1, x) \div Section) % 4
         /\ i \in x .. x + Section - 1 =>
               /\ i - x \in 0 .. Section - 1
               /\ (width - 1 - i) % Section = Section - 1 - (i - x)
    BY <1>2, AxisBackwards
  <1>14. /\ (height - 1 - j) \in 0 .. 2 * Section - 1
         /\ (height - 1 - j) \div Section \in {0, 1}
         /\ Sub(height - 1, y) \div Section \in Int
         /\ Sub(height - 1, y) \div Section \in {0, 1}
              \/ (/\ (Sub(height - 1, y) \div Section) % 4 = 3
                  /\ (height - 1 - j) \div Section = 0)
         /\ j \in y .. y + Section - 1 <=>
               (height - 1 - j) \div Section = (Sub(height - 1, y) \div Section) % 4
         /\ j \in y .. y + Section - 1 =>
               /\ j - y \in 0 .. Section - 1
               /\ (height - 1 - j) % Section = Section - 1 - (j - y)
    BY <1>2, AxisBackwards
  <1>4. /\ q = <<q[1], q[2]>>
        /\ q[1] \in 0 .. 2 * Section - 1 /\ q[2] \in 0 .. 2 * Section - 1
        /\ u \in {0, 1} /\ v \in {0, 1} /\ a \in Int /\ b \in Int
        /\ a \in {0, 1} \/ (a % 4 = 3 /\ u = 0)
        /\ b \in {0, 1} \/ (b % 4 = 3 /\ v = 0)
        /\ inside <=> u = a % 4 /\ v = b % 4
        /\ inside => /\ i - x \in 0 .. Section - 1 /\ j - y \in 0 .. Section - 1
                     /\ c = output_cb(rotation, Section, Section, d)
    <2>1. CASE rotation = 0
      <3>1. q[1] = i /\ q[2] = j /\ at[1] = x /\ at[2] = y /\ q = <<i, j>>
        BY <1>3, <2>1, PlaceIs
      <3>. HIDE DEF at, q
      <3>2. /\ q[1] \in 0 .. 2 * Section - 1 /\ u \in {0, 1} /\ a \in Int
            /\ a \in {0, 1} \/ (a % 4 = 3 /\ u = 0)
            /\ i \in x .. x + Section - 1 <=> u = a % 4
            /\ i \in x .. x + Section - 1 =>
                 i - x \in 0 .. Section - 1 /\ q[1] % Section = i - x
        BY <1>11, <1>12, <1>13, <1>14, <3>1
      <3>3. /\ q[2] \in 0 .. 2 * Section - 1 /\ v \in {0, 1} /\ b \in Int
            /\ b \in {0, 1} \/ (b % 4 = 3 /\ v = 0)
            /\ j \in y .. y + Section - 1 <=> v = b % 4
            /\ j \in y .. y + Section - 1 =>
                 j - y \in 0 .. Section - 1 /\ q[2] % Section = j - y
        BY <1>11, <1>12, <1>13, <1>14, <3>1
      <3>4. i - x \in 0 .. Section - 1 /\ j - y \in 0 .. Section - 1 =>
              output_cb(rotation, Section, Section, d) = <<i - x, j - y>>
        BY <2>1, PointTurned
      <3>. QED  BY <3>1, <3>2, <3>3, <3>4
    <2>2. CASE rotation = 1
      <3>1. /\ q[1] = j /\ q[2] = width - 1 - i /\ at[1] = y
            /\ at[2] = Sub(width - 1, x) /\ q = <<j, width - 1 - i>>
        BY <1>3, <2>2, PlaceIs
      <3>. HIDE DEF at, q
      <3>2. /\ q[1] \in 0 .. 2 * Section - 1 /\ u \in {0, 1} /\ a \in Int
            /\ a \in {0, 1} \/ (a % 4 = 3 /\ u = 0)
            /\ j \in y .. y + Section - 1 <=> u = a % 4
            /\ j \in y .. y + Section - 1 =>
                 j - y \in 0 .. Section - 1 /\ q[1] % Section = j - y
        BY <1>11, <1>12, <1>13, <1>14, <3>1
      <3>3. /\ q[2] \in 0 .. 2 * Section - 1 /\ v \in {0, 1} /\ b \in Int
            /\ b \in {0, 1} \/ (b % 4 = 3 /\ v = 0)
            /\ i \in x .. x + Section - 1 <=> v = b % 4
            /\ i \in x .. x + Section - 1 =>
                 i - x \in 0 .. Section - 1 /\ q[2] % Section = Section - 1 - (i - x)
        BY <1>11, <1>12, <1>13, <1>14, <3>1
      <3>4. i - x \in 0 .. Section - 1 /\ j - y \in 0 .. Section - 1 =>
              output_cb(rotation, Section, Section, d) = <<j - y, Section - 1 - (i - x)>>
        BY <2>2, PointTurned
      <3>. QED  BY <3>1, <3>2, <3>3, <3>4
    <2>3. CASE rotation = 2
      <3>1. /\ q[1] = width - 1 - i /\ q[2] = height - 1 - j
            /\ at[1] = Sub(width - 1, x) /\ at[2] = Sub(height - 1, y)
            /\ q = <<width - 1 - i, height - 1 - j>>
        BY <1>3, <2>3, PlaceIs
      <3>. HIDE DEF at, q
      <3>2. /\ q[1] \in 0 .. 2 * Section - 1 /\ u \in {0, 1} /\ a \in Int
            /\ a \in {0, 1} \/ (a % 4 = 3 /\ u = 0)
            /\ i \in x .. x + Section - 1 <=> u = a % 4
            /\ i \in x .. x + Section - 1 =>
                 i - x \in 0 .. Section - 1 /\ q[1] % Section = Section - 1 - (i - x)
        BY <1>11, <1>12, <1>13, <1>14, <3>1
      <3>3. /\ q[2] \in 0 .. 2 * Section - 1 /\ v \in {0, 1} /\ b \in Int
            /\ b \in {0, 1} \/ (b % 4 = 3 /\ v = 0)
            /\ j \in y .. y + Section - 1 <=> v = b % 4
            /\ j \in y .. y + Section - 1 =>
                 j - y \in 0 .. Section - 1 /\ q[2] % Section = Section - 1 - (j - y)
        BY <1>11, <1>12, <1>13, <1>14, <3>1
      <3>4. i - x \in 0 .. Section - 1 /\ j - y \in 0 .. Section - 1 =>
              output_cb(rotation, Section, Section, d)
                = <<Section - 1 - (i - x), Section - 1 - (j - y)>>
        BY <2>3, PointTurned
      <3>. QED  BY <3>1, <3>2, <3>3, <3>4
    <2>4. CASE rotation = 3
      <3>1. /\ q[1] = height - 1 - j /\ q[2] = i
            /\ at[1] = Sub(height - 1, y) /\ at[2] = x
            /\ q = <<height - 1 - j, i>>
        BY <1>3, <2>4, PlaceIs
      <3>. HIDE DEF at, q
      <3>2. /\ q[1] \in 0 .. 2 * Section - 1 /\ u \in {0, 1} /\ a \in Int
            /\ a \in {0, 1} \/ (a % 4 = 3 /\ u = 0)
            /\ j \in y .. y + Section - 1 <=> u = a % 4
            /\ j \in y .. y + Section - 1 =>
                 j - y \in 0 .. Section - 1 /\ q[1] % Section = Section - 1 - (j - y)
        BY <1>11, <1>12, <1>13, <1>14, <3>1
      <3>3. /\ q[2] \in 0 .. 2 * Section - 1 /\ v \in {0, 1} /\ b \in Int
            /\ b \in {0, 1} \/ (b % 4 = 3 /\ v = 0)
            /\ i \in x .. x + Section - 1 <=> v = b % 4
            /\ i \in x .. x + Section - 1 =>
                 i - x \in 0 .. Section - 1 /\ q[2] % Section = i - x
        BY <1>11, <1>12, <1>13, <1>14, <3>1
      <3>4. i - x \in 0 .. Section - 1 /\ j - y \in 0 .. Section - 1 =>
              output_cb(rotation, Section, Section, d) = <<Section - 1 - (j - y), i - x>>
        BY <2>4, PointTurned
      <3>. QED  BY <3>1, <3>2, <3>3, <3>4
    <2>. QED  BY <1>2, <2>1, <2>2, <2>3, <2>4
  <1>. HIDE DEF a, b, q, at, d, inside
  <1>5. u = m.at % 2 /\ v = m.at \div 2 <=> u = a % 4 /\ v = b % 4
    BY <1>1, <1>4, QuadrantSplits
  <1>6. m.at \in 0..3
    BY <1>1, <1>4
  <1>7. q \in About(m) <=> u = m.at % 2 /\ v = m.at \div 2
    <2>1. <<q[1], q[2]>> \in About(m) <=> u = m.at % 2 /\ v = m.at \div 2
      BY <1>1, <1>4, <1>6, FrameCovers
    <2>. QED  BY <1>4, <2>1
  <1>8. q \in About(m) <=> inside
    BY <1>4, <1>5, <1>7
  <1>9. TurnsOn(m, q) <=> c \in map_cb(bits)
    BY <1>1 DEF TurnsOn
  <1>10. ASSUME inside PROVE d \in Points /\ (TurnsOn(m, q) <=> d \in bits)
    <2>1. d \in Points
      BY <1>4, <1>10 DEF d, Points
    <2>2. c = output_cb(rotation, Section, Section, d)
      BY <1>4, <1>10
    <2>. QED  BY <1>2, <1>9, <2>1, <2>2, MapTurned
  <1>. QED  BY <1>8, <1>10 DEF inside, q, d

(* A map of a series device: OfBits(bits), or levels that are reduced. *)
LEMMA SeriesMapDraws ==
    ASSUME GridTypeOK, NEW g, g = grid, UNCHANGED <<grid, rotation>>, ~torn',
           Series, UintRange % (4 * Section) = 0,
           NEW x \in {0, Section}, NEW y \in {0, Section},
           NEW bits \in SUBSET Points, monome_led_map(x, y, bits),
           NEW levels, \A d \in Points : levels[d] = OnOff(d \in bits)
    PROVE  Promise(g)!DrawMap(x, y, levels)
  <1>. DEFINE m == proto_series_led_map(x, y, bits)
              f == [p \in (x .. x + Section - 1) \X (y .. y + Section - 1) |->
                      levels[<<p[1] - x, p[2] - y>>]]
  <1>1. WriteOne(m) /\ m.cmd = "FRAME" /\ m = proto_series_led_map(x, y, bits)
    BY DEF monome_led_map, proto_series_led_map, Msg
  <1>. HIDE DEF m
  <1>2. ASSUME NEW p \in Logical
        PROVE  /\ Place(p) \in About(m) <=> p \in DOMAIN f
               /\ p \in DOMAIN f => f[p] = OnOff(TurnsOn(m, Place(p)))
    <2>. DEFINE d == <<p[1] - x, p[2] - y>>
    <2>1. p = <<p[1], p[2]>>
      BY PlaceIs
    <2>0. /\ Place(p) \in About(m) <=> /\ p[1] \in x .. x + Section - 1
                                      /\ p[2] \in y .. y + Section - 1
          /\ p[1] \in x .. x + Section - 1 /\ p[2] \in y .. y + Section - 1 =>
                d \in Points /\ (TurnsOn(m, Place(p)) <=> d \in bits)
      BY <1>1, MapPlaces
    <2>2. p \in DOMAIN f <=> /\ p[1] \in x .. x + Section - 1
                             /\ p[2] \in y .. y + Section - 1
      BY <2>1
    <2>3. p \in DOMAIN f => f[p] = levels[<<p[1] - x, p[2] - y>>]
      OBVIOUS
    <2>. HIDE DEF f
    <2>4. Place(p) \in About(m) <=> p \in DOMAIN f
      BY <2>0, <2>2
    <2>5. ASSUME p \in DOMAIN f PROVE f[p] = OnOff(TurnsOn(m, Place(p)))
      <3>1. d \in Points /\ (TurnsOn(m, Place(p)) <=> d \in bits)
        BY <2>0, <2>2, <2>5
      <3>2. f[p] = OnOff(d \in bits)
        BY <2>3, <2>5, <3>1
      <3>. HIDE DEF d
      <3>. QED  BY <3>1, <3>2 DEF OnOff
    <2>. QED  BY <2>4, <2>5
  <1>. HIDE DEF f
  <1>3. Promise(g)!Draw(Promise(g)!Lines(f))
    BY <1>1, <1>2, WholePictureDraws
  <1>. QED  BY <1>3 DEF f, Promise!DrawMap

-----------------------------------------------------------------------------
(* Pictures of a 40h                                                        *)

(* The picture of a square, line by line. *)
Axis == IF rotation % 2 = 0 THEN 2 ELSE 1
LinesOf(f) == [i \in 1 .. Section |-> [p \in {q \in DOMAIN f : q[Axis] = i - 1} |-> f[p]]]

(* They are the lines of which GridFrame says that a call loses whole ones. *)
LEMMA LinesOfSquare ==
    ASSUME GridTypeOK, NEW g, g = grid, ~Series, NEW f, DOMAIN f = Logical
    PROVE  Promise(g)!Lines(f) = LinesOf(f)
  <1>. DEFINE axis == IF rotation % 2 = 0 THEN 2 ELSE 1
  <1>1. /\ Logical = (0 .. Section - 1) \X (0 .. Section - 1)
        /\ Section \in 2..8 /\ rotation \in 0..3
    <2>1. width = Section /\ height = Section /\ Section \in 2..8 /\ rotation \in 0..3
      BY SizesIn
    <2>. QED  BY <2>1, PlacesAreLogical
  <1>2. axis \in {1, 2}
    OBVIOUS
  <1>3. g.proto = "40h"
    <2>1. grid \in Grids /\ grid.proto # "series"
      BY DEF GridTypeOK, Series
    <2>. QED  BY <2>1, GridsAssumption
  <1>4. {p[axis] : p \in DOMAIN f} = 0 .. Section - 1
    <2>1. \A p \in Logical : p[axis] \in 0 .. Section - 1
      BY <1>1
    <2>2. ASSUME NEW i \in 0 .. Section - 1 PROVE \E p \in Logical : p[axis] = i
      <3>1. <<i, i>> \in Logical /\ <<i, i>>[axis] = i
        BY <1>1
      <3>. QED  BY <3>1
    <2>. QED  BY <2>1, <2>2
  <1>5. Promise(g)!Cardinality({p[axis] : p \in DOMAIN f}) = Section
    <2>1. Cardinality(0 .. Section - 1) = Section
      <3>1. 0 \in Int /\ Section - 1 \in Int /\ ~(0 > Section - 1)
            /\ Section - 1 - 0 + 1 = Section
        BY <1>1
      <3>. QED  BY <3>1, FS_Interval
    <2>. QED  BY <1>4, <2>1, SameCardinality
  <1>6. Promise(g)!Lines(f) =
          [i \in 1 .. Promise(g)!Cardinality({p[axis] : p \in DOMAIN f}) |->
              [p \in {q \in DOMAIN f : q[axis] = i - 1} |-> f[p]]]
    BY <1>3, Zenon DEF Promise!Lines
  <1>. QED  BY <1>5, <1>6, Zenon DEF LinesOf, Axis

(* As many from the other end. *)
LEMMA Mirrored ==
    ASSUME NEW n \in Nat, NEW T \in SUBSET (1..n)
    PROVE  Cardinality({n + 1 - i : i \in T}) = Cardinality(T)
  <1>. DEFINE U == {n + 1 - i : i \in T}
              f == [i \in T |-> n + 1 - i]
  <1>1. IsFiniteSet(T)
    <2>1. 1 \in Int /\ n \in Int
      OBVIOUS
    <2>2. IsFiniteSet(1..n)
      BY <2>1, FS_Interval
    <2>. QED  BY <2>2, FS_Subset
  <1>2. f \in Bijection(T, U)
    <2>1. f \in [T -> U] /\ \A i \in T : f[i] = n + 1 - i
      OBVIOUS
    <2>2. \A i, j \in T : f[i] = f[j] => i = j
      <3>1. \A i \in T : i \in Int
        OBVIOUS
      <3>. QED  BY <2>1, <3>1
    <2>3. \A u \in U : \E i \in T : f[i] = u
      BY <2>1
    <2>. HIDE DEF f, U
    <2>. QED  BY <2>1, <2>2, <2>3 DEF Bijection, Injection, Surjection, IsInjective
  <1>. HIDE DEF f, U
  <1>3. Cardinality(U) = Cardinality(T)
    BY <1>1, <1>2, FS_Bijection DEF ExistsBijection
  <1>. QED  BY <1>3 DEF U

(* A picture of a 40h, sent row by row. *)
LEMMA SquareDraws ==
    ASSUME GridTypeOK, NEW g, g = grid, UNCHANGED <<grid, rotation>>, ~torn',
           ~Series, NEW msgs, DOMAIN msgs = 1..Section,
           \A i \in 1..Section : /\ msgs[i].cmd = "ROW" /\ msgs[i].at = i - 1
                                 /\ Len(msgs[i].data) = 1,
           NEW written \in SUBSET (1..Section), MonomeWrite(msgs, written),
           NEW f, DOMAIN f = Logical,
           \A p \in Logical : f[p] = OnOff(TurnsOn(msgs[Place(p)[2] + 1], Place(p)))
    PROVE  Promise(g)!Draw(Promise(g)!Lines(f))
  <1>. DEFINE axis == IF rotation % 2 = 0 THEN 2 ELSE 1
              pics == [i \in 1 .. Section |->
                         [p \in {q \in DOMAIN f : q[axis] = i - 1} |-> f[p]]]
              LineOf(i) == IF rotation \in {1, 2} THEN Section + 1 - i ELSE i
              drawn == {LineOf(i) : i \in written}
              i1(p) == Place(p)[2] + 1
  <1>1. Promise(g)!Lines(f) = pics
    <2>1. Promise(g)!Lines(f) = LinesOf(f)
      BY LinesOfSquare
    <2>. QED  BY <2>1 DEF LinesOf, Axis
  <1>2. Section \in 2..8 /\ width = Section /\ height = Section /\ rotation \in 0..3
    BY SizesIn
  <1>3. ASSUME NEW p \in Logical
        PROVE  /\ Place(p)[1] \in 0 .. Section - 1 /\ Place(p)[2] \in 0 .. Section - 1
               /\ Place(p) = <<Place(p)[1], Place(p)[2]>>
               /\ p[axis] + 1 = LineOf(i1(p))
               /\ p[axis] \in 0 .. Section - 1
    <2>1. /\ p[1] \in 0 .. Section - 1 /\ p[2] \in 0 .. Section - 1
          /\ p[1] \in Int /\ p[2] \in Int
      BY <1>2, PlaceIs
    <2>2. CASE rotation = 0
      <3>1. Place(p) = <<p[1], p[2]>>
        BY <2>2, PlaceIs
      <3>. QED  BY <2>1, <2>2, <3>1
    <2>3. CASE rotation = 1
      <3>1. Place(p) = <<p[2], width - 1 - p[1]>>
        BY <2>3, PlaceIs
      <3>. QED  BY <1>2, <2>1, <2>3, <3>1
    <2>4. CASE rotation = 2
      <3>1. Place(p) = <<width - 1 - p[1], height - 1 - p[2]>>
        BY <2>4, PlaceIs
      <3>2. Place(p)[1] = Section - 1 - p[1] /\ Place(p)[2] = Section - 1 - p[2]
        BY <1>2, <3>1
      <3>3. axis = 2 /\ LineOf(i1(p)) = Section + 1 - i1(p)
        BY <2>4
      <3>4. i1(p) = Section - 1 - p[2] + 1 /\ Section \in Int
        BY <1>2, <3>2
      <3>. HIDE DEF axis, LineOf, i1
      <3>5. p[axis] + 1 = LineOf(i1(p)) /\ p[axis] \in 0 .. Section - 1
        BY <2>1, <3>3, <3>4
      <3>. QED  BY <1>2, <2>1, <3>1, <3>2, <3>5
    <2>5. CASE rotation = 3
      <3>1. Place(p) = <<height - 1 - p[2], p[1]>>
        BY <2>5, PlaceIs
      <3>. QED  BY <1>2, <2>1, <2>5, <3>1
    <2>. QED  BY <1>2, <2>2, <2>3, <2>4, <2>5
  <1>4. DOMAIN pics = 1..Section
    OBVIOUS
  <1>5. ASSUME NEW p \in Logical, NEW l \in 1..Section
        PROVE  /\ p \in DOMAIN pics[l] <=> l = LineOf(i1(p))
               /\ p \in DOMAIN pics[l] => pics[l][p] = f[p]
    <2>1. p \in DOMAIN pics[l] <=> p[axis] = l - 1
      OBVIOUS
    <2>2. p \in DOMAIN pics[l] => pics[l][p] = f[p]
      OBVIOUS
    <2>3. p[axis] = l - 1 <=> l = p[axis] + 1
      BY <1>3
    <2>. HIDE DEF pics, LineOf, i1, axis
    <2>. QED  BY <1>3, <2>1, <2>2, <2>3
  <1>6. \A i, j \in 1..Section : LineOf(i) = LineOf(j) <=> i = j
    BY <1>2
  <1>7. drawn \in SUBSET (1..Section)
    BY <1>2
  <1>8. lost' = Cardinality((1..Section) \ written)
    BY ManyMessages
  <1>9. Cardinality((1..Section) \ drawn) = Cardinality((1..Section) \ written)
    <2>. DEFINE T == (1..Section) \ written
    <2>1. CASE rotation \in {1, 2}
      <3>1. (1..Section) \ drawn = {Section + 1 - i : i \in T}
        <4>1. drawn = {Section + 1 - i : i \in written}
          BY <2>1
        <4>2. \A i \in 1..Section : /\ Section + 1 - i \in 1..Section
                                    /\ Section + 1 - (Section + 1 - i) = i
          BY <1>2
        <4>. HIDE DEF drawn
        <4>. QED  BY <4>1, <4>2
      <3>2. Section \in Nat /\ T \in SUBSET (1..Section)
        BY <1>2
      <3>. HIDE DEF T
      <3>3. Cardinality({Section + 1 - i : i \in T}) = Cardinality(T)
        BY <3>2, Mirrored
      <3>. QED  BY <3>1, <3>3 DEF T
    <2>2. CASE rotation \notin {1, 2}
      <3>1. drawn = written
        BY <2>2
      <3>. QED  BY <3>1
    <2>. QED  BY <2>1, <2>2
  <1>10. lit' = Shown(msgs, written) /\ UNCHANGED brightness
    <2>1. {i \in written : msgs[i].cmd = "INTENSITY"} = {}
      OBVIOUS
    <2>. QED  BY <2>1 DEF MonomeWrite, Dimmed
  <1>11. ASSUME NEW p \in Logical
         PROVE  Place(p) \in lit' <=> IF i1(p) \in written
                                      THEN TurnsOn(msgs[i1(p)], Place(p))
                                      ELSE Place(p) \in lit
    <2>. DEFINE about == {i \in written : Place(p) \in About(msgs[i])}
    <2>1. Place(p) \in lit' <=> IF about = {} THEN Place(p) \in lit
                                ELSE TurnsOn(msgs[Max(about)], Place(p))
      BY <1>10, PlaceIsOnHardware DEF Shown
    <2>2. ASSUME NEW i \in 1..Section
          PROVE  Place(p) \in About(msgs[i]) <=> i = i1(p)
      <3>1. About(msgs[i]) = (0 .. Section * 1 - 1) \X {i - 1}
        BY DEF About
      <3>2. <<Place(p)[1], Place(p)[2]>> \in (0 .. Section * 1 - 1) \X {i - 1}
              <=> Place(p)[2] = i - 1
        BY <1>2, <1>3
      <3>3. Place(p)[2] = i - 1 <=> i = i1(p)
        BY <1>3
      <3>. HIDE DEF i1
      <3>. QED  BY <1>3, <3>1, <3>2, <3>3
    <2>. HIDE DEF i1
    <2>3. CASE i1(p) \in written
      <3>1. about = {i1(p)}
        BY <2>2, <2>3
      <3>2. Max({i1(p)}) = i1(p)
        <4>1. i1(p) \in Int
          BY <1>2, <1>3, <2>3 DEF i1
        <4>. QED  BY <4>1 DEF Max
      <3>. HIDE DEF about
      <3>. QED  BY <2>1, <2>3, <3>1, <3>2
    <2>4. CASE i1(p) \notin written
      <3>1. about = {}
        BY <2>2, <2>4
      <3>. QED  BY <2>1, <2>4, <3>1
    <2>. QED  BY <2>3, <2>4
  <1>12. ASSUME NEW p \in Logical
         PROVE  \/ /\ \A l \in drawn : p \notin DOMAIN pics[l]
                   /\ Place(p) \in lit' <=> Place(p) \in lit
                \/ /\ \E l \in drawn : p \in DOMAIN pics[l]
                   /\ \A l \in drawn : p \in DOMAIN pics[l] =>
                         pics[l][p] = OnOff(Place(p) \in lit')
    <2>1. i1(p) \in 1..Section
      BY <1>2, <1>3
    <2>2. LineOf(i1(p)) \in drawn <=> i1(p) \in written
      <3>1. \A i \in written : i \in 1..Section
        OBVIOUS
      <3>. HIDE DEF LineOf, i1
      <3>. QED  BY <1>6, <2>1, <3>1
    <2>. HIDE DEF drawn, LineOf, pics
    <2>3. CASE i1(p) \in written
      <3>1. pics[LineOf(i1(p))][p] = OnOff(Place(p) \in lit')
        <4>1. f[p] = OnOff(TurnsOn(msgs[i1(p)], Place(p)))
          OBVIOUS
        <4>. HIDE DEF i1
        <4>. QED  BY <1>5, <1>7, <1>11, <2>2, <2>3, <4>1 DEF OnOff
      <3>. HIDE DEF i1
      <3>. QED  BY <1>5, <1>7, <2>2, <2>3, <3>1
    <2>4. CASE i1(p) \notin written
      <3>. HIDE DEF i1
      <3>. QED  BY <1>5, <1>7, <1>11, <2>2, <2>4
    <2>. QED  BY <2>3, <2>4
  <1>. HIDE DEF pics, drawn, LineOf, i1, axis
  <1>13. Promise(g)!Draw(pics)
    <2>1. drawn \in SUBSET DOMAIN pics
      BY <1>4, <1>7
    <2>2. lost' = Cardinality(DOMAIN pics \ drawn)
      BY <1>4, <1>8, <1>9
    <2>3. UNCHANGED <<grid, rotation, brightness>>
      BY <1>10
    <2>. QED  BY <1>12, <2>1, <2>2, <2>3, DrawnOver
  <1>. QED  BY <1>1, <1>13

(* Which LEDs of a row of one byte are on. *)
LEMMA RowOfSquare ==
    ASSUME NEW m, m.cmd = "ROW", NEW byte, m.data = <<byte>>,
           NEW i \in 0 .. Section - 1, NEW j
    PROVE  TurnsOn(m, <<i, j>>) <=> i \in byte
  <1>1. Section \in 2..8
    BY GridsAssumption
  <1>2. i \div Section = 0 /\ i % Section = i
    BY <1>1, PlaceInByte
  <1>. QED  BY <1>2 DEF TurnsOn

(* Where the LEDs of a 40h are. *)
LEMMA SquarePlace ==
    ASSUME GridTypeOK, ~Series, NEW p \in Logical
    PROVE  /\ Place(p) = <<Place(p)[1], Place(p)[2]>>
           /\ Place(p)[1] \in 0 .. Section - 1 /\ Place(p)[2] \in 0 .. Section - 1
           /\ Place(p)[2] + 1 \in 1..Section /\ Section \in 2..8
  <1>1. Section \in 2..8 /\ width = Section /\ height = Section
    BY SizesIn
  <1>2. Place(p) \in (0 .. Section - 1) \X (0 .. Section - 1)
    <2>1. grid.cols = Section /\ grid.rows = Section
      BY GridsAssumption DEF GridTypeOK, Series
    <2>. QED  BY <2>1, PlaceIsOnHardware DEF Hardware, HardwareGrid
  <1>. QED  BY <1>1, <1>2

(* monome_led_all() of a 40h draws every LED, or all but those of the rows  *)
(* it could not write.                                                      *)
LEMMA SquareAllDraws ==
    ASSUME GridTypeOK, NEW g, g = grid, UNCHANGED <<grid, rotation>>, ~torn',
           ~Series, NEW on \in {0, 1}, monome_led_all(on)
    PROVE  Promise(g)!AllTo(OnOff(on = 1))
  <1>. DEFINE byte == IF on = 0 THEN {} ELSE FullByte
              msgs == proto_40h_led_all(on)
              f == [p \in Promise(g)!Places(rotation) |-> OnOff(on = 1)]
  <1>1. msgs = [i \in 1..Section |-> Msg("ROW", i - 1, <<byte>>)]
    BY DEF proto_40h_led_all
  <1>2. PICK written \in SUBSET (1..Section) : MonomeWrite(msgs, written)
    BY DEF monome_led_all
  <1>. HIDE DEF msgs, byte
  <1>3. /\ DOMAIN msgs = 1..Section
        /\ \A i \in 1..Section : /\ msgs[i].cmd = "ROW" /\ msgs[i].at = i - 1
                                 /\ msgs[i].data = <<byte>>
                                 /\ Len(msgs[i].data) = 1
    BY <1>1 DEF Msg
  <1>4. DOMAIN f = Logical
    BY PlacesAreLogical
  <1>5. ASSUME NEW p \in Logical
        PROVE  f[p] = OnOff(TurnsOn(msgs[Place(p)[2] + 1], Place(p)))
    <2>. DEFINE i == Place(p)[2] + 1
    <2>1. i \in 1..Section /\ Place(p)[1] \in 0 .. Section - 1
          /\ Place(p) = <<Place(p)[1], Place(p)[2]>>
      BY SquarePlace
    <2>2. msgs[i].cmd = "ROW" /\ msgs[i].data = <<byte>>
      BY <1>3, <2>1
    <2>3. TurnsOn(msgs[i], <<Place(p)[1], Place(p)[2]>>) <=> Place(p)[1] \in byte
      BY <2>1, <2>2, RowOfSquare
    <2>4. Place(p)[1] \in byte <=> on = 1
      BY <2>1 DEF byte, FullByte
    <2>5. f[p] = OnOff(on = 1)
      BY <1>4
    <2>. QED  BY <2>1, <2>3, <2>4, <2>5 DEF OnOff
  <1>. HIDE DEF f
  <1>6. Promise(g)!Draw(Promise(g)!Lines(f))
    BY <1>2, <1>3, <1>4, <1>5, SquareDraws
  <1>. QED  BY <1>6 DEF f, Promise!AllTo

(* monome_led_map() of a 40h at rotation 0 draws its map, row by row. *)
LEMMA SquareMapDraws ==
    ASSUME GridTypeOK, NEW g, g = grid, UNCHANGED <<grid, rotation>>, ~torn',
           ~Series, rotation = 0,
           NEW bits \in SUBSET Points, monome_led_map(0, 0, bits),
           NEW levels, \A d \in Points : levels[d] = OnOff(d \in bits)
    PROVE  Promise(g)!DrawMap(0, 0, levels)
  <1>. DEFINE msgs == proto_40h_led_map(bits)
              f == [p \in (0 .. 0 + Section - 1) \X (0 .. 0 + Section - 1) |->
                      levels[<<p[1] - 0, p[2] - 0>>]]
  <1>1. PICK written \in SUBSET (1..Section) : MonomeWrite(msgs, written)
    BY DEF monome_led_map
  <1>2. Section \in 2..8 /\ width = Section /\ height = Section
    BY SizesIn
  <1>3. map_cb(bits) = bits
    BY DEF map_cb, output_cb
  <1>4. /\ DOMAIN msgs = 1..Section
        /\ \A i \in 1..Section : msgs[i] = proto_40h_led_col_row("ROW", i - 1, MapRow(bits, i - 1))
    BY <1>3 DEF proto_40h_led_map
  <1>. HIDE DEF msgs
  <1>5. ASSUME NEW i \in 1..Section
        PROVE  /\ msgs[i].cmd = "ROW" /\ msgs[i].at = i - 1
               /\ msgs[i].data = <<MapRow(bits, i - 1)>>
               /\ Len(msgs[i].data) = 1
    <2>1. Crossed("ROW") = "ROW"
      BY DEF Crossed, Swapped, ROW_COL_SWAP
    <2>2. ROTATE_COORDS(i - 1, i - 1) = <<i - 1, i - 1>>
      BY DEF ROTATE_COORDS, output_cb
    <2>3. (i - 1) % Section = i - 1
      <3>1. i - 1 \in 0 .. 2 * Section - 1 /\ i - 1 < Section
        BY <1>2
      <3>. QED  BY <3>1, PlaceInByte
    <2>4. BytesSent("ROW", <<MapRow(bits, i - 1)>>) = <<MapRow(bits, i - 1)>>
      BY DEF BytesSent, ROW_REVBITS
    <2>5. msgs[i] = Msg("ROW", i - 1, <<MapRow(bits, i - 1)>>)
      BY <1>4, <2>1, <2>2, <2>3, <2>4 DEF proto_40h_led_col_row
    <2>. QED  BY <2>5 DEF Msg
  <1>6. DOMAIN f = Logical
    <2>1. 0 .. 0 + Section - 1 = 0 .. Section - 1
      BY <1>2
    <2>. QED  BY <1>2, <2>1, PlacesAreLogical
  <1>7. ASSUME NEW p \in Logical
        PROVE  f[p] = OnOff(TurnsOn(msgs[Place(p)[2] + 1], Place(p)))
    <2>1. /\ Place(p) = <<p[1], p[2]>> /\ p = <<p[1], p[2]>>
          /\ p[1] \in 0 .. Section - 1 /\ p[2] \in 0 .. Section - 1
      BY <1>2, PlaceIs
    <2>2. f[p] = levels[<<p[1] - 0, p[2] - 0>>]
      BY <1>6
    <2>3. <<p[1] - 0, p[2] - 0>> = p /\ p \in Points
      BY <1>2, <2>1 DEF Points
    <2>4. f[p] = OnOff(p \in bits)
      BY <2>2, <2>3
    <2>5. p[2] + 1 \in 1..Section /\ p[2] + 1 - 1 = p[2]
      BY <1>2, <2>1
    <2>6. /\ msgs[p[2] + 1].cmd = "ROW"
          /\ msgs[p[2] + 1].data = <<MapRow(bits, p[2])>>
      <3>. DEFINE k == p[2] + 1
      <3>1. k \in 1..Section /\ k - 1 = p[2]
        BY <1>2, <2>1, <2>5
      <3>. HIDE DEF k
      <3>2. msgs[k].cmd = "ROW" /\ msgs[k].data = <<MapRow(bits, k - 1)>>
        BY <1>5, <3>1
      <3>. QED  BY <3>1, <3>2 DEF k
    <2>7. TurnsOn(msgs[p[2] + 1], <<p[1], p[2]>>) <=> p[1] \in MapRow(bits, p[2])
      BY <2>1, <2>5, <2>6, RowOfSquare
    <2>8. p[1] \in MapRow(bits, p[2]) <=> p \in bits
      <3>1. ASSUME NEW q \in bits, q[2] = p[2], q[1] = p[1] PROVE q = p
        BY <2>1, <3>1 DEF Points
      <3>. QED  BY <3>1 DEF MapRow
    <2>9. Place(p)[2] = p[2]
      BY <2>1
    <2>. HIDE DEF f
    <2>. QED  BY <2>1, <2>4, <2>7, <2>8, <2>9 DEF OnOff
  <1>. HIDE DEF f
  <1>8. Promise(g)!Draw(Promise(g)!Lines(f))
    BY <1>1, <1>4, <1>5, <1>6, <1>7, SquareDraws
  <1>. QED  BY <1>8 DEF f, Promise!DrawMap

(* monome_led_all() draws every LED, on either kind of device. *)
LEMMA LedAllDraws ==
    ASSUME GridTypeOK, NEW g, g = grid, UNCHANGED <<grid, rotation>>, ~torn',
           NEW on \in {0, 1}, monome_led_all(on)
    PROVE  Promise(g)!AllTo(OnOff(on = 1))
  BY SeriesAllDraws, SquareAllDraws, Zenon

(* A map is drawn where it is asked for, and shows these levels.            *)
LEMMA LedMapDraws ==
    ASSUME GridTypeOK, NEW g, g = grid, UNCHANGED <<grid, rotation>>, ~torn',
           DrawingAssumption, Series \/ rotation = 0,
           NEW x \in Corners, NEW y \in Corners,
           NEW bits \in SUBSET Points, monome_led_map(x, y, bits),
           NEW levels, \A d \in Points : levels[d] = OnOff(d \in bits)
    PROVE  Promise(g)!DrawMap(x, y, levels)
  <1>1. CASE Series
    <2>1. /\ UintRange % (4 * Section) = 0
          /\ x \in {0, Section} /\ y \in {0, Section}
      BY <1>1 DEF DrawingAssumption, Corners
    <2>. QED  BY <1>1, <2>1, SeriesMapDraws
  <1>2. CASE ~Series
    <2>1. x = 0 /\ y = 0 /\ rotation = 0
      BY <1>2 DEF Corners
    <2>. QED  BY <1>2, <2>1, SquareMapDraws
  <1>. QED  BY <1>1, <1>2

-----------------------------------------------------------------------------
(* Calls                                                                    *)

(* Levels at rotation 0 are reduced to the map that is nearest.             *)
LEMMA LevelMapReduced ==
    ASSUME rotation = 0, NEW levels \in [Points -> Level]
    PROVE  LET bits == Reduced(level_map_cb(levels))
           IN  /\ bits \in SUBSET Points
               /\ \A d \in Points : Nearest(levels)[d] = OnOff(d \in bits)
  <1>. DEFINE bits == Reduced(level_map_cb(levels))
  <1>1. \A d \in Points : level_map_cb(levels)[d] = levels[d]
    BY DEF level_map_cb, input_cb
  <1>2. \A d \in Points : d \in bits <=> reduce_level_to_bit(levels[d]) = 1
    BY <1>1 DEF Reduced
  <1>3. \A d \in Points : d \in bits <=> 2 * levels[d] > MaxLevel
    BY <1>2, ReducedLevel
  <1>4. \A d \in Points : Nearest(levels)[d] = OnOff(2 * levels[d] > MaxLevel)
    BY DEF Nearest
  <1>5. bits \in SUBSET Points
    BY DEF Reduced
  <1>. HIDE DEF bits
  <1>. QED  BY <1>3, <1>4, <1>5 DEF OnOff, bits

(* One level is reduced to which of off and full is nearer. *)
LEMMA OneLevel ==
    ASSUME NEW level \in Level
    PROVE  /\ reduce_level_to_bit(level) \in {0, 1}
           /\ Nearest(<<level>>)[1] = OnOff(reduce_level_to_bit(level) = 1)
  <1>1. Nearest(<<level>>)[1] = OnOff(2 * level > MaxLevel)
    BY DEF Nearest
  <1>. QED  BY <1>1, ReducedLevel DEF reduce_level_to_bit, OnOff

(* Every call keeps the promise, be it the call that was made or not.       *)
LEMMA CallsKeepPromise ==
    ASSUME GridTypeOK, DrawingAssumption, NEW g \in Grids, g = grid,
           UNCHANGED <<grid, rotation>>, ~torn'
    PROVE  CallKeepsPromise(g)
  <1>1. ~BigEndian /\ ~TurnedMaps
    BY DEF DrawingAssumption
  <1>2. width \in {grid.cols, grid.rows} /\ height \in {grid.cols, grid.rows}
        /\ width \in Length /\ height \in Length
    BY SizesIn
  <1>3. MapsAreSafe => rotation = 0
    BY <1>1 DEF MapsAreSafe
  <1>4. ASSUME NEW bytes \in ByteRows
        PROVE  /\ bytes \in Seq(SUBSET (0 .. Section - 1))
               /\ width \div Section <= Len(bytes) /\ height \div Section <= Len(bytes)
    BY <1>2, CallsAssumption DEF DrawingAssumption
  <1>5. ASSUME NEW levels \in LevelRows
        PROVE  /\ levels \in Seq(Level)
               /\ width \div Section <= Len(levels) \div Section
               /\ height \div Section <= Len(levels) \div Section
    BY <1>2, CallsAssumption DEF DrawingAssumption, Level
  <1>6. ASSUME NEW x \in 0 .. width - 1, NEW y \in 0 .. height - 1
        PROVE  /\ \A on \in {0, 1} : monome_led_set(x, y, on) =>
                     Promise(g)!SetTo(<<x, y>>, OnOff(on = 1))
               /\ \A level \in Level : monome_led_level_set(x, y, level) =>
                     Promise(g)!SetTo(<<x, y>>, Nearest(<<level>>)[1])
    <2>1. \A on \in {0, 1} : monome_led_set(x, y, on) =>
             Promise(g)!SetTo(<<x, y>>, OnOff(on = 1))
      BY LedSetDraws
    <2>2. ASSUME NEW level \in Level, monome_led_level_set(x, y, level)
          PROVE  Promise(g)!SetTo(<<x, y>>, Nearest(<<level>>)[1])
      BY <2>1, <2>2, OneLevel DEF monome_led_level_set
    <2>. QED  BY <2>1, <2>2
  <1>7. \A on \in {0, 1} : monome_led_all(on) => Promise(g)!AllTo(OnOff(on = 1))
    BY LedAllDraws
  <1>8. ASSUME NEW level \in Level, monome_led_level_all(level)
        PROVE  Promise(g)!AllTo(Nearest(<<level>>)[1])
    BY <1>7, <1>8, OneLevel DEF monome_led_level_all
  <1>9. \A i \in Intensities : monome_led_intensity(i) => Promise(g)!DimTo(i)
    BY IntensityDims
  <1>10. ASSUME NEW x \in Corners, NEW y \in Corners, NEW bits \in Bitmaps,
                Series \/ MapsAreSafe, monome_led_map(x, y, bits)
         PROVE  Promise(g)!DrawMap(x, y, Promise(g)!OfBits(bits))
    <2>1. bits \in SUBSET Points
      BY DEF DrawingAssumption
    <2>2. \A d \in Points : Promise(g)!OfBits(bits)[d] = OnOff(d \in bits)
      BY DEF Promise!OfBits, Promise!OnOff, Promise!Points, Points, OnOff
    <2>. QED  BY <1>3, <1>10, <2>1, <2>2, LedMapDraws
  <1>11. ASSUME NEW x \in Corners, NEW y \in Corners, NEW levels \in LevelMaps,
                MapsAreSafe, monome_led_level_map(x, y, levels)
         PROVE  Promise(g)!DrawMap(x, y, Nearest(levels))
    <2>. DEFINE bits == Reduced(level_map_cb(levels))
    <2>1. levels \in [Points -> Level]
      BY DEF DrawingAssumption
    <2>2. /\ bits \in SUBSET Points
          /\ \A d \in Points : Nearest(levels)[d] = OnOff(d \in bits)
      BY <1>3, <1>11, <2>1, LevelMapReduced
    <2>3. monome_led_map(x, y, bits)
      BY <1>11 DEF monome_led_level_map
    <2>. HIDE DEF bits
    <2>. QED  BY <1>3, <1>11, <2>2, <2>3, LedMapDraws
  <1>12. ASSUME NEW y \in 0 .. height - 1, NEW bytes \in ByteRows,
                monome_led_row(y, bytes)
         PROVE  Promise(g)!DrawRow(0, y, Promise(g)!OfBytes(bytes))
    <2>. DEFINE levels == Promise(g)!OfBytes(bytes)
    <2>1. /\ Len(levels) \div Section = Len(bytes)
          /\ \A i \in 0 .. width - 1 :
                levels[i + 1] = OnOff(i % Section \in bytes[i \div Section + 1])
      BY <1>2, <1>4, LevelsOfBytes
    <2>. HIDE DEF levels
    <2>2. Promise(g)!DrawRow(0, y, levels)
      BY <1>1, <1>4, <1>12, <2>1, LedRowDraws
    <2>. QED  BY <2>2 DEF levels
  <1>13. ASSUME NEW x \in 0 .. width - 1, NEW bytes \in ByteRows,
                monome_led_col(x, bytes)
         PROVE  Promise(g)!DrawCol(x, 0, Promise(g)!OfBytes(bytes))
    <2>. DEFINE levels == Promise(g)!OfBytes(bytes)
    <2>1. /\ Len(levels) \div Section = Len(bytes)
          /\ \A i \in 0 .. height - 1 :
                levels[i + 1] = OnOff(i % Section \in bytes[i \div Section + 1])
      BY <1>2, <1>4, LevelsOfBytes
    <2>. HIDE DEF levels
    <2>2. Promise(g)!DrawCol(x, 0, levels)
      BY <1>1, <1>4, <1>13, <2>1, LedColDraws
    <2>. QED  BY <2>2 DEF levels
  <1>14. ASSUME NEW y \in 0 .. height - 1, NEW levels \in LevelRows,
                monome_led_level_row(y, levels)
         PROVE  Promise(g)!DrawRow(0, y, Nearest(levels))
    <2>. DEFINE bytes == reduce_levels_to_bitmask(levels)
    <2>1. /\ bytes \in Seq(SUBSET (0 .. Section - 1))
          /\ Len(bytes) = Len(levels) \div Section
          /\ Len(Nearest(levels)) = Len(levels)
          /\ \A i \in 0 .. width - 1 : Nearest(levels)[i + 1] =
                OnOff(i % Section \in bytes[i \div Section + 1])
      BY <1>2, <1>5, BytesOfLevels
    <2>2. monome_led_row(y, bytes)
      BY <1>14 DEF monome_led_level_row
    <2>. HIDE DEF bytes
    <2>3. width \div Section <= Len(bytes) /\ Len(Nearest(levels)) \div Section = Len(bytes)
      BY <1>5, <2>1
    <2>. QED  BY <1>1, <2>1, <2>2, <2>3, LedRowDraws
  <1>15. ASSUME NEW x \in 0 .. width - 1, NEW levels \in LevelRows,
                monome_led_level_col(x, levels)
         PROVE  Promise(g)!DrawCol(x, 0, Nearest(levels))
    <2>. DEFINE bytes == reduce_levels_to_bitmask(levels)
    <2>1. /\ bytes \in Seq(SUBSET (0 .. Section - 1))
          /\ Len(bytes) = Len(levels) \div Section
          /\ Len(Nearest(levels)) = Len(levels)
          /\ \A i \in 0 .. height - 1 : Nearest(levels)[i + 1] =
                OnOff(i % Section \in bytes[i \div Section + 1])
      BY <1>2, <1>5, BytesOfLevels
    <2>2. monome_led_col(x, bytes)
      BY <1>15 DEF monome_led_level_col
    <2>. HIDE DEF bytes
    <2>3. height \div Section <= Len(bytes) /\ Len(Nearest(levels)) \div Section = Len(bytes)
      BY <1>5, <2>1
    <2>. QED  BY <1>1, <2>1, <2>2, <2>3, LedColDraws
  <1>. QED  BY <1>6, <1>7, <1>8, <1>9, <1>10, <1>11, <1>12, <1>13, <1>14, <1>15, Zenon
            DEF CallKeepsPromise

-----------------------------------------------------------------------------
(* Turning the grid                                                         *)

(* The picture the application sees in rotation r. *)
PictureAt(r) ==
    [p \in LogicalGrid(r, grid.cols, grid.rows) |->
        OnOff(output_cb(r, grid.cols, grid.rows, p) \in lit)]

(* A quarter turn later every place has another name. *)
LEMMA PlaceTurned ==
    ASSUME GridTypeOK, NEW r \in 0..3, NEW s \in 0..3, s = (r + 1) % 4,
           NEW p \in LogicalGrid(s, grid.cols, grid.rows)
    PROVE  LET q == <<p[2], monome_get_cols(s, grid.cols, grid.rows) - 1 - p[1]>>
           IN  /\ q \in LogicalGrid(r, grid.cols, grid.rows)
               /\ output_cb(r, grid.cols, grid.rows, q)
                    = output_cb(s, grid.cols, grid.rows, p)
  <1>. DEFINE C == grid.cols
              R == grid.rows
              W == monome_get_cols(s, C, R)
              H == monome_get_rows(s, C, R)
              q == <<p[2], W - 1 - p[1]>>
  <1>1. C \in Length /\ R \in Length /\ Section \in 2..8 /\ C \in Int /\ R \in Int
    BY SizesIn DEF Length
  <1>2. W \in Length /\ H \in Length /\ W \in Int /\ H \in Int
    BY <1>1 DEF monome_get_cols, monome_get_rows
  <1>3. p = <<p[1], p[2]>> /\ p[1] \in 0 .. W - 1 /\ p[2] \in 0 .. H - 1
    BY DEF LogicalGrid
  <1>4. /\ Sub(W - 1, p[1]) = W - 1 - p[1] /\ W - 1 - p[1] \in 0 .. W - 1
        /\ Sub(H - 1, p[2]) = H - 1 - p[2] /\ H - 1 - p[2] \in 0 .. H - 1
    BY <1>2, <1>3, FromTheOtherEnd
  <1>5. /\ Sub(W - 1, q[2]) = p[1]
    <2>1. Sub(W - 1, W - 1 - p[1]) = W - 1 - (W - 1 - p[1])
      BY <1>2, <1>4, FromTheOtherEnd
    <2>2. W - 1 - (W - 1 - p[1]) = p[1]
      BY <1>2, <1>3
    <2>. QED  BY <2>1, <2>2
  <1>6. /\ monome_get_cols(r, C, R) = H /\ monome_get_rows(r, C, R) = W
    <2>1. (r = 0 /\ s = 1) \/ (r = 1 /\ s = 2) \/ (r = 2 /\ s = 3) \/ (r = 3 /\ s = 0)
      OBVIOUS
    <2>. QED  BY <2>1 DEF monome_get_cols, monome_get_rows, ROW_COL_SWAP
  <1>7. q \in LogicalGrid(r, C, R)
    BY <1>3, <1>4, <1>6 DEF LogicalGrid
  <1>8. output_cb(s, C, R, p) =
           CASE s = 0 -> p
             [] s = 1 -> <<p[2], Sub(W - 1, p[1])>>
             [] s = 2 -> <<Sub(W - 1, p[1]), Sub(H - 1, p[2])>>
             [] s = 3 -> <<Sub(H - 1, p[2]), p[1]>>
    BY Zenon DEF output_cb, r90_output_cb, r180_output_cb, r270_output_cb
  <1>9. output_cb(r, C, R, q) =
           CASE r = 0 -> q
             [] r = 1 -> <<q[2], Sub(H - 1, q[1])>>
             [] r = 2 -> <<Sub(H - 1, q[1]), Sub(W - 1, q[2])>>
             [] r = 3 -> <<Sub(W - 1, q[2]), q[1]>>
    BY <1>6, Zenon DEF output_cb, r90_output_cb, r180_output_cb, r270_output_cb
  <1>10. q[1] = p[2] /\ q[2] = W - 1 - p[1]
    OBVIOUS
  <1>11. output_cb(r, C, R, q) = output_cb(s, C, R, p)
    <2>. HIDE DEF q, W, H, C, R
    <2>1. CASE r = 0
      <3>1. s = 1
        BY <2>1
      <3>2. output_cb(s, C, R, p) = <<p[2], Sub(W - 1, p[1])>>
        BY <1>8, <3>1
      <3>3. output_cb(r, C, R, q) = q
        BY <1>9, <2>1
      <3>. QED  BY <1>4, <3>2, <3>3 DEF q
    <2>2. CASE r = 1
      <3>1. s = 2
        BY <2>2
      <3>2. output_cb(s, C, R, p) = <<Sub(W - 1, p[1]), Sub(H - 1, p[2])>>
        BY <1>8, <3>1
      <3>3. output_cb(r, C, R, q) = <<q[2], Sub(H - 1, q[1])>>
        BY <1>9, <2>2
      <3>. QED  BY <1>4, <1>10, <3>2, <3>3
    <2>3. CASE r = 2
      <3>1. s = 3
        BY <2>3
      <3>2. output_cb(s, C, R, p) = <<Sub(H - 1, p[2]), p[1]>>
        BY <1>8, <3>1
      <3>3. output_cb(r, C, R, q) = <<Sub(H - 1, q[1]), Sub(W - 1, q[2])>>
        BY <1>9, <2>3
      <3>. QED  BY <1>5, <1>10, <3>2, <3>3
    <2>4. CASE r = 3
      <3>1. s = 0
        BY <2>4
      <3>2. output_cb(s, C, R, p) = p
        BY <1>8, <3>1
      <3>3. output_cb(r, C, R, q) = <<Sub(W - 1, q[2]), q[1]>>
        BY <1>9, <2>4
      <3>. QED  BY <1>3, <1>5, <1>10, <3>2, <3>3
    <2>. QED  BY <2>1, <2>2, <2>3, <2>4
  <1>. QED  BY <1>7, <1>11

(* The same picture from the next side. *)
LEMMA QuarterTurned ==
    ASSUME GridTypeOK, NEW g, g = grid, NEW t \in 0..5, NEW r \in 0..3, NEW s \in 0..3,
           r = t % 4, s = (t + 1) % 4
    PROVE  Promise(g)!QuarterTurn(t, PictureAt(r)) = PictureAt(s)
  <1>1. s = (r + 1) % 4 /\ ((t + 1) % 2 = 0 <=> s \notin {1, 3})
    OBVIOUS
  <1>2. /\ Promise(g)!Width(t + 1) = monome_get_cols(s, grid.cols, grid.rows)
        /\ Promise(g)!Height(t + 1) = monome_get_rows(s, grid.cols, grid.rows)
    BY <1>1 DEF Promise!Width, Promise!Height, monome_get_cols, monome_get_rows, ROW_COL_SWAP
  <1>3. Promise(g)!Places(t + 1) = LogicalGrid(s, grid.cols, grid.rows)
    BY <1>2 DEF Promise!Places, LogicalGrid
  <1>4. ASSUME NEW p \in LogicalGrid(s, grid.cols, grid.rows)
        PROVE  PictureAt(r)[<<p[2], Promise(g)!Width(t + 1) - 1 - p[1]>>] = PictureAt(s)[p]
    <2>. DEFINE q == <<p[2], monome_get_cols(s, grid.cols, grid.rows) - 1 - p[1]>>
    <2>1. /\ q \in LogicalGrid(r, grid.cols, grid.rows)
          /\ output_cb(r, grid.cols, grid.rows, q) = output_cb(s, grid.cols, grid.rows, p)
      BY <1>1, PlaceTurned
    <2>. HIDE DEF q
    <2>2. PictureAt(r)[q] = PictureAt(s)[p]
      BY <2>1, Zenon DEF PictureAt
    <2>. QED  BY <1>2, <2>2, Zenon DEF q
  <1>. QED  BY <1>3, <1>4, Zenon DEF Promise!QuarterTurn, PictureAt

(* Turning the grid changes no LED, and GridFrame's picture turns with it. *)
LEMMA RotationTurns ==
    ASSUME GridTypeOK, CallsAssumption, NEW g, g = grid,
           UNCHANGED <<grid, lit, brightness, lost>>,
           NEW arg \in Rotated, rotation' = RotationOf(arg)
    PROVE  Promise(g)!SetRotation
  <1>1. rotation \in 0..3 /\ arg \in Int /\ rotation' = arg % 4 /\ rotation' \in 0..3
    BY SizesIn DEF CallsAssumption, RotationOf
  <1>2. Frame = PictureAt(rotation) /\ Frame' = PictureAt(rotation')
    BY DEF Frame, PictureAt
  <1>. DEFINE n == (rotation' - rotation) % 4
              once == Promise(g)!QuarterTurn(rotation, Frame)
              twice == Promise(g)!QuarterTurn(rotation + 1, once)
              thrice == Promise(g)!QuarterTurn(rotation + 2, twice)
              At(k) == PictureAt((rotation + k) % 4)
  <1>3. \A k \in 0..3 : (rotation + k) % 4 \in 0..3
    BY <1>1
  <1>4. Frame = At(0)
    <2>1. (rotation + 0) % 4 = rotation
      BY <1>1
    <2>. QED  BY <1>2, <2>1
  <1>5. once = At(1)
    <2>1. rotation \in 0..5 /\ (rotation + 1) % 4 \in 0..3 /\ rotation = rotation % 4
      BY <1>1
    <2>. QED  BY <1>1, <1>2, <2>1, QuarterTurned
  <1>. HIDE DEF once
  <1>6. twice = At(2)
    <2>1. rotation + 1 \in 0..5 /\ (rotation + 1) % 4 \in 0..3
          /\ (rotation + 1 + 1) % 4 = (rotation + 2) % 4 /\ (rotation + 2) % 4 \in 0..3
      BY <1>1
    <2>2. Promise(g)!QuarterTurn(rotation + 1, PictureAt((rotation + 1) % 4))
            = PictureAt((rotation + 2) % 4)
      BY <2>1, QuarterTurned
    <2>. QED  BY <1>5, <2>2
  <1>. HIDE DEF twice
  <1>7. thrice = At(3)
    <2>1. rotation + 2 \in 0..5 /\ (rotation + 2) % 4 \in 0..3
          /\ (rotation + 2 + 1) % 4 = (rotation + 3) % 4 /\ (rotation + 3) % 4 \in 0..3
      BY <1>1
    <2>2. Promise(g)!QuarterTurn(rotation + 2, PictureAt((rotation + 2) % 4))
            = PictureAt((rotation + 3) % 4)
      BY <2>1, QuarterTurned
    <2>. QED  BY <1>6, <2>2
  <1>. HIDE DEF thrice
  <1>8. n \in 0..3 /\ (rotation + n) % 4 = rotation'
    <2>1. \A a, b \in 0..3 : (b - a) % 4 \in 0..3 /\ (a + ((b - a) % 4)) % 4 = b
      OBVIOUS
    <2>. QED  BY <1>1, <2>1
  <1>9. Promise(g)!Turned(n) = CASE n = 0 -> Frame [] n = 1 -> once
                                 [] n = 2 -> twice [] n = 3 -> thrice
    BY Zenon DEF Promise!Turned, once, twice, thrice
  <1>10. Promise(g)!Turned(n) = At(n)
    <2>. HIDE DEF n, At
    <2>1. CASE n = 0 BY <1>4, <1>9, <2>1
    <2>2. CASE n = 1 BY <1>5, <1>9, <2>2
    <2>3. CASE n = 2 BY <1>6, <1>9, <2>3
    <2>4. CASE n = 3 BY <1>7, <1>9, <2>4
    <2>. QED  BY <1>8, <2>1, <2>2, <2>3, <2>4
  <1>11. Frame' = Promise(g)!Turned(n)
    BY <1>2, <1>8, <1>10
  <1>. QED  BY <1>1, <1>11, Zenon DEF Promise!SetRotation

-----------------------------------------------------------------------------
(* Steps that show nothing new                                              *)

(* A step that changes no LED leaves the picture as it is. *)
LEMMA PictureStays ==
    ASSUME UNCHANGED <<grid, rotation, lit>>
    PROVE  /\ \A p \in Logical : Place(p)' = Place(p)
           /\ \A p \in Logical : Frame[p] = OnOff(Place(p) \in lit)
           /\ \A p \in Logical : Place(p) \in lit' <=> Place(p) \in lit
  BY DEF Frame, Logical, Place

(* A call of one message that shows nothing new, or is lost: a place that   *)
(* is set to what it shows.                                                 *)
LEMMA OneSectionOrNone ==
    ASSUME GridTypeOK, NEW g, g = grid,
           UNCHANGED <<grid, rotation, lit, brightness>>, lost' \in {0, 1}
    PROVE  Promise(g)!Next
  <1>. DEFINE p == <<0, 0>>
              pics == << [q \in {p} |-> Frame[p]] >>
              drawn == IF lost' = 0 THEN {1} ELSE {}
  <1>1. p \in Logical /\ p \in Promise(g)!Places(rotation)
    <2>1. 0 \in 0 .. width - 1 /\ 0 \in 0 .. height - 1
      BY SizesIn
    <2>. QED  BY <2>1, PlacesAreLogical
  <1>2. Frame[p] = OnOff(Place(p) \in lit)
    BY <1>1, PictureStays
  <1>3. Frame[p] \in Promise(g)!Level
    <2>1. MaxLevel \in Nat
      BY GridsAssumption
    <2>. QED  BY <1>2, <2>1 DEF OnOff, Promise!Level
  <1>4. DOMAIN pics = {1} /\ DOMAIN pics[1] = {p} /\ pics[1][p] = Frame[p]
    OBVIOUS
  <1>. HIDE DEF pics, p
  <1>5. drawn \in SUBSET DOMAIN pics
    BY <1>4
  <1>6. lost' = Cardinality(DOMAIN pics \ drawn)
    <2>1. CASE lost' = 0
      <3>1. DOMAIN pics \ drawn = {}
        BY <1>4, <2>1
      <3>. QED  BY <2>1, <3>1, FS_EmptySet
    <2>2. CASE lost' = 1
      <3>1. DOMAIN pics \ drawn = {1}
        BY <1>4, <2>2
      <3>. QED  BY <2>2, <3>1, FS_Singleton
    <2>. QED  BY <2>1, <2>2
  <1>7. ASSUME NEW q \in Logical
        PROVE  \/ /\ \A i \in drawn : q \notin DOMAIN pics[i]
                  /\ Place(q) \in lit' <=> Place(q) \in lit
               \/ /\ \E i \in drawn : q \in DOMAIN pics[i]
                  /\ \A i \in drawn : q \in DOMAIN pics[i] =>
                        pics[i][q] = OnOff(Place(q) \in lit')
    <2>1. Place(q) \in lit' <=> Place(q) \in lit
      OBVIOUS
    <2>2. CASE lost' = 0 /\ q = p
      BY <1>2, <1>4, <2>1, <2>2 DEF OnOff
    <2>3. CASE ~(lost' = 0 /\ q = p)
      BY <1>4, <2>1, <2>3
    <2>. QED  BY <2>2, <2>3
  <1>. HIDE DEF drawn
  <1>8. Promise(g)!Draw(pics)
    BY <1>5, <1>6, <1>7, DrawnOver
  <1>9. Promise(g)!SetTo(p, Frame[p])
    BY <1>8 DEF Promise!SetTo, pics
  <1>10. Promise(g)!Set
    BY <1>1, <1>3, <1>9 DEF Promise!Set
  <1>. QED  BY <1>10 DEF Promise!Next

(* A line of two sections that is lost.                                     *)
LEMMA LineLost ==
    ASSUME GridTypeOK, DrawingAssumption, NEW g, g = grid,
           UNCHANGED <<grid, rotation, lit, brightness>>, lost' = 2,
           NEW mode \in Modes, Long(mode) = 2 * Section,
           NEW levels, Len(levels) \div Section \in Nat, Len(levels) \div Section >= 2
    PROVE  Promise(g)!Draw(Pictures(mode, 0, levels))
  <1>. DEFINE pics == Pictures(mode, 0, levels)
              K == Len(levels) \div Section
              drawn == (1..K) \ {1, 2}
  <1>1. Long(mode) \in Length /\ Long(mode) \div Section = 2
    <2>1. Long(mode) \in Length /\ Section \in 2..8
      BY SizesIn DEF Long
    <2>2. Long(mode) \div Section \in 1..2 /\ Section * (Long(mode) \div Section) = Long(mode)
      BY <2>1, SectionsOfLine
    <2>. QED  BY <2>1, <2>2
  <1>2. DOMAIN pics = 1..K
    BY DEF Pictures, RowPictures, ColPictures
  <1>3. PicturesInOrder(mode, 0, levels, pics)
    BY PictureOfPlace
  <1>. HIDE DEF pics
  <1>4. ASSUME NEW p \in Logical, NEW i \in drawn
        PROVE  p \notin DOMAIN pics[i]
    <2>1. Along(mode, p) \in 0 .. Long(mode) - 1
      BY PlaceOnLine
    <2>2. Along(mode, p) \div Section + 1 \in 1..2
      BY <1>1, <2>1, SectionsOfLine
    <2>3. i \in 1..K /\ i \notin {1, 2}
      OBVIOUS
    <2>4. p \in DOMAIN pics[i] => i = Along(mode, p) \div Section + 1
      BY <1>3, <2>3 DEF PicturesInOrder
    <2>. QED  BY <2>2, <2>3, <2>4
  <1>5. lost' = Cardinality(DOMAIN pics \ drawn)
    <2>1. DOMAIN pics \ drawn = {1} \cup {2}
      BY <1>2
    <2>2. IsFiniteSet({1}) /\ Cardinality({1}) = 1
      BY FS_Singleton, Zenon
    <2>3. 2 \notin {1}
      OBVIOUS
    <2>4. Cardinality({1} \cup {2}) = Cardinality({1}) + 1
      BY <2>2, <2>3, FS_AddElement, Zenon
    <2>5. \A a, b : a = 1 /\ b = a + 1 => b = 2
      OBVIOUS
    <2>6. Cardinality({1} \cup {2}) = 2
      BY <2>2, <2>4, <2>5, Zenon
    <2>. QED  BY <2>1, <2>6
  <1>6. drawn \in SUBSET DOMAIN pics
    BY <1>2
  <1>7. \A p \in Logical :
           \/ /\ \A i \in drawn : p \notin DOMAIN pics[i]
              /\ Place(p) \in lit' <=> Place(p) \in lit
           \/ /\ \E i \in drawn : p \in DOMAIN pics[i]
              /\ \A i \in drawn : p \in DOMAIN pics[i] =>
                    pics[i][p] = OnOff(Place(p) \in lit')
    BY <1>4
  <1>. HIDE DEF drawn
  <1>8. Promise(g)!Draw(pics)
    BY <1>5, <1>6, <1>7, DrawnOver
  <1>. QED  BY <1>8 DEF pics

(* On a device with lines of two sections a call may lose two and change    *)
(* nothing.                                                                 *)
LEMMA TwoSectionsLost ==
    ASSUME GridTypeOK, DrawingAssumption, NEW g, g = grid,
           UNCHANGED <<grid, rotation, lit, brightness>>, lost' = 2,
           NEW mode \in Modes, Long(mode) = 2 * Section
    PROVE  Promise(g)!Next
  <1>1. PICK bytes \in ByteRows : TRUE
    BY DEF DrawingAssumption
  <1>2. /\ Long(mode) \in Length /\ Long(mode) \in {grid.cols, grid.rows}
        /\ grid \in Grids
    BY SizesIn DEF Long
  <1>3. /\ bytes \in Seq(SUBSET (0 .. Section - 1)) /\ Len(bytes) \in Nat
        /\ Long(mode) \div Section <= Len(bytes)
    <2>1. bytes \in Seq(SUBSET (0 .. Section - 1))
      BY CallsAssumption
    <2>2. Long(mode) \div Section <= Len(bytes)
      BY <1>2 DEF DrawingAssumption
    <2>. QED  BY <2>1, <2>2
  <1>. DEFINE levels == Promise(g)!OfBytes(bytes)
  <1>4. Len(levels) \div Section = Len(bytes)
    BY <1>2, <1>3, LevelsOfBytes
  <1>5. levels \in {Promise(g)!OfBytes(b) : b \in ByteRows}
    OBVIOUS
  <1>6. Len(bytes) >= 2
    <2>1. Section \in 2..8 /\ Long(mode) \div Section \in 1..2
          /\ Section * (Long(mode) \div Section) = Long(mode)
      BY <1>2, SizesIn, SectionsOfLine
    <2>. QED  BY <1>3, <2>1
  <1>. HIDE DEF levels
  <1>7. Promise(g)!Draw(Pictures(mode, 0, levels))
    BY <1>3, <1>4, <1>6, LineLost
  <1>8. 0 \in Offsets
    BY DEF DrawingAssumption
  <1>9. 0 \in 0 .. Promise(g)!Height(rotation) - 1 /\ 0 \in 0 .. Promise(g)!Width(rotation) - 1
    BY SizesIn DEF Promise!Height, Promise!Width, Length
  <1>10. CASE mode = "ROW"
    <2>1. Promise(g)!DrawRow(0, 0, levels)
      BY <1>7, <1>10 DEF Pictures, RowPictures, Promise!DrawRow
    <2>2. Promise(g)!RowOrCol
      BY <1>5, <1>8, <1>9, <2>1 DEF Promise!RowOrCol
    <2>. QED  BY <2>2 DEF Promise!Next
  <1>11. CASE mode = "COL"
    <2>1. Promise(g)!DrawCol(0, 0, levels)
      BY <1>7, <1>11 DEF Pictures, ColPictures, Promise!DrawCol
    <2>2. Promise(g)!RowOrCol
      BY <1>5, <1>8, <1>9, <2>1 DEF Promise!RowOrCol
    <2>. QED  BY <2>2 DEF Promise!Next
  <1>. QED  BY <1>10, <1>11 DEF Modes

(* All but the first of n lines.                                            *)
LEMMA FirstLines ==
    ASSUME NEW n \in Nat, NEW k \in 0..n
    PROVE  1 .. n - k \in SUBSET (1..n) /\ Cardinality((1..n) \ (1 .. n - k)) = k
  <1>1. n - k + 1 \in Int /\ n \in Int /\ (n - k + 1 > n => k = 0)
        /\ n - (n - k + 1) + 1 = k
    OBVIOUS
  <1>2. (1..n) \ (1 .. n - k) = n - k + 1 .. n
    OBVIOUS
  <1>3. Cardinality(n - k + 1 .. n) =
          IF n - k + 1 > n THEN 0 ELSE n - (n - k + 1) + 1
    BY <1>1, FS_Interval, Zenon
  <1>4. 1 .. n - k \in SUBSET (1..n)
    OBVIOUS
  <1>5. Cardinality(n - k + 1 .. n) = k
    BY <1>1, <1>3
  <1>. QED  BY <1>2, <1>4, <1>5, Zenon

(* A map of which some lines are lost, and the others show what they did.   *)
LEMMA LinesLost ==
    ASSUME GridTypeOK, NEW g, g = grid, ~Series, Bitmaps = SUBSET Points, 0 \in Offsets,
           UNCHANGED <<grid, rotation, lit, brightness>>, lost' \in 0..Section
    PROVE  Promise(g)!Next
  <1>. DEFINE bits == {p \in Points : Place(p) \in lit}
              levels == Promise(g)!OfBits(bits)
              f == [p \in (0 .. 0 + Section - 1) \X (0 .. 0 + Section - 1) |->
                      levels[<<p[1] - 0, p[2] - 0>>]]
              pics == LinesOf(f)
              drawn == 1 .. Section - lost'
  <1>1. /\ Section \in 2..8 /\ rotation \in 0..3
        /\ Logical = (0 .. Section - 1) \X (0 .. Section - 1) /\ Logical = Points
    <2>1. width = Section /\ height = Section /\ Section \in 2..8 /\ rotation \in 0..3
      BY SizesIn
    <2>. QED  BY <2>1, PlacesAreLogical DEF Points
  <1>13. Section \in Nat /\ lost' \in 0..Section
    BY <1>1
  <1>2. DOMAIN f = Logical
    <2>1. 0 .. 0 + Section - 1 = 0 .. Section - 1
      BY <1>1
    <2>. QED  BY <1>1, <2>1
  <1>3. ASSUME NEW p \in Logical PROVE f[p] = OnOff(Place(p) \in lit)
    <2>1. p = <<p[1], p[2]>> /\ p[1] - 0 = p[1] /\ p[2] - 0 = p[2] /\ p \in Points
      BY <1>1
    <2>2. f[p] = levels[<<p[1] - 0, p[2] - 0>>]
      BY <1>2
    <2>3. \A d \in Points : levels[d] = OnOff(d \in bits)
      BY DEF Promise!OfBits, Promise!OnOff, Promise!Points, Points, OnOff
    <2>. HIDE DEF f, levels
    <2>. QED  BY <2>1, <2>2, <2>3 DEF OnOff
  <1>. HIDE DEF levels, f
  <1>4. Promise(g)!Lines(f) = pics
    BY <1>2, LinesOfSquare
  <1>5. /\ DOMAIN pics = 1..Section
        /\ \A i \in 1..Section, p \in Logical :
             /\ p \in DOMAIN pics[i] <=> p[Axis] = i - 1
             /\ p \in DOMAIN pics[i] => pics[i][p] = f[p]
    BY <1>2 DEF LinesOf
  <1>. HIDE DEF pics
  <1>14. drawn \in SUBSET (1..Section) /\ lost' = Cardinality((1..Section) \ drawn)
    BY <1>13, FirstLines
  <1>6. drawn \in SUBSET DOMAIN pics
    BY <1>14, <1>5
  <1>7. lost' = Cardinality(DOMAIN pics \ drawn)
    BY <1>5, <1>14
  <1>8. ASSUME NEW p \in Logical
        PROVE  \/ /\ \A i \in drawn : p \notin DOMAIN pics[i]
                  /\ Place(p) \in lit' <=> Place(p) \in lit
               \/ /\ \E i \in drawn : p \in DOMAIN pics[i]
                  /\ \A i \in drawn : p \in DOMAIN pics[i] =>
                        pics[i][p] = OnOff(Place(p) \in lit')
    <2>1. Place(p) \in lit' <=> Place(p) \in lit
      OBVIOUS
    <2>2. \A i \in drawn : p \in DOMAIN pics[i] => pics[i][p] = OnOff(Place(p) \in lit')
      BY <1>3, <1>5, <1>6, <2>1 DEF OnOff
    <2>. QED  BY <2>1, <2>2
  <1>. HIDE DEF drawn
  <1>9. Promise(g)!Draw(pics)
    BY <1>6, <1>7, <1>8, DrawnOver
  <1>10. Promise(g)!DrawMap(0, 0, levels)
    BY <1>4, <1>9 DEF f, Promise!DrawMap
  <1>11. levels \in {Promise(g)!OfBits(b) : b \in Bitmaps}
    <2>1. bits \in Bitmaps
      OBVIOUS
    <2>. HIDE DEF bits
    <2>. QED  BY <2>1 DEF levels
  <1>12. Promise(g)!Map
    BY <1>10, <1>11, Zenon DEF Promise!Map
  <1>. QED  BY <1>12 DEF Promise!Next

-----------------------------------------------------------------------------
(* Requests lose what they lose, and no more                                *)

(* One message is written or its sections are lost. *)
LEMMA OneMessageLost ==
    ASSUME NEW m, Sections(m) \in 1..2, WriteOne(m)
    PROVE  lost' \in {0, Sections(m)}
  <1>. DEFINE parts == 1 .. Sections(m)
  <1>1. PICK written \in SUBSET {1} : MonomeWrite(<<m>>, written)
    BY DEF WriteOne
  <1>2. DOMAIN <<m>> = {1} /\ <<m>>[1] = m
    OBVIOUS
  <1>3. CASE written = {1}
    <2>1. {1} \ written = {}
      BY <1>3
    <2>. QED  BY <1>1, <1>2, <2>1, FS_EmptySet DEF MonomeWrite
  <1>4. CASE written = {}
    <2>1. UNION {{i} \X (1 .. Sections(<<m>>[i])) : i \in {1} \ written}
            = {1} \X parts
      BY <1>2, <1>4
    <2>2. lost' = Cardinality({1} \X parts)
      BY <1>1, <1>2, <2>1 DEF MonomeWrite
    <2>3. IsFiniteSet({1}) /\ Cardinality({1}) = 1
      BY FS_Singleton
    <2>4. IsFiniteSet(parts) /\ Cardinality(parts) = Sections(m)
      <3>1. 1 \in Int /\ Sections(m) \in Int /\ ~(1 > Sections(m))
            /\ Sections(m) - 1 + 1 = Sections(m)
        OBVIOUS
      <3>. QED  BY <3>1, FS_Interval
    <2>. HIDE DEF parts
    <2>5. Cardinality({1} \X parts) = Cardinality({1}) * Cardinality(parts)
      BY <2>3, <2>4, FS_Product, Zenon
    <2>. QED  BY <2>2, <2>3, <2>4, <2>5
  <1>. QED  BY <1>3, <1>4

(* What a step that draws may leave out. *)
LossIsBounded ==
    \/ lost' \in {0, 1}
    \/ lost' = 2 /\ \E mode \in Modes : Long(mode) = 2 * Section
    \/ ~Series /\ lost' \in 0..Section

(* A message that is no line loses one section at most. *)
LEMMA OneSectionLost ==
    ASSUME NEW m, m.cmd \notin {"ROW", "COL"}, WriteOne(m)
    PROVE  LossIsBounded
  <1>1. Sections(m) = 1
    BY DEF Sections
  <1>. QED  BY <1>1, OneMessageLost DEF LossIsBounded

(* A line loses no more sections than it has. *)
LEMMA LineLoses ==
    ASSUME GridTypeOK, Series, NEW mode \in Modes, NEW line, NEW S, NEW bytes \in Seq(S),
           WriteOne(SeriesLine(mode, line, Long(mode), bytes))
    PROVE  LossIsBounded
  <1>. DEFINE m == SeriesLine(mode, line, Long(mode), bytes)
  <1>1. Sound(m)
    BY SeriesLineIsSound DEF Modes
  <1>2. m.cmd \in {"ROW", "COL"} /\ (Long(mode) <= Section => Len(m.data) = 1)
    <2>1. CASE Long(mode) <= Section
      <3>1. m.cmd = Crossed(mode) /\ m.data = BytesSent(mode, <<bytes[1]>>)
        BY <2>1 DEF SeriesLine, proto_series_led_col_row_8, Msg
      <3>. QED  BY <3>1, CrossedIsALine, OneByteSent DEF Modes
    <2>2. CASE ~(Long(mode) <= Section)
      <3>1. m.cmd = Crossed(mode)
        BY <2>2 DEF SeriesLine, proto_series_led_col_row_16, Msg
      <3>. QED  BY <2>2, <3>1, CrossedIsALine DEF Modes
    <2>. QED  BY <2>1, <2>2
  <1>. HIDE DEF m
  <1>3. Sections(m) = Len(m.data) /\ Len(m.data) \in 1..2
    BY <1>1, <1>2 DEF Sound, Sections
  <1>4. lost' \in {0, Sections(m)}
    BY <1>3, OneMessageLost DEF m
  <1>5. Section \in 2..8 /\ Long(mode) \in {Section, 2 * Section}
    BY SizesIn DEF Long, Length
  <1>6. CASE Sections(m) = 1
    BY <1>4, <1>6 DEF LossIsBounded
  <1>7. CASE Sections(m) = 2
    <2>1. ~(Long(mode) <= Section)
      BY <1>2, <1>3, <1>7
    <2>2. Long(mode) = 2 * Section
      BY <1>5, <2>1
    <2>. QED  BY <1>4, <1>7, <2>2 DEF LossIsBounded
  <1>. QED  BY <1>3, <1>6, <1>7

(* Nor does monome_led_all(): one section, or the eight rows of a 40h. *)
LEMMA AllLoses ==
    ASSUME GridTypeOK, NEW status, monome_led_all(status)
    PROVE  LossIsBounded
  <1>1. CASE Series
    <2>1. /\ WriteOne(proto_series_led_all(status))
          /\ proto_series_led_all(status).cmd = "CLEAR"
      BY <1>1 DEF monome_led_all, proto_series_led_all, Msg
    <2>. QED  BY <2>1, OneSectionLost
  <1>2. CASE ~Series
    BY <1>2, LedAllIsSound DEF CallIsSound, LossIsBounded
  <1>. QED  BY <1>1, <1>2

(* Whatever a request asks for. *)
LEMMA ServeLoses ==
    ASSUME GridTypeOK, NEW r \in Requests, Serve(r)
    PROVE  LossIsBounded \/ UNCHANGED outputVars
  <1>1. CASE ~Series
    BY <1>1, ServeIsSound DEF CallIsSound, LossIsBounded
  <1>2. CASE ~Handled(r)
    BY <1>2 DEF Serve
  <1>3. CASE Series /\ Handled(r) /\ r.path = "led"
    <2>1. CASE UNCHANGED outputVars
      BY <2>1
    <2>2. CASE monome_led_set(r.args[1], r.args[2], r.args[3])
      <3>1. PICK m : m.cmd \in {"LED_OFF", "LED_ON"} /\ WriteOne(m)
        BY <2>2 DEF monome_led_set, proto_series_led_set, proto_40h_led_set, Msg
      <3>. QED  BY <3>1, OneSectionLost
    <2>. QED  BY <1>3, <2>1, <2>2 DEF Serve, osc_led_handler
  <1>4. CASE Series /\ Handled(r) /\ r.path = "clear"
    BY <1>4, AllLoses DEF Serve, osc_led_all_handler
  <1>5. CASE Series /\ Handled(r) /\ r.path = "frame"
    <2>1. PICK x, y, bits : monome_led_map(x, y, bits)
      BY <1>5 DEF Serve, osc_led_map_handler
    <2>2. /\ WriteOne(proto_series_led_map(x, y, bits))
          /\ proto_series_led_map(x, y, bits).cmd = "FRAME"
      BY <1>5, <2>1 DEF monome_led_map, proto_series_led_map, Msg
    <2>. QED  BY <2>2, OneSectionLost
  <1>6. CASE Series /\ Handled(r) /\ r.path = "intensity"
    <2>1. PICK b : monome_led_intensity(b)
      BY <1>6 DEF Serve, osc_intensity_handler
    <2>2. PICK m : m.cmd = "INTENSITY" /\ WriteOne(m)
      BY <2>1 DEF monome_led_intensity, proto_series_led_intensity, proto_40h_intensity, Msg
    <2>. QED  BY <2>2, OneSectionLost
  <1>7. CASE Series /\ Handled(r) /\ r.path \in {"led_row", "led_col"}
    <2>1. osc_led_col_row_handler(r.path, r.args)
      BY <1>7 DEF Serve
    <2>2. r.args # <<>>
      BY <1>7 DEF Handled, register_osc_methods
    <2>3. PICK S : Tail(r.args) \in Seq(S)
      BY <2>2, ArgumentsAreASequence
    <2>4. \E mode \in Modes :
             WriteOne(SeriesLine(mode, r.args[1], Long(mode), Tail(r.args)))
      BY <1>7, <2>1 DEF osc_led_col_row_handler, monome_led_row, monome_led_col,
                        proto_series_led_row, proto_series_led_col, Modes, Long
    <2>. QED  BY <1>7, <2>3, <2>4, LineLoses
  <1>8. Handled(r) => r.path \in {"led", "clear", "frame", "led_row", "led_col",
                                  "intensity"}
    BY DEF Handled, register_osc_methods
  <1>. QED  BY <1>1, <1>2, <1>3, <1>4, <1>5, <1>6, <1>7, <1>8

(* A step of the daemon that shows nothing new is one of GridFrame's. *)
LEMMA NothingNewKeepsPromise ==
    ASSUME GridTypeOK, DrawingAssumption, NEW g, g = grid, grid \in Served,
           UNCHANGED <<grid, rotation, lit, brightness>>, LossIsBounded
    PROVE  Promise(g)!Next
  <1>1. CASE lost' \in {0, 1}
    BY <1>1, OneSectionOrNone
  <1>2. CASE lost' = 2 /\ \E mode \in Modes : Long(mode) = 2 * Section
    BY <1>2, TwoSectionsLost
  <1>3. CASE ~Series /\ lost' \in 0..Section
    <2>1. grid.proto = "40h"
      BY <1>3, GridsAssumption DEF GridTypeOK, Series
    <2>2. Bitmaps = SUBSET Points /\ 0 \in Offsets
      BY <2>1 DEF DrawingAssumption
    <2>. QED  BY <1>3, <2>2, LinesLost
  <1>. QED  BY <1>1, <1>2, <1>3 DEF LossIsBounded

(* The program's calls are steps of GridFrame. *)

(* Off and full are levels of GridFrame. *)
LEMMA LevelsOfPromise ==
    ASSUME NEW g, NEW on
    PROVE  OnOff(on) \in Promise(g)!Level
  <1>1. MaxLevel \in Nat
    BY GridsAssumption
  <1>. QED  BY <1>1 DEF OnOff, Promise!Level

(* GridFrame has the device as large as its application has it. *)
LEMMA SizesOfPromise ==
    ASSUME GridTypeOK, NEW g, g = grid
    PROVE  Promise(g)!Width(rotation) = width /\ Promise(g)!Height(rotation) = height
  <1>1. rotation \in 0..3
    BY SizesIn
  <1>2. rotation % 2 = 0 <=> rotation \in {0, 2}
    BY <1>1
  <1>. QED  BY <1>1, <1>2 DEF Promise!Width, Promise!Height, width, height,
                  monome_get_cols, monome_get_rows, ROW_COL_SWAP

(* Every call with bits is a step of GridFrame, be it the call that was     *)
(* made or one that shows nothing new.                                      *)
LEMMA LedCallIsAStep ==
    ASSUME GridTypeOK, DrawingAssumption, NEW g \in Grids, g = grid,
           UNCHANGED <<grid, rotation>>, ~torn', LedCall
    PROVE  Promise(g)!Next
  <1>1. CallKeepsPromise(g)
    BY CallsKeepPromise
  <1>2. /\ \A x \in 0 .. width - 1, y \in 0 .. height - 1 :
             <<x, y>> \in Promise(g)!Places(rotation)
        /\ Promise(g)!Width(rotation) = width /\ Promise(g)!Height(rotation) = height
    BY PlacesAreLogical, SizesOfPromise
  <1>3. 0 \in Offsets /\ Corners \subseteq Offsets
    BY DEF DrawingAssumption, Corners
  <1>4. CASE \E x \in 0 .. width - 1, y \in 0 .. height - 1, on \in {0, 1} :
               monome_led_set(x, y, on)
    <2>1. PICK x \in 0 .. width - 1, y \in 0 .. height - 1, on \in {0, 1} :
               monome_led_set(x, y, on)
      BY <1>4
    <2>2. Promise(g)!SetTo(<<x, y>>, OnOff(on = 1))
      BY <1>1, <2>1, Zenon DEF CallKeepsPromise
    <2>3. Promise(g)!Set
      BY <1>2, <2>2, LevelsOfPromise, Zenon DEF Promise!Set
    <2>. QED  BY <2>3 DEF Promise!Next
  <1>5. CASE \E status \in {0, 1} : monome_led_all(status)
    <2>1. PICK on \in {0, 1} : monome_led_all(on)
      BY <1>5
    <2>2. Promise(g)!AllTo(OnOff(on = 1))
      BY <1>1, <2>1, Zenon DEF CallKeepsPromise
    <2>3. Promise(g)!All
      BY <2>2, LevelsOfPromise, Zenon DEF Promise!All
    <2>. QED  BY <2>3 DEF Promise!Next
  <1>6. CASE \E x, y \in Corners, bits \in Bitmaps :
               (Series \/ MapsAreSafe) /\ monome_led_map(x, y, bits)
    <2>1. PICK x \in Corners, y \in Corners, bits \in Bitmaps :
               (Series \/ MapsAreSafe) /\ monome_led_map(x, y, bits)
      BY <1>6
    <2>2. Promise(g)!DrawMap(x, y, Promise(g)!OfBits(bits))
      BY <1>1, <2>1, Zenon DEF CallKeepsPromise
    <2>3. Promise(g)!Map
      BY <1>3, <2>2, Zenon DEF Promise!Map
    <2>. QED  BY <2>3 DEF Promise!Next
  <1>7. CASE \E y \in 0 .. height - 1, bytes \in ByteRows : monome_led_row(y, bytes)
    <2>1. PICK y \in 0 .. height - 1, bytes \in ByteRows : monome_led_row(y, bytes)
      BY <1>7
    <2>2. Promise(g)!DrawRow(0, y, Promise(g)!OfBytes(bytes))
      BY <1>1, <2>1, Zenon DEF CallKeepsPromise
    <2>3. Promise(g)!RowOrCol
      BY <1>2, <1>3, <2>2, Zenon DEF Promise!RowOrCol
    <2>. QED  BY <2>3 DEF Promise!Next
  <1>8. CASE \E x \in 0 .. width - 1, bytes \in ByteRows : monome_led_col(x, bytes)
    <2>1. PICK x \in 0 .. width - 1, bytes \in ByteRows : monome_led_col(x, bytes)
      BY <1>8
    <2>2. Promise(g)!DrawCol(x, 0, Promise(g)!OfBytes(bytes))
      BY <1>1, <2>1, Zenon DEF CallKeepsPromise
    <2>3. Promise(g)!RowOrCol
      BY <1>2, <1>3, <2>2, Zenon DEF Promise!RowOrCol
    <2>. QED  BY <2>3 DEF Promise!Next
  <1>9. CASE \E b \in Intensities : monome_led_intensity(b)
    <2>1. PICK b \in Intensities : monome_led_intensity(b)
      BY <1>9
    <2>2. Promise(g)!DimTo(b)
      BY <1>1, <2>1, Zenon DEF CallKeepsPromise
    <2>3. Promise(g)!Dim
      BY <2>2, Zenon DEF Promise!Dim
    <2>. QED  BY <2>3 DEF Promise!Next
  <1>. QED  BY <1>4, <1>5, <1>6, <1>7, <1>8, <1>9, Zenon DEF LedCall

(* So is every call with levels. *)
LEMMA LevelCallIsAStep ==
    ASSUME GridTypeOK, DrawingAssumption, NEW g \in Grids, g = grid,
           UNCHANGED <<grid, rotation>>, ~torn', LevelCall
    PROVE  Promise(g)!Next
  <1>1. CallKeepsPromise(g)
    BY CallsKeepPromise
  <1>2. /\ \A x \in 0 .. width - 1, y \in 0 .. height - 1 :
             <<x, y>> \in Promise(g)!Places(rotation)
        /\ Promise(g)!Width(rotation) = width /\ Promise(g)!Height(rotation) = height
    BY PlacesAreLogical, SizesOfPromise
  <1>3. 0 \in Offsets /\ Corners \subseteq Offsets
    BY DEF DrawingAssumption, Corners
  <1>0. \A level \in Level : Nearest(<<level>>)[1] \in Promise(g)!Level
    BY OneLevel, LevelsOfPromise, Zenon
  <1>4. CASE \E x \in 0 .. width - 1, y \in 0 .. height - 1, level \in Level :
               monome_led_level_set(x, y, level)
    <2>1. PICK x \in 0 .. width - 1, y \in 0 .. height - 1, level \in Level :
               monome_led_level_set(x, y, level)
      BY <1>4
    <2>2. Promise(g)!SetTo(<<x, y>>, Nearest(<<level>>)[1])
      BY <1>1, <2>1, Zenon DEF CallKeepsPromise
    <2>3. Promise(g)!Set
      BY <1>0, <1>2, <2>2, Zenon DEF Promise!Set
    <2>. QED  BY <2>3 DEF Promise!Next
  <1>5. CASE \E level \in Level : monome_led_level_all(level)
    <2>1. PICK level \in Level : monome_led_level_all(level)
      BY <1>5
    <2>2. Promise(g)!AllTo(Nearest(<<level>>)[1])
      BY <1>1, <2>1, Zenon DEF CallKeepsPromise
    <2>3. Promise(g)!All
      BY <1>0, <2>2, Zenon DEF Promise!All
    <2>. QED  BY <2>3 DEF Promise!Next
  <1>6. CASE \E x, y \in Corners, levels \in LevelMaps :
               MapsAreSafe /\ monome_led_level_map(x, y, levels)
    <2>1. PICK x \in Corners, y \in Corners, levels \in LevelMaps :
               MapsAreSafe /\ monome_led_level_map(x, y, levels)
      BY <1>6
    <2>2. Promise(g)!DrawMap(x, y, Nearest(levels))
      BY <1>1, <2>1, Zenon DEF CallKeepsPromise
    <2>3. Promise(g)!Map
      BY <1>3, <2>2, Zenon DEF Promise!Map
    <2>. QED  BY <2>3 DEF Promise!Next
  <1>7. CASE \E y \in 0 .. height - 1, levels \in LevelRows : monome_led_level_row(y, levels)
    <2>1. PICK y \in 0 .. height - 1, levels \in LevelRows : monome_led_level_row(y, levels)
      BY <1>7
    <2>2. Promise(g)!DrawRow(0, y, Nearest(levels))
      BY <1>1, <2>1, Zenon DEF CallKeepsPromise
    <2>3. Promise(g)!RowOrCol
      BY <1>2, <1>3, <2>2, Zenon DEF Promise!RowOrCol
    <2>. QED  BY <2>3 DEF Promise!Next
  <1>8. CASE \E x \in 0 .. width - 1, levels \in LevelRows : monome_led_level_col(x, levels)
    <2>1. PICK x \in 0 .. width - 1, levels \in LevelRows : monome_led_level_col(x, levels)
      BY <1>8
    <2>2. Promise(g)!DrawCol(x, 0, Nearest(levels))
      BY <1>1, <2>1, Zenon DEF CallKeepsPromise
    <2>3. Promise(g)!RowOrCol
      BY <1>2, <1>3, <2>2, Zenon DEF Promise!RowOrCol
    <2>. QED  BY <2>3 DEF Promise!Next
  <1>. QED  BY <1>4, <1>5, <1>6, <1>7, <1>8, Zenon DEF LevelCall

-----------------------------------------------------------------------------
(* Every step                                                               *)

(* The daemon is used with the devices of Served. *)
ServedInv == DInv /\ (client = "monomeserial" => grid \in Served)

(* Nobody exchanges the device, nor who uses the library. *)
LEMMA DeviceStays ==
    ASSUME [Next]_vars
    PROVE  UNCHANGED <<grid, client>>
  <1>1. CASE client = "program" /\ ProgramCalls /\ UNCHANGED <<daemonVars, worldVars>>
    BY <1>1 DEF ProgramCalls, SetRotation, daemonVars
  <1>2. CASE Daemon
    BY <1>2 DEF Daemon, Start, Clear, Poll, PollFails, Check, ReadDevice, Receive,
                gridVars
  <1>3. CASE DeviceInput \/ RequestArrives \/ Unplug
    BY <1>3 DEF DeviceInput, RequestArrives, Unplug, gridVars, daemonVars
  <1>4. CASE UNCHANGED vars
    BY <1>4 DEF vars, gridVars, daemonVars
  <1>. QED  BY <1>1, <1>2, <1>3, <1>4 DEF Next

(* Which devices those are does not change. *)
LEMMA ServedInvariance == Spec => []ServedInv
  <1>1. Init => ServedInv
    BY InitDInv DEF Init, ServedInv
  <1>2. ServedInv /\ [Next]_vars => ServedInv'
    BY NextKeepsDInv, DeviceStays DEF ServedInv
  <1>. QED  BY <1>1, <1>2, PTL DEF Spec

(* What SerialGridImplementsGridFrame says of a step. *)
KeepsPromise(g) ==
    IF UNCHANGED <<lit, brightness>>
    THEN UNCHANGED <<rotation, lost>> \/ Promise(g)!Next
    ELSE UNCHANGED rotation /\ CallKeepsPromise(g)

(* A step that leaves the LEDs alone, turning the grid or not. *)
LEMMA TurningKeepsPromise ==
    ASSUME GridTypeOK, NEW g, g = grid, UNCHANGED <<grid, outputVars>>,
           \/ UNCHANGED rotation
           \/ \E arg \in Rotated : rotation' = RotationOf(arg)
    PROVE  KeepsPromise(g)
  <1>1. UNCHANGED <<lit, brightness, lost>>
    BY DEF outputVars
  <1>2. CASE UNCHANGED rotation
    BY <1>1, <1>2 DEF KeepsPromise
  <1>3. CASE \E arg \in Rotated : rotation' = RotationOf(arg)
    <2>1. Promise(g)!SetRotation
      BY <1>1, <1>3, RotationTurns, CallsAssumption
    <2>2. Promise(g)!Next
      BY <2>1 DEF Promise!Next
    <2>. QED  BY <1>1, <2>2 DEF KeepsPromise
  <1>. QED  BY <1>2, <1>3

(* A step that draws, and turns nothing. *)
LEMMA DrawingKeepsPromise ==
    ASSUME GridTypeOK, DrawingAssumption, NEW g \in Grids, g = grid,
           UNCHANGED <<grid, rotation>>, ~torn',
           UNCHANGED <<lit, brightness>> => Promise(g)!Next
    PROVE  KeepsPromise(g)
  BY CallsKeepPromise DEF KeepsPromise

(* A program that calls any LED, level, tilt or rotation function. *)
LEMMA ProgramKeepsPromise ==
    ASSUME GridTypeOK, DrawingAssumption, NEW g \in Grids, g = grid, ~torn',
           ProgramCalls
    PROVE  KeepsPromise(g)
  <1>1. CASE SetRotation
    BY <1>1, TurningKeepsPromise DEF SetRotation
  <1>2. CASE LedCall /\ UNCHANGED <<grid, rotation>>
    BY <1>2, LedCallIsAStep, DrawingKeepsPromise
  <1>3. CASE LevelCall /\ UNCHANGED <<grid, rotation>>
    BY <1>3, LevelCallIsAStep, DrawingKeepsPromise
  <1>4. CASE TiltCall /\ UNCHANGED <<grid, rotation>>
    <2>1. PICK m : m.cmd = "TILT" /\ WriteOne(m)
      BY <1>4 DEF TiltCall, monome_tilt_enable, monome_tilt_disable,
             proto_series_tilt_enable, proto_series_tilt_disable,
             proto_40h_tilt_enable, proto_40h_tilt_disable, Msg
    <2>2. lost' \in {0, 1}
      <3>1. Sections(m) = 1
        BY <2>1 DEF Sections
      <3>. QED  BY <2>1, <3>1, OneMessageLost
    <2>. QED  BY <1>4, <2>2, OneSectionOrNone, DrawingKeepsPromise
  <1>. QED  BY <1>1, <1>2, <1>3, <1>4 DEF ProgramCalls

(* A step of the daemon that sends what its requests ask for. *)
LEMMA DaemonKeepsPromise ==
    ASSUME GridTypeOK, DrawingAssumption, NEW g \in Grids, g = grid, ~torn',
           grid \in Served, UNCHANGED <<grid, rotation>>,
           LossIsBounded \/ UNCHANGED outputVars
    PROVE  KeepsPromise(g)
  <1>1. CASE UNCHANGED outputVars
    BY <1>1, TurningKeepsPromise
  <1>2. CASE LossIsBounded
    BY <1>2, NothingNewKeepsPromise, DrawingKeepsPromise
  <1>. QED  BY <1>1, <1>2

(* Every step, of whoever uses the library, and of the world. *)
LEMMA NextKeepsPromise ==
    ASSUME ServedInv, DrawingAssumption, NEW g \in Grids, g = grid, ~torn', Next
    PROVE  KeepsPromise(g)
  <1>1. GridTypeOK /\ requests \in Seq(Requests)
    BY DEF ServedInv, DInv, TypeOK
  <1>2. CASE client = "program" /\ ProgramCalls /\ UNCHANGED <<daemonVars, worldVars>>
    BY <1>1, <1>2, ProgramKeepsPromise
  <1>3. CASE Start
    BY <1>1, <1>3, TurningKeepsPromise DEF Start
  <1>4. pc # "away" => grid \in Served
    BY DEF ServedInv, DInv, NothingBefore, TypeOK
  <1>5. CASE Clear
    BY <1>1, <1>4, <1>5, AllLoses, DaemonKeepsPromise DEF Clear
  <1>6. CASE Receive
    <2>1. LossIsBounded \/ UNCHANGED outputVars
      <3>1. CASE "POLLIN" \in revents.osc /\ requests # <<>>
        <4>1. Head(requests) \in Requests /\ Serve(Head(requests))
          BY <1>1, <1>6, <3>1 DEF Receive
        <4>. QED  BY <1>1, <4>1, ServeLoses
      <3>2. CASE ~("POLLIN" \in revents.osc /\ requests # <<>>)
        BY <1>6, <3>2 DEF Receive
      <3>. QED  BY <3>1, <3>2
    <2>. QED  BY <1>1, <1>4, <1>6, <2>1, DaemonKeepsPromise DEF Receive
  <1>7. CASE \/ Poll \/ PollFails \/ Check \/ ReadDevice
             \/ DeviceInput \/ RequestArrives \/ Unplug
    <2>1. UNCHANGED <<grid, rotation, outputVars>>
      BY <1>7 DEF Poll, PollFails, Check, ReadDevice, DeviceInput, RequestArrives,
                  Unplug, gridVars
    <2>. QED  BY <1>1, <2>1, TurningKeepsPromise
  <1>. QED  BY <1>2, <1>3, <1>5, <1>6, <1>7 DEF Next, Daemon

(* Every LED call draws what GridFrame says, for its own arguments, on      *)
(* every device and in every rotation.                                      *)
THEOREM LedsKeepTheirPromise ==
    ASSUME DrawingAssumption
    PROVE  Spec => SerialGridImplementsGridFrame
  <1>. DEFINE Kept == \A g \in Grids : grid = g /\ ~torn' =>
                IF UNCHANGED <<lit, brightness>>
                THEN UNCHANGED <<rotation, lost>> \/ Promise(g)!Next
                ELSE UNCHANGED rotation /\ CallKeepsPromise(g)
  <1>1. ServedInv /\ [Next]_vars => [Kept]_gridVars
    <2>. SUFFICES ASSUME ServedInv, [Next]_vars, ~UNCHANGED gridVars,
                         NEW g \in Grids, grid = g, ~torn'
                  PROVE  KeepsPromise(g)
      BY DEF KeepsPromise
    <2>1. Next
      BY DEF vars
    <2>. QED  BY <2>1, NextKeepsPromise
  <1>. HIDE DEF Kept
  <1>2. Spec => [][Kept]_gridVars
    BY <1>1, ServedInvariance, PTL DEF Spec
  <1>. QED  BY <1>2 DEF Kept, SerialGridImplementsGridFrame

=============================================================================
