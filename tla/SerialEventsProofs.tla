-------------------------- MODULE SerialEventsProofs --------------------------
(***************************************************************************)
(* Proofs about SerialEvents: for both protocols, all keys and tilt        *)
(* readings, and however the line cuts the stream of bytes into pieces.    *)
(***************************************************************************)
EXTENDS SerialEvents, SharedLemmas, SequenceTheorems, TLAPS

-----------------------------------------------------------------------------
(* Decoding                                                                 *)

(* Whatever two bytes are taken for a message, the tilt stays a pair of     *)
(* bytes and what the application is given is an event.                     *)
LEMMA DecodingTypes ==
    ASSUME NEW b \in Byte \X Byte, NEW t \in (0..255) \X (0..255)
    PROVE  /\ TiltAfter(b, t) \in (0..255) \X (0..255)
           /\ EventOf(b, t) \in Event \cup {NoEvent}
  <1>1. Reading(b) \in 0..255
    BY DEF Reading, Byte
  <1>2. TiltAfter(b, t) \in (0..255) \X (0..255)
    BY <1>1, Zenon DEF TiltAfter
  <1>3. ASSUME NEW type \in {"BUTTON_DOWN", "BUTTON_UP"}, NEW byte \in Byte
        PROVE  Button(type, byte) \in Event
    BY DEF Button, Event, EventTypes, Byte
  <1>4. ASSUME NEW u \in (0..255) \X (0..255)
        PROVE  TiltEvent(u) \in Event
    BY DEF TiltEvent, Event, EventTypes
  <1>5. EventOf(b, t) \in Event \cup {NoEvent}
    BY <1>2, <1>3, <1>4, Zenon DEF EventOf
  <1>. QED  BY <1>2, <1>5

(* An event is none that has no type. *)
LEMMA EventsAreNotNone == NoEvent \notin Event
  BY DEF NoEvent, Event, EventTypes

-----------------------------------------------------------------------------
(* Types                                                                    *)

(* What a call of next_event() leaves behind. *)
LEMMA ReturnedTypes ==
    ASSUME TypeOK, NEW n \in {-1, 0, 1, 2}, NEW b \in Byte \X Byte, Returned(n, b)
    PROVE  /\ pc' = "idle" /\ read' \in {-1, 0, 1, 2} /\ buf' \in Byte \X Byte
           /\ status' \in {-1, 0, 1} /\ tilt' \in (0..255) \X (0..255)
           /\ \/ delivered' = delivered
              \/ \E e \in Event \cup {Unset} : delivered' = Append(delivered, e)
           /\ delivered' \in Seq(Event \cup {Unset})
           /\ Len(delivered') >= Len(delivered)
           /\ UNCHANGED <<proto, mode, size>>
  <1>. USE DEF TypeOK
  <1>1. pc' = "idle" /\ read' = n /\ buf' = b /\ UNCHANGED <<proto, mode, size>>
    BY DEF Returned
  <1>2. CASE n \in {0, 1}
    <2>1. CASE n = 0
      BY <1>1, <2>1 DEF Returned
    <2>2. CASE n = 1
      <3>1. status' = 1 /\ delivered' = Append(delivered, Unset) /\ tilt' = tilt
        BY <2>2 DEF Returned
      <3>. QED  BY <1>1, <2>2, <3>1
    <2>. QED  BY <1>2, <2>1, <2>2
  <1>3. CASE n \notin {0, 1}
    <2>. DEFINE e == EventOf(b, tilt)
    <2>1. e \in Event \cup {NoEvent} /\ TiltAfter(b, tilt) \in (0..255) \X (0..255)
      BY DecodingTypes
    <2>2. /\ status' = IF e = NoEvent THEN 0 ELSE 1
          /\ delivered' = IF e = NoEvent THEN delivered ELSE Append(delivered, e)
          /\ tilt' = TiltAfter(b, tilt)
      BY <1>3 DEF Returned
    <2>. HIDE DEF e
    <2>. QED  BY <1>1, <2>1, <2>2
  <1>. QED  BY <1>2, <1>3

(* Numbers of ten bits and their two bytes. *)
LEMMA EightBitNumbers ==
    ASSUME NEW l \in 0..255
    PROVE  l \div 256 = 0 /\ l % 256 = l
  OBVIOUS

LEMMA HighBits ==
    ASSUME NEW l \in 0..1023
    PROVE  l \div 256 \in 0..3
  OBVIOUS

LEMMA LowBits ==
    ASSUME NEW l \in 0..1023
    PROVE  l % 256 \in 0..255
  OBVIOUS

LEMMA TenBitSum ==
    ASSUME NEW l \in 0..1023
    PROVE  (l \div 256) * 256 + (l % 256) = l
  OBVIOUS

LEMMA Nibbles ==
    ASSUME NEW x \in 0..15, NEW y \in 0..15
    PROVE  16 * x + y \in 0..255
  OBVIOUS

(* The bytes the device sends. *)
LEMMA SentBytes ==
    /\ \A m \in Noise : m \in Seq(Byte)
    /\ proto \in Protos => \A i \in Inputs : Encode(i) \in Byte \X Byte
    /\ \A m \in Byte \X Byte : m \in Seq(Byte) /\ m = <<m[1], m[2]>>
  <1>1. ASSUME NEW m \in Byte \X Byte PROVE m \in Seq(Byte) /\ m = <<m[1], m[2]>>
    <2>1. PICK a \in Byte, b \in Byte : m = <<a, b>>
      OBVIOUS
    <2>2. <<a, b>> \in Seq(Byte) /\ <<a, b>>[1] = a /\ <<a, b>>[2] = b
      OBVIOUS
    <2>. QED  BY <2>1, <2>2
  <1>2. ASSUME proto \in Protos, NEW i \in Inputs PROVE Encode(i) \in Byte \X Byte
    <2>1. CASE i.type \in {"BUTTON_DOWN", "BUTTON_UP"}
      <3>1. i.at[1] \in 0..15 /\ i.at[2] \in 0..15
        BY <2>1, ProtoAssumption DEF Inputs
      <3>2. 16 * i.at[1] + i.at[2] \in Byte
        BY <3>1, Nibbles DEF Byte
      <3>3. {0, 1, 16} \subseteq Byte
        BY DEF Byte
      <3>. QED  BY <2>1, <3>2, <3>3 DEF Encode
    <2>2. CASE i.type \in {"TILT_X", "TILT_Y"}
      <3>1. i.level \in 0..1023 /\ (proto = "series" => i.level \in 0..255)
        BY <1>2, <2>2, ProtoAssumption DEF Inputs
      <3>2. i.level \div 256 \in 0..3 /\ i.level % 256 \in Byte
        <4>1. i.level \in 0..1023
          BY <3>1
        <4>2. i.level \div 256 \in 0..3
          BY <4>1, HighBits, SMT
        <4>3. i.level % 256 \in 0..255
          BY <4>1, LowBits, SMT
        <4>. QED  BY <4>2, <4>3, Zenon DEF Byte
      <3>3. proto = "series" => i.level \div 256 = 0
        BY <3>1, EightBitNumbers
      <3>. DEFINE h == i.level \div 256  l == i.level % 256
      <3>4. Encode(i)[2] = l /\ Encode(i) = <<Encode(i)[1], l>>
            /\ Encode(i)[1] \in {208 + h, 209 + h, 16 + h, 20 + h}
            /\ (proto # "series" => Encode(i)[1] \in {16 + h, 20 + h})
        BY <2>2 DEF Encode
      <3>. HIDE DEF h, l
      <3>5. Encode(i)[1] \in Byte
        BY <3>2, <3>3, <3>4 DEF h, Byte
      <3>. QED  BY <3>2, <3>4, <3>5 DEF l
    <2>. QED  BY <2>1, <2>2 DEF Inputs
  <1>. QED  BY <1>1, <1>2, NoiseAssumption

LEMMA TwoMakeAPair ==
    ASSUME NEW a \in Byte, NEW b \in Byte
    PROVE  <<a>> \o <<b>> = <<a, b>>
  <1>1. <<a>> \in Seq(Byte) /\ <<b>> \in Seq(Byte) /\ <<a, b>> \in Seq(Byte)
    OBVIOUS
  <1>2. Len(<<a>> \o <<b>>) = 2 /\ <<a>> \o <<b>> \in Seq(Byte)
    BY <1>1, ConcatProperties
  <1>3. ASSUME NEW i \in 1..2 PROVE (<<a>> \o <<b>>)[i] = <<a, b>>[i]
    <2>1. CASE i = 1
      BY <1>1, <2>1, ConcatProperties
    <2>2. CASE i = 2
      BY <1>1, <2>2, ConcatProperties
    <2>. QED  BY <2>1, <2>2
  <1>. QED  BY <1>1, <1>2, <1>3, SeqEqual

LEMMA TiltArguments ==
    ASSUME NEW r \in Axis \X Axis
    PROVE  r \o <<0>> = <<r[1], r[2], 0>>
  <1>1. PICK a \in Axis, b \in Axis : r = <<a, b>>
    OBVIOUS
  <1>. DEFINE t == <<a, b>> \o <<0>>
  <1>2. /\ <<a, b>> \in Seq(Axis \cup {0}) /\ <<0>> \in Seq(Axis \cup {0})
        /\ <<a, b, 0>> \in Seq(Axis \cup {0})
        /\ Len(<<a, b>>) = 2 /\ Len(<<0>>) = 1 /\ Len(<<a, b, 0>>) = 3
    OBVIOUS
  <1>3. Len(t) = 3 /\ t \in Seq(Axis \cup {0})
    BY <1>2, ConcatProperties
  <1>4. ASSUME NEW i \in 1..3 PROVE t[i] = <<a, b, 0>>[i]
    <2>1. t[i] = IF i <= 2 THEN <<a, b>>[i] ELSE <<0>>[i - 2]
      BY <1>2, ConcatProperties
    <2>. HIDE DEF t
    <2>2. CASE i = 3
      BY <2>1, <2>2
    <2>3. CASE i \in 1..2
      BY <2>1, <2>3
    <2>. QED  BY <2>2, <2>3
  <1>. HIDE DEF t
  <1>5. t = <<a, b, 0>>
    BY <1>2, <1>3, <1>4, SeqEqual
  <1>. QED  BY <1>1, <1>5 DEF t

LEMMA LeastOfTwo ==
    ASSUME NEW len \in Nat \ {0}
    PROVE  Min({2, len}) = IF len = 1 THEN 1 ELSE 2
  <1>. DEFINE n == Min({2, len})
  <1>1. \E x \in {2, len} : \A y \in {2, len} : x <= y
    <2>1. CASE len = 1
      BY <2>1
    <2>2. CASE len # 1
      BY <2>2
    <2>. QED  BY <2>1, <2>2
  <1>2. n \in {2, len} /\ \A y \in {2, len} : n <= y
    BY <1>1, Zenon DEF Min
  <1>. HIDE DEF n
  <1>3. n = IF len = 1 THEN 1 ELSE 2
    BY <1>2
  <1>. QED  BY <1>3 DEF n

(* The first read of a message takes both its bytes, or the one there is. *)
LEMMA FirstRead ==
    ASSUME NEW s \in Seq(Byte), s # <<>>, NEW n, n = Min({2, Len(s)})
    PROVE  /\ n \in {1, 2} /\ n <= Len(s)
           /\ SubSeq(s, n + 1, Len(s)) \in Seq(Byte)
           /\ n = 1 => s = <<s[1]>> /\ s[1] \in Byte /\ SubSeq(s, n + 1, Len(s)) = <<>>
           /\ n = 2 => /\ <<s[1], s[2]>> \in Byte \X Byte
                       /\ s = <<s[1], s[2]>> \o SubSeq(s, n + 1, Len(s))
  <1>1. PICK len \in Nat \ {0} : len = Len(s)
    BY EmptySeq, LenProperties, Zenon
  <1>2. n = IF len = 1 THEN 1 ELSE 2
    BY <1>1, LeastOfTwo
  <1>3. n \in 0..len
    BY <1>2
  <1>4. SubSeq(s, n + 1, len) \in Seq(Byte)
    BY <1>1, <1>3, Pieces
  <1>5. s = <<s[1]>> \o SubSeq(s, 2, len) /\ s[1] \in Byte
    <2>1. 1 \in 1..len /\ len \in 1..len
      OBVIOUS
    <2>2. SubSeq(s, 1, len) = <<s[1]>> \o SubSeq(s, 2, len)
      BY <1>1, <2>1, SubSeqRecursiveFirst
    <2>3. SubSeq(s, 1, len) = s
      BY <1>1, SubSeqFull
    <2>. QED  BY <1>1, <2>1, <2>2, <2>3, ElementOfSeq
  <1>6. CASE len = 1
    <2>1. SubSeq(s, n + 1, len) = <<>> /\ SubSeq(s, 2, len) = <<>>
      BY <1>2, <1>6, SubSeqEmpty
    <2>2. <<s[1]>> \o <<>> = <<s[1]>>
      BY <1>5, ConcatEmptySeq
    <2>. QED  BY <1>1, <1>2, <1>4, <1>5, <1>6, <2>1, <2>2
  <1>7. CASE len # 1
    <2>. n = 2 /\ 2 \in 1..len /\ len \in 2..len
      BY <1>2, <1>7
    <2>1. s[2] \in Byte
      BY <1>1, ElementOfSeq
    <2>2. SubSeq(s, 2, len) = <<s[2]>> \o SubSeq(s, 3, len)
      BY <1>1, SubSeqRecursiveFirst
    <2>. DEFINE rest == SubSeq(s, 3, len)
    <2>3. n + 1 = 3 /\ rest \in Seq(Byte)
      <3>1. n + 1 = 3
        OBVIOUS
      <3>. QED  BY <1>4, <3>1
    <2>. HIDE DEF rest
    <2>4. <<s[1]>> \in Seq(Byte) /\ <<s[2]>> \in Seq(Byte)
      BY <1>5, <2>1
    <2>5. s = (<<s[1]>> \o <<s[2]>>) \o rest
      BY <1>5, <2>2, <2>3, <2>4, ConcatAssociative DEF rest
    <2>6. <<s[1]>> \o <<s[2]>> = <<s[1], s[2]>>
      BY <1>5, <2>1, TwoMakeAPair
    <2>7. <<s[1], s[2]>> \in Byte \X Byte /\ n \in {1, 2} /\ n <= Len(s) /\ n # 1
      BY <1>1, <1>5, <2>1
    <2>8. s = <<s[1], s[2]>> \o SubSeq(s, n + 1, Len(s))
      BY <1>1, <2>3, <2>5, <2>6 DEF rest
    <2>. QED  BY <1>1, <1>4, <2>7, <2>8
  <1>. QED  BY <1>6, <1>7

-----------------------------------------------------------------------------
(* Type correctness: the history of what went wrong stays within what the   *)
(* application was given, tilts stay bytes, whatever bytes are taken for a  *)
(* message.                                                                 *)
LEMMA TypeOKStep == TypeOK /\ [Next]_vars => TypeOK'
  <1>. SUFFICES ASSUME TypeOK, [Next]_vars PROVE TypeOK'
    OBVIOUS
  <1>. USE DEF hostVars, deviceVars, lineVars, spoilVars
  <1>1. CASE OpenStarts
    BY <1>1, Zenon DEF OpenStarts, TypeOK
  <1>2. CASE OpenEnds
    BY <1>2 DEF OpenEnds, TypeOK
  <1>3. CASE Close
    BY <1>3 DEF Close, TypeOK
  <1>4. CASE NextEvent
    BY <1>4 DEF NextEvent, TypeOK, Byte
  <1>5. CASE ReadBytes
    <2>. DEFINE n == Min({2, Len(inbuf)})
    <2>1. /\ pc = "read" /\ inbuf # <<>> /\ inbuf' = SubSeq(inbuf, n + 1, Len(inbuf))
          /\ IF n = 2 THEN Returned(2, <<inbuf[1], inbuf[2]>>)
             ELSE /\ pc' = "more" /\ buf' = <<inbuf[1], 0>>
                  /\ UNCHANGED <<proto, mode, size, read, status, tilt, delivered>>
          /\ UNCHANGED <<link, wire, deviceVars, spoilVars>>
      BY <1>5, Zenon DEF ReadBytes
    <2>2. inbuf \in Seq(Byte)
      BY DEF TypeOK
    <2>3. /\ n \in {1, 2} /\ inbuf' \in Seq(Byte)
          /\ n = 1 => inbuf[1] \in Byte
          /\ n = 2 => <<inbuf[1], inbuf[2]>> \in Byte \X Byte
      BY <2>1, <2>2, FirstRead, Zenon
    <2>. HIDE DEF n
    <2>4. CASE n = 2
      <3>1. Returned(2, <<inbuf[1], inbuf[2]>>)
        BY <2>1, <2>4
      <3>2. <<inbuf[1], inbuf[2]>> \in Byte \X Byte
        BY <2>3, <2>4
      <3>3. UNCHANGED <<link, wire, deviceVars, spoilVars>> /\ inbuf' \in Seq(Byte)
        BY <2>1, <2>3
      <3>4. /\ pc' = "idle" /\ read' \in {-1, 0, 1, 2} /\ buf' \in Byte \X Byte
            /\ status' \in {-1, 0, 1} /\ tilt' \in (0..255) \X (0..255)
            /\ delivered' \in Seq(Event \cup {Unset}) /\ Len(delivered) <= Len(delivered')
            /\ UNCHANGED <<proto, mode, size>>
        BY <3>1, <3>2, ReturnedTypes, Zenon
      <3>. QED  BY <3>3, <3>4 DEF TypeOK
    <2>5. CASE n = 1
      <3>1. pc' = "more" /\ buf' = <<inbuf[1], 0>>
            /\ UNCHANGED <<proto, mode, size, read, status, tilt, delivered>>
            /\ UNCHANGED <<link, wire, deviceVars, spoilVars>>
        BY <2>1, <2>5
      <3>2. buf' \in Byte \X Byte
        <4>1. inbuf[1] \in Byte /\ 0 \in Byte
          BY <2>3, <2>5 DEF Byte
        <4>. QED  BY <3>1, <4>1, Zenon
      <3>. QED  BY <2>3, <3>1, <3>2 DEF TypeOK
    <2>. QED  BY <2>3, <2>4, <2>5
  <1>6. CASE ReadNothing
    <2>1. PICK n \in {0, -1} : Returned(n, buf)
      BY <1>6, Zenon DEF ReadNothing
    <2>2. UNCHANGED <<lineVars, deviceVars, spoilVars>>
      BY <1>6, Zenon DEF ReadNothing
    <2>3. buf \in Byte \X Byte /\ n \in {-1, 0, 1, 2}
      BY DEF TypeOK
    <2>. QED  BY <2>1, <2>2, <2>3, ReturnedTypes DEF TypeOK
  <1>7. CASE ReadMore
    <2>1. /\ inbuf # <<>> /\ inbuf' = Tail(inbuf) /\ Returned(2, <<buf[1], Head(inbuf)>>)
          /\ UNCHANGED <<link, wire, deviceVars, spoilVars>>
      BY <1>7, Zenon DEF ReadMore
    <2>2. inbuf' \in Seq(Byte) /\ Head(inbuf) \in Byte
      BY <2>1, HeadTailProperties DEF TypeOK
    <2>3. <<buf[1], Head(inbuf)>> \in Byte \X Byte
      BY <2>2 DEF TypeOK
    <2>. QED  BY <2>1, <2>2, <2>3, ReturnedTypes DEF TypeOK
  <1>8. CASE ReadOnlyOne
    <2>1. PICK n \in {1, -1} : Returned(n, buf)
      BY <1>8, Zenon DEF ReadOnlyOne
    <2>2. Spoil /\ UNCHANGED <<lineVars, deviceVars>>
      BY <1>8, Zenon DEF ReadOnlyOne
    <2>3. buf \in Byte \X Byte /\ n \in {-1, 0, 1, 2}
      BY DEF TypeOK
    <2>. QED  BY <2>1, <2>2, <2>3, ReturnedTypes DEF TypeOK, Spoil
  <1>9. ASSUME NEW i \in Inputs, DeviceSends(i) PROVE TypeOK'
    <2>1. wire' = wire \o Encode(i) /\ sent' = sent + 1 /\ sent < MaxMessages
          /\ UNCHANGED <<hostVars, link, inbuf, spoilVars>>
      BY <1>9, Zenon DEF DeviceSends
    <2>2. Encode(i) \in Seq(Byte)
      BY SentBytes DEF TypeOK
    <2>3. wire' \in Seq(Byte)
      BY <2>1, <2>2, ConcatProperties DEF TypeOK
    <2>4. sent' \in 0..MaxMessages
      BY <2>1, ProtoAssumption DEF TypeOK
    <2>. QED  BY <2>1, <2>3, <2>4 DEF TypeOK
  <1>10. ASSUME NEW m \in Noise, DeviceChatters(m) PROVE TypeOK'
    <2>1. wire' = wire \o m /\ sent' = sent + 1 /\ sent < MaxMessages
          /\ UNCHANGED <<hostVars, link, inbuf, spoilVars>>
      BY <1>10, Zenon DEF DeviceChatters
    <2>2. m \in Seq(Byte)
      BY SentBytes
    <2>3. wire' \in Seq(Byte)
      BY <2>1, <2>2, ConcatProperties DEF TypeOK
    <2>4. sent' \in 0..MaxMessages
      BY <2>1, ProtoAssumption DEF TypeOK
    <2>. QED  BY <2>1, <2>3, <2>4 DEF TypeOK
  <1>11. CASE Arrive
    <2>1. PICK k \in 1..Len(wire) :
            /\ inbuf' = inbuf \o SubSeq(wire, 1, k)
            /\ wire' = SubSeq(wire, k + 1, Len(wire))
      BY <1>11, Zenon DEF Arrive
    <2>2. UNCHANGED <<hostVars, link, deviceVars, spoilVars>>
      BY <1>11, Zenon DEF Arrive
    <2>3. wire \in Seq(Byte) /\ inbuf \in Seq(Byte) /\ k \in 0..Len(wire)
      BY DEF TypeOK
    <2>4. wire' \in Seq(Byte) /\ SubSeq(wire, 1, k) \in Seq(Byte)
      BY <2>1, <2>3, Pieces
    <2>5. inbuf' \in Seq(Byte)
      BY <2>1, <2>3, <2>4, ConcatProperties
    <2>. QED  BY <2>2, <2>4, <2>5 DEF TypeOK
  <1>12. CASE Unplug
    BY <1>12 DEF Unplug, Spoil, TypeOK
  <1>13. CASE Over \/ UNCHANGED vars
    <2>1. UNCHANGED vars
      BY <1>13, Zenon DEF Over
    <2>2. /\ UNCHANGED <<proto, mode, size, pc, buf, read, status, tilt, delivered>>
          /\ UNCHANGED <<link, wire, inbuf, sent, spoilt, before>>
      BY <2>1 DEF vars
    <2>. QED  BY <2>2 DEF TypeOK
  <1>. QED
    BY <1>1, <1>2, <1>3, <1>4, <1>5, <1>6, <1>7, <1>8, <1>9, <1>10, <1>11,
       <1>12, <1>13, Zenon DEF Next, Reads

LEMMA TypeOKInit == Init => TypeOK
  <1>. SUFFICES ASSUME Init PROVE TypeOK
    OBVIOUS
  <1>1. \A S : <<>> \in Seq(S) /\ Len(<<>>) = 0
    BY EmptySeq
  <1>2. delivered \in Seq(Event \cup {Unset}) /\ wire \in Seq(Byte) /\ inbuf \in Seq(Byte)
    BY <1>1, Zenon DEF Init
  <1>3. before \in 0..Len(delivered)
    BY <1>1 DEF Init
  <1>4. buf \in Byte \X Byte /\ tilt \in (0..255) \X (0..255)
    BY DEF Init, Byte
  <1>5. sent \in 0..MaxMessages
    BY ProtoAssumption DEF Init
  <1>6. read \in {-1, 0, 1, 2} /\ status \in {-1, 0, 1}
    BY DEF Init
  <1>. QED  BY <1>2, <1>3, <1>4, <1>5, <1>6, Zenon DEF Init, TypeOK

(* Whatever arrives, in whatever pieces, and also after a misfortune: the   *)
(* two bytes of the buffer, the last tilt and the results of next_event    *)
(* keep their types, and only events are delivered (series.c:345).         *)
THEOREM SerialTypes == Spec => []TypeOK
  BY TypeOKInit, TypeOKStep, PTL DEF Spec

-----------------------------------------------------------------------------
(* Streams of messages                                                      *)

(* Events as the device means them.                                         *)
UserInput == [type : {"BUTTON_DOWN", "BUTTON_UP"}, args : Keys]
               \cup [type : {"TILT"}, args : Axis \X Axis \X {0}]

(* A message, a reading of both axes. *)
Pair == Byte \X Byte

(* Bytes b, decoded from tilt t on, yield the events q and leave tilt r.    *)
(* One message at a time, and S holds what is to hold of the rest: with no  *)
(* recursion, b is what the device sent if there is an S that explains all  *)
(* its members.                                                             *)
Explained(S, b, t, q, r) ==
    \/ b = <<>> /\ q = <<>> /\ t = r
    \/ \E m \in Pair, rest \in Seq(Byte) :
         /\ b = m \o rest
         /\ \/ EventOf(m, t) = NoEvent /\ <<rest, TiltAfter(m, t), q>> \in S
            \/ /\ EventOf(m, t) # NoEvent
               /\ q # <<>> /\ EventOf(m, t) = Head(q)
               /\ <<rest, TiltAfter(m, t), Tail(q)>> \in S

Closed(S, r) ==
    \A b \in Seq(Byte), t \in Pair, q \in Seq(UserInput) :
       <<b, t, q>> \in S => Explained(S, b, t, q, r)

Carries(b, t, q, r) == \E S : <<b, t, q>> \in S /\ Closed(S, r)

LEMMA BytesAssociate ==
    \A s, t, u \in Seq(Byte) : (s \o t) \o u = s \o (t \o u)
  BY ConcatAssociative

LEMMA BytesConcatenate ==
    \A s, t \in Seq(Byte) : s \o t \in Seq(Byte)
  BY ConcatProperties

LEMMA PairParts ==
    ASSUME NEW m \in Pair
    PROVE  /\ m \in Seq(Byte) /\ Len(m) = 2 /\ m = <<m[1], m[2]>> /\ m # <<>>
           /\ m[1] \in Byte /\ m[2] \in Byte
  <1>1. PICK a \in Byte, b \in Byte : m = <<a, b>>
    BY DEF Pair
  <1>2. <<a, b>> \in Seq(Byte) /\ Len(<<a, b>>) = 2 /\ <<a, b>> # <<>>
        /\ <<a, b>>[1] = a /\ <<a, b>>[2] = b
    OBVIOUS
  <1>. QED  BY <1>1, <1>2

LEMMA PairsAssociate ==
    ASSUME NEW m \in Pair, NEW n \in Pair, NEW s \in Seq(Byte)
    PROVE  (m \o s) \o n = m \o (s \o n) /\ s \o n \in Seq(Byte)
  <1>1. m \in Seq(Byte) /\ n \in Seq(Byte)
    BY PairParts
  <1>2. (m \o s) \o n = m \o (s \o n)
    BY <1>1, BytesAssociate, Zenon
  <1>. QED  BY <1>1, <1>2, BytesConcatenate, Zenon

LEMMA TiltStaysBytes ==
    \A m, t \in Pair : TiltAfter(m, t) \in Pair
  BY DecodingTypes DEF Pair, Byte

LEMMA EventsConcatenate ==
    ASSUME NEW p \in Seq(UserInput), NEW x \in Seq(UserInput), p # <<>>
    PROVE  /\ p \o x # <<>>
           /\ Head(p \o x) = Head(p)
           /\ Tail(p \o x) = Tail(p) \o x
  BY HeadTailConcat

(* A stream has one first message. *)
LEMMA OneFirstMessage ==
    ASSUME NEW m \in Pair, NEW n \in Pair,
           NEW s \in Seq(Byte), NEW u \in Seq(Byte), m \o s = n \o u
    PROVE  m = n /\ s = u
  <1>. m \in Seq(Byte) /\ Len(m) = 2 /\ n \in Seq(Byte) /\ Len(n) = 2
    BY PairParts
  <1>1. Len(s) \in Nat /\ Len(u) \in Nat
    BY LenProperties
  <1>2. ASSUME NEW i \in 1..2 PROVE (m \o s)[i] = m[i] /\ (n \o u)[i] = n[i]
    <2>1. i \in 1 .. 2 + Len(s) /\ i \in 1 .. 2 + Len(u) /\ i <= 2
      BY <1>1
    <2>. QED  BY <2>1, ConcatProperties
  <1>3. m[1] = n[1] /\ m[2] = n[2]
    BY <1>2
  <1>4. m = n
    BY <1>3, PairParts
  <1>5. s = u
    BY <1>4, ConcatSimplifications
  <1>. QED  BY <1>4, <1>5

(* A stream of nothing ends where it begins. *)
LEMMA CarriesNothing ==
    ASSUME NEW t \in Pair
    PROVE  Carries(<<>>, t, <<>>, t)
  <1>. DEFINE S == {<< <<>>, t, <<>> >>}
  <1>1. Closed(S, t)
    BY Zenon DEF Closed, Explained
  <1>. QED  BY <1>1, Zenon DEF Carries

(* What the host finds at the beginning of a stream. *)
LEMMA CarriesFirst ==
    ASSUME NEW m \in Pair, NEW s \in Seq(Byte), NEW t \in Pair,
           NEW q \in Seq(UserInput), NEW r, Carries(m \o s, t, q, r)
    PROVE  \/ EventOf(m, t) = NoEvent /\ Carries(s, TiltAfter(m, t), q, r)
           \/ /\ EventOf(m, t) # NoEvent
              /\ q # <<>> /\ EventOf(m, t) = Head(q)
              /\ Carries(s, TiltAfter(m, t), Tail(q), r)
  <1>1. PICK S : <<m \o s, t, q>> \in S /\ Closed(S, r)
    BY DEF Carries
  <1>2. m \in Seq(Byte) /\ m \o s \in Seq(Byte) /\ m \o s # <<>>
    <2>1. m \in Seq(Byte) /\ Len(m) = 2
      BY PairParts
    <2>2. m # <<>>
      BY PairParts
    <2>. QED  BY <2>1, <2>2, ConcatProperties, ConcatEqualIffEmpty
  <1>3. Explained(S, m \o s, t, q, r)
    BY <1>1, <1>2, Zenon DEF Closed
  <1>4. PICK n \in Pair, rest \in Seq(Byte) :
          /\ m \o s = n \o rest
          /\ \/ EventOf(n, t) = NoEvent /\ <<rest, TiltAfter(n, t), q>> \in S
             \/ /\ EventOf(n, t) # NoEvent
                /\ q # <<>> /\ EventOf(n, t) = Head(q)
                /\ <<rest, TiltAfter(n, t), Tail(q)>> \in S
    BY <1>2, <1>3, Zenon DEF Explained
  <1>5. n = m /\ rest = s
    BY <1>4, OneFirstMessage, Zenon
  <1>. QED  BY <1>1, <1>4, <1>5, Zenon DEF Carries

(* The device sends one more message: what it means is added at the end of  *)
(* the events, and the stream ends with the tilt after it.                  *)
LEMMA CarriesOneMore ==
    ASSUME NEW b \in Seq(Byte), NEW t \in Pair, NEW q \in Seq(UserInput),
           NEW r \in Pair, Carries(b, t, q, r),
           NEW m \in Pair, NEW x \in Seq(UserInput),
           \/ EventOf(m, r) = NoEvent /\ x = <<>>
           \/ EventOf(m, r) # NoEvent /\ x = <<EventOf(m, r)>>
    PROVE  Carries(b \o m, t, q \o x, TiltAfter(m, r))
  <1>. DEFINE end == TiltAfter(m, r)
              U == Seq(Byte) \X Pair \X Seq(UserInput)
  <1>1. PICK S : <<b, t, q>> \in S /\ Closed(S, r)
    BY DEF Carries
  <1>. DEFINE T == {y \in U : \/ y = << <<>>, end, <<>> >>
                              \/ \E c \in Seq(Byte), u \in Pair, p \in Seq(UserInput) :
                                    <<c, u, p>> \in S /\ y = <<c \o m, u, p \o x>>}
  <1>2. m \in Seq(Byte) /\ end \in Pair
        /\ <<>> \in Seq(Byte) /\ <<>> \in Seq(UserInput)
    <2>1. end \in Pair
      BY TiltStaysBytes
    <2>. QED  BY <2>1, PairParts, EmptySeq
  <1>. HIDE DEF end
  <1>3. << <<>>, end, <<>> >> \in T
    BY <1>2, Zenon
  <1>4. ASSUME NEW c \in Seq(Byte), NEW u \in Pair, NEW p \in Seq(UserInput),
               <<c, u, p>> \in S
        PROVE  <<c \o m, u, p \o x>> \in T
    <2>1. c \o m \in Seq(Byte) /\ p \o x \in Seq(UserInput)
      BY <1>2, ConcatProperties
    <2>. QED  BY <1>4, <2>1, Zenon
  <1>5. ASSUME NEW d \in Seq(Byte), NEW u \in Pair, NEW o \in Seq(UserInput),
               <<d, u, o>> \in T
        PROVE  Explained(T, d, u, o, end)
    <2>1. CASE <<d, u, o>> = << <<>>, end, <<>> >>
      BY <2>1, Zenon DEF Explained
    <2>2. ASSUME NEW c \in Seq(Byte), NEW v \in Pair, NEW p \in Seq(UserInput),
                 <<c, v, p>> \in S, <<d, u, o>> = <<c \o m, v, p \o x>>
          PROVE  Explained(T, d, u, o, end)
      <3>0. d = c \o m /\ u = v /\ o = p \o x
        BY <2>2, Zenon
      <3>1. Explained(S, c, u, p, r)
        BY <1>1, <2>2, <3>0, Zenon DEF Closed
      <3>2. CASE c = <<>> /\ p = <<>> /\ u = r
        <4>1. d = m \o <<>> /\ o = x
          BY <1>2, <3>0, <3>2, ConcatEmptySeq
        <4>2. CASE EventOf(m, r) = NoEvent
          BY <1>2, <1>3, <3>0, <3>2, <4>1, <4>2, Zenon DEF Explained, end
        <4>3. CASE EventOf(m, r) # NoEvent
          <5>1. x # <<>> /\ Head(x) = EventOf(m, r) /\ Tail(x) = <<>>
            BY <4>3, OneElement, Zenon
          <5>. QED
            BY <1>2, <1>3, <3>0, <3>2, <4>1, <4>3, <5>1, Zenon DEF Explained, end
        <4>. QED  BY <4>2, <4>3
      <3>3. ASSUME NEW n \in Pair, NEW rest \in Seq(Byte), c = n \o rest,
                   \/ EventOf(n, u) = NoEvent /\ <<rest, TiltAfter(n, u), p>> \in S
                   \/ /\ EventOf(n, u) # NoEvent
                      /\ p # <<>> /\ EventOf(n, u) = Head(p)
                      /\ <<rest, TiltAfter(n, u), Tail(p)>> \in S
            PROVE  Explained(T, d, u, o, end)
        <4>1. d = n \o (rest \o m) /\ rest \o m \in Seq(Byte)
          <5>1. (n \o rest) \o m = n \o (rest \o m) /\ rest \o m \in Seq(Byte)
            BY PairsAssociate, Zenon
          <5>. QED  BY <3>0, <3>3, <5>1
        <4>2. TiltAfter(n, u) \in Pair
          BY TiltStaysBytes, Zenon
        <4>3. CASE EventOf(n, u) = NoEvent /\ <<rest, TiltAfter(n, u), p>> \in S
          <5>1. <<rest \o m, TiltAfter(n, u), o>> \in T
            BY <1>4, <3>0, <4>2, <4>3, Zenon
          <5>. QED  BY <4>1, <4>3, <5>1, Zenon DEF Explained
        <4>4. CASE /\ EventOf(n, u) # NoEvent
                   /\ p # <<>> /\ EventOf(n, u) = Head(p)
                   /\ <<rest, TiltAfter(n, u), Tail(p)>> \in S
          <5>1. o # <<>> /\ Head(o) = Head(p) /\ Tail(o) = Tail(p) \o x
            BY <3>0, <4>4, EventsConcatenate, Zenon
          <5>2. Tail(p) \in Seq(UserInput)
            BY <4>4, HeadTailProperties
          <5>3. <<rest \o m, TiltAfter(n, u), Tail(p) \o x>> \in T
            BY <1>4, <4>2, <4>4, <5>2, Zenon
          <5>4. <<rest \o m, TiltAfter(n, u), Tail(o)>> \in T
            BY <5>1, <5>3
          <5>. QED  BY <4>1, <4>4, <5>1, <5>4, Zenon DEF Explained
        <4>. QED  BY <3>3, <4>3, <4>4
      <3>. QED  BY <3>1, <3>2, <3>3, Zenon DEF Explained
    <2>. QED  BY <1>5, <2>1, <2>2, Zenon
  <1>6. Closed(T, end)
    BY <1>5, Zenon DEF Closed
  <1>7. <<b \o m, t, q \o x>> \in T
    BY <1>1, <1>4, Zenon
  <1>. QED  BY <1>6, <1>7, Zenon DEF Carries, end

-----------------------------------------------------------------------------
(* What the device sends is what the host decodes                           *)

(* The device's readings after input i, and the event input i amounts to.   *)
ReadingAfter(i) ==
    CASE i.type = "TILT_X" -> <<EightBits(proto, i.level), reading[2]>>
      [] i.type = "TILT_Y" -> <<reading[1], EightBits(proto, i.level)>>
      [] OTHER -> reading
InputEvent(i) ==
    IF i.type \in {"BUTTON_DOWN", "BUTTON_UP"}
    THEN [type |-> i.type, args |-> i.at]
    ELSE [type |-> "TILT", args |-> <<ReadingAfter(i)[1], ReadingAfter(i)[2], 0>>]

LEMMA AxisIsBytes == Axis \subseteq Byte
  <1>1. ASSUME NEW p \in Protos, NEW level \in Levels[p]
        PROVE  EightBits(p, level) \in Byte
    <2>1. level \in 0..1023 /\ (p = "series" => level \in 0..255)
      BY <1>1, ProtoAssumption
    <2>. QED  BY <2>1 DEF EightBits, Byte
  <1>2. 0 \in Byte
    BY DEF Byte
  <1>. QED  BY <1>1, <1>2 DEF Axis

LEMMA ReadingsArePairs ==
    /\ \A p \in Axis \X Axis : p \in Pair
    /\ \A p \in (0..255) \X (0..255) : p \in Pair
  <1>1. ASSUME NEW a \in 0..255, NEW b \in 0..255 PROVE <<a, b>> \in Pair
    BY DEF Byte, Pair
  <1>2. \A a \in Axis : a \in 0..255
    BY AxisIsBytes DEF Byte
  <1>3. ASSUME NEW p \in Axis \X Axis PROVE p \in Pair
    <2>1. PICK a \in Axis, b \in Axis : p = <<a, b>>
      OBVIOUS
    <2>. QED  BY <1>1, <1>2, <2>1
  <1>4. ASSUME NEW p \in (0..255) \X (0..255) PROVE p \in Pair
    BY DEF Byte, Pair
  <1>. QED  BY <1>3, <1>4

(* A key: its two coordinates are the halves of a byte. *)
LEMMA KeyDecodes ==
    ASSUME proto \in Protos, NEW i \in Inputs, NEW r \in Pair,
           i.type \in {"BUTTON_DOWN", "BUTTON_UP"}
    PROVE  /\ EventOf(Encode(i), r) = [type |-> i.type, args |-> i.at]
           /\ TiltAfter(Encode(i), r) = r
           /\ [type |-> i.type, args |-> i.at] \in UserInput
  <1>1. i.at \in Keys /\ i.at \in (0..15) \X (0..15)
    BY ProtoAssumption DEF Inputs
  <1>2. i.at[1] \in 0..15 /\ i.at[2] \in 0..15 /\ i.at = <<i.at[1], i.at[2]>>
    BY <1>1
  <1>. DEFINE byte == 16 * i.at[1] + i.at[2]
  <1>3. byte \div 16 = i.at[1] /\ byte % 16 = i.at[2]
    BY <1>2
  <1>4. proto \in {"series", "40h"}
    BY ProtoAssumption
  <1>5. Encode(i)[2] = byte /\ Kind(Encode(i)[1]) = i.type
    <2>1. CASE proto = "series"
      BY <2>1 DEF Encode, Kind, SeriesKind
    <2>2. CASE proto = "40h"
      BY <2>2 DEF Encode, Kind, FortyHKind
    <2>. QED  BY <1>4, <2>1, <2>2
  <1>. HIDE DEF byte
  <1>6. EventOf(Encode(i), r) = Button(i.type, byte)
    BY <1>5, Zenon DEF EventOf
  <1>7. TiltAfter(Encode(i), r) = r
    BY <1>5 DEF TiltAfter
  <1>8. [type |-> i.type, args |-> i.at] \in UserInput
    BY <1>1 DEF UserInput
  <1>. QED  BY <1>2, <1>3, <1>6, <1>7, <1>8 DEF Button

(* A tilt reading: eight bits of it arrive, on the axis it is for. *)
LEMMA TiltDecodes ==
    ASSUME proto \in Protos, NEW i \in Inputs, i.type \in {"TILT_X", "TILT_Y"}
    PROVE  /\ Reading(Encode(i)) = EightBits(proto, i.level)
           /\ Kind(Encode(i)[1]) = i.type
           /\ EightBits(proto, i.level) \in Axis
  <1>1. i.level \in Levels[proto] /\ i.level \in 0..1023
        /\ (proto = "series" => i.level \in 0..255)
    BY ProtoAssumption DEF Inputs
  <1>2. EightBits(proto, i.level) \in Axis
    BY <1>1 DEF Axis
  <1>3. proto \in {"series", "40h"}
    BY ProtoAssumption
  <1>4. CASE proto = "series"
    <2>1. i.level \div 256 = 0 /\ i.level % 256 = i.level
      BY <1>1, <1>4, EightBitNumbers
    <2>2. Encode(i) = <<IF i.type = "TILT_X" THEN 208 ELSE 209, i.level>>
      BY <1>1, <1>4, <2>1 DEF Encode
    <2>. QED  BY <1>2, <1>4, <2>2 DEF Kind, SeriesKind, Reading, EightBits
  <1>5. CASE proto = "40h"
    <2>. DEFINE h == i.level \div 256  l == i.level % 256
    <2>1. h \in 0..3 /\ l \in 0..255 /\ h * 256 + l = i.level
      <3>1. i.level \in 0..1023
        BY <1>1
      <3>2. h \in 0..3
        BY <3>1, HighBits, SMT
      <3>3. l \in 0..255
        BY <3>1, LowBits, SMT
      <3>4. h * 256 + l = i.level
        BY <3>1, TenBitSum, SMT
      <3>. QED  BY <3>2, <3>3, <3>4, Zenon
    <2>2. Encode(i) = <<IF i.type = "TILT_X" THEN 16 + h ELSE 20 + h, l>>
      BY <1>5 DEF Encode
    <2>. HIDE DEF h, l
    <2>3. (16 + h) % 4 = h /\ (20 + h) % 4 = h
      BY <2>1
    <2>4. Encode(i)[1] % 4 = h /\ Encode(i)[2] = l
      BY <2>2, <2>3
    <2>5. Reading(Encode(i)) = EightBits(proto, i.level)
      BY <1>5, <2>1, <2>4 DEF Reading, EightBits
    <2>6. Kind(Encode(i)[1]) = i.type
      BY <1>5, <2>1, <2>2 DEF Kind, FortyHKind
    <2>. QED  BY <1>2, <2>5, <2>6
  <1>. QED  BY <1>3, <1>4, <1>5

LEMMA Decodes ==
    ASSUME proto \in Protos, reading \in Axis \X Axis, NEW i \in Inputs
    PROVE  /\ EventOf(Encode(i), reading) = InputEvent(i)
           /\ TiltAfter(Encode(i), reading) = ReadingAfter(i)
           /\ InputEvent(i) \in UserInput /\ InputEvent(i) # NoEvent
           /\ ReadingAfter(i) \in Axis \X Axis
  <1>1. CASE i.type \in {"BUTTON_DOWN", "BUTTON_UP"}
    <2>1. reading \in Pair
      BY AxisIsBytes DEF Pair
    <2>2. ReadingAfter(i) = reading /\ InputEvent(i) = [type |-> i.type, args |-> i.at]
      BY <1>1 DEF ReadingAfter, InputEvent
    <2>3. InputEvent(i) # NoEvent
      BY <1>1, <2>2 DEF NoEvent
    <2>. QED  BY <1>1, <2>1, <2>2, <2>3, KeyDecodes
  <1>2. CASE i.type \in {"TILT_X", "TILT_Y"}
    <2>. DEFINE l == EightBits(proto, i.level)
    <2>1. Reading(Encode(i)) = l /\ Kind(Encode(i)[1]) = i.type /\ l \in Axis
      BY <1>2, TiltDecodes
    <2>. HIDE DEF l
    <2>2. ReadingAfter(i) = IF i.type = "TILT_X" THEN <<l, reading[2]>> ELSE <<reading[1], l>>
      BY <1>2 DEF ReadingAfter, l
    <2>3. TiltAfter(Encode(i), reading) = ReadingAfter(i)
      BY <1>2, <2>1, <2>2 DEF TiltAfter
    <2>4. ReadingAfter(i) \in Axis \X Axis
      BY <2>1, <2>2
    <2>5. EventOf(Encode(i), reading) = TiltEvent(ReadingAfter(i))
      BY <1>2, <2>1, <2>3 DEF EventOf
    <2>6. InputEvent(i) = TiltEvent(ReadingAfter(i))
      BY <1>2 DEF InputEvent, TiltEvent
    <2>7. InputEvent(i) \in UserInput /\ InputEvent(i) # NoEvent
      BY <2>4, <2>6 DEF TiltEvent, UserInput, NoEvent
    <2>. QED  BY <2>3, <2>4, <2>5, <2>6, <2>7
  <1>. QED  BY <1>1, <1>2 DEF Inputs

(* Other messages are none to the host. *)
LEMMA NoiseIsNone ==
    ASSUME proto \in Protos, NEW m \in Noise, NEW r \in Pair
    PROVE  EventOf(m, r) = NoEvent /\ TiltAfter(m, r) = r
  <1>1. Kind(m[1]) = "IGNORED"
    <2>1. proto \in {"series", "40h"}
      BY ProtoAssumption
    <2>2. CASE proto = "series"
      <3>1. SeriesKind(m[1]) = "IGNORED"
        BY <2>2, NoiseAssumption, Zenon
      <3>. QED  BY <2>2, <3>1 DEF Kind
    <2>3. CASE proto = "40h"
      <3>1. FortyHKind(m[1]) = "IGNORED"
        BY <2>3, NoiseAssumption, Zenon
      <3>. QED  BY <2>3, <3>1 DEF Kind
    <2>. QED  BY <2>1, <2>2, <2>3
  <1>. QED  BY <1>1 DEF EventOf, TiltAfter

(* A tilt changes only by a message that is an event. *)
LEMMA NoneKeepsTilt ==
    ASSUME NEW m \in Pair, NEW t, EventOf(m, t) = NoEvent
    PROVE  TiltAfter(m, t) = t
  BY DEF EventOf, TiltAfter, Button, TiltEvent, NoEvent

-----------------------------------------------------------------------------
(* The inductive invariant                                                  *)

(* The bytes of messages the host has not finished: the one next_event()    *)
(* holds, those in the input buffer and those on their way.                 *)
Held == IF pc = "more" THEN <<buf[1]>> ELSE <<>>
Stream == (Held \o inbuf) \o wire

(* The inputs the application has not been given. *)
Pending == SubSeq(happened, Len(delivered) + 1, Len(happened))

(* How many events the properties promise something about. *)
Given == IF spoilt THEN before ELSE Len(delivered)

HistoryOK ==
    /\ happened \in Seq(UserInput)
    /\ reading \in Axis \X Axis
    /\ Given <= Len(happened)

ControlOK ==
    /\ spoilt => mode \in {"open", "closed"}
    /\ pc # "idle" => mode = "open"
    /\ mode # "new" => size = Size

(* While nothing has gone wrong, the bytes that are left mean the inputs    *)
(* that are left: no byte is lost or read twice, and the next one the host  *)
(* takes for the first of a message is the first of a message.              *)
StreamOK ==
    ~spoilt => link = "up" /\ Carries(Stream, tilt, Pending, reading)

Inv == TypeOK /\ HistoryOK /\ ControlOK /\ StreamOK

LEMMA CarriesStays ==
    ASSUME proto' = proto
    PROVE  \A b, t, q, r : Carries(b, t, q, r) => Carries(b, t, q, r)'
  <1>1. ASSUME NEW m, NEW t
        PROVE  EventOf(m, t)' = EventOf(m, t) /\ TiltAfter(m, t)' = TiltAfter(m, t)
    BY DEF EventOf, TiltAfter, Kind, Reading
  <1>2. ASSUME NEW S, NEW b, NEW t, NEW q, NEW r
        PROVE  Explained(S, b, t, q, r) = Explained(S, b, t, q, r)'
    BY <1>1, Zenon DEF Explained
  <1>3. ASSUME NEW S, NEW r
        PROVE  Closed(S, r) => Closed(S, r)'
    BY <1>2, Zenon DEF Closed
  <1>. QED  BY <1>3, Zenon DEF Carries

-----------------------------------------------------------------------------
(* Steps of the abstract specification                                      *)

Phase == CASE mode \in {"new", "opening"} -> "opening"
           [] mode = "open" /\ ~spoilt -> "open"
           [] OTHER -> "over"
Queue == SubSeq(happened, Len(Trusted) + 1, Len(happened))
SessionStep == [Session!Next]_(Session!vars)

LEMMA SessionSteps ==
    /\ UNCHANGED <<Phase, size, Queue, Trusted>> => SessionStep
    /\ /\ Phase = "opening" /\ size' = Size /\ UNCHANGED <<Phase, Queue, Trusted>>
       => SessionStep
    /\ /\ Phase = "opening" /\ size = Size /\ Phase' = "open"
       /\ UNCHANGED <<size, Queue, Trusted>>
       => SessionStep
    /\ /\ Phase = "open" /\ Queue # <<>>
       /\ Trusted' = Append(Trusted, Head(Queue)) /\ Queue' = Tail(Queue)
       /\ UNCHANGED <<Phase, size>>
       => SessionStep
    /\ /\ \E i \in UserInput : Queue' = Append(Queue, i)
       /\ UNCHANGED <<Phase, size, Trusted>>
       => SessionStep
    /\ /\ Phase # "over" /\ Phase' = "over" /\ UNCHANGED <<size, Queue, Trusted>>
       => SessionStep
  <1>. USE DEF SessionStep, Session!Next, Session!vars
  <1>1. UNCHANGED <<Phase, size, Queue, Trusted>> => SessionStep
    BY DEF Phase, Queue
  <1>2. /\ Phase = "opening" /\ size' = Size /\ UNCHANGED <<Phase, Queue, Trusted>>
        => SessionStep
    BY DEF Phase, Queue, Session!Measure
  <1>3. /\ Phase = "opening" /\ size = Size /\ Phase' = "open"
        /\ UNCHANGED <<size, Queue, Trusted>>
        => SessionStep
    BY DEF Phase, Queue, Session!Opened
  <1>4. /\ Phase = "open" /\ Queue # <<>>
        /\ Trusted' = Append(Trusted, Head(Queue)) /\ Queue' = Tail(Queue)
        /\ UNCHANGED <<Phase, size>>
        => SessionStep
    BY DEF Phase, Queue, Session!Deliver
  <1>5. /\ \E i \in UserInput : Queue' = Append(Queue, i)
        /\ UNCHANGED <<Phase, size, Trusted>>
        => SessionStep
    BY DEF Phase, Queue, UserInput, Session!Happen
  <1>6. /\ Phase # "over" /\ Phase' = "over" /\ UNCHANGED <<size, Queue, Trusted>>
        => SessionStep
    BY DEF Phase, Queue, Session!End
  <1>. QED  BY <1>1, <1>2, <1>3, <1>4, <1>5, <1>6

(* What the promises are about was given and is counted. *)
LEMMA TrustedIsGiven ==
    ASSUME TypeOK
    PROVE  Trusted \in Seq(Event \cup {Unset}) /\ Len(Trusted) = Given /\ Given \in Nat
  <1>. DEFINE E == Event \cup {Unset}
  <1>1. delivered \in Seq(E) /\ before \in 0..Len(delivered) /\ Len(delivered) \in Nat
    BY LenProperties DEF TypeOK
  <1>. HIDE DEF E
  <1>2. SubSeq(delivered, 1, before) \in Seq(E)
    BY <1>1, Pieces
  <1>3. ASSUME NEW e \in E PROVE Len(SubSeq(delivered, 1, before)) = before
    BY <1>1, PrefixStays
  <1>4. Unset \in E
    BY DEF E
  <1>. QED  BY <1>1, <1>2, <1>3, <1>4 DEF Trusted, Given, E

(* Once something has gone wrong, what follows is no part of the session.   *)
LEMMA SpoiltIsOver ==
    ASSUME TypeOK, TypeOK', happened' = happened,
           \/ delivered' = delivered
           \/ \E e \in Event \cup {Unset} : delivered' = Append(delivered, e),
           \/ spoilt /\ UNCHANGED spoilVars
           \/ Spoil
    PROVE  UNCHANGED <<Trusted, Given, Queue>>
  <1>. DEFINE E == Event \cup {Unset}
  <1>1. delivered \in Seq(E) /\ before \in 0..Len(delivered) /\ Len(delivered) \in 0..Len(delivered)
    BY LenProperties DEF TypeOK
  <1>2. ASSUME NEW k \in 0..Len(delivered)
        PROVE  SubSeq(delivered', 1, k) = SubSeq(delivered, 1, k)
    <2>1. ASSUME NEW e \in E PROVE SubSeq(Append(delivered, e), 1, k) = SubSeq(delivered, 1, k)
      BY <1>1, PrefixStays
    <2>. QED  BY <2>1
  <1>3. SubSeq(delivered, 1, Len(delivered)) = delivered
    BY <1>1, SubSeqFull
  <1>4. spoilt' /\ before' = Given
    BY DEF Given, Spoil, spoilVars, TypeOK
  <1>5. Trusted = SubSeq(delivered, 1, Given) /\ Given \in 0..Len(delivered)
    BY <1>1, <1>3 DEF Trusted, Given
  <1>6. Trusted' = SubSeq(delivered', 1, Given) /\ Given' = Given
    BY <1>4 DEF Trusted, Given
  <1>7. Trusted' = Trusted
    BY <1>2, <1>5, <1>6
  <1>. QED  BY <1>6, <1>7 DEF Queue

(* Before that, all that was given counts. *)
LEMMA UnspoiltQueue ==
    ASSUME TypeOK, ~spoilt
    PROVE  Trusted = delivered /\ Given = Len(delivered) /\ Queue = Pending
  BY DEF Trusted, Given, Queue, Pending

LEMMA StreamStays ==
    ASSUME StreamOK, UNCHANGED <<proto, tilt, reading, Stream, Pending>>,
           spoilt' = FALSE => spoilt = FALSE /\ link' = link, spoilt' \in BOOLEAN
    PROVE  StreamOK'
  BY CarriesStays, Zenon DEF StreamOK

-----------------------------------------------------------------------------
(* The steps                                                                *)

(* The host takes the first message of the stream. *)
LEMMA TakesMessage ==
    ASSUME Inv, TypeOK', mode = "open", ~spoilt,
           NEW m \in Pair, NEW s \in Seq(Byte), Stream = m \o s, Stream' = s,
           Returned(2, m), UNCHANGED <<link, deviceVars, spoilVars>>
    PROVE  HistoryOK' /\ ControlOK' /\ StreamOK' /\ SessionStep
  <1>. DEFINE e == EventOf(m, tilt)
  <1>. tilt \in Pair /\ TypeOK
    BY DEF Inv, TypeOK, Byte, Pair
  <1>1. /\ tilt' = TiltAfter(m, tilt)
        /\ delivered' = IF e = NoEvent THEN delivered ELSE Append(delivered, e)
        /\ pc' = "idle" /\ UNCHANGED <<proto, mode, size>>
        /\ UNCHANGED <<link, sent, reading, happened, spoilt, before>>
    BY DEF Returned, deviceVars, spoilVars
  <1>2. /\ Len(delivered) \in 0..Len(happened) /\ happened \in Seq(UserInput)
        /\ Trusted = delivered /\ Queue = Pending
        /\ Given = Len(delivered)
    BY UnspoiltQueue, LenProperties DEF Inv, HistoryOK, TypeOK
  <1>3. /\ Pending \in Seq(UserInput)
        /\ Pending # <<>> => /\ Len(delivered) + 1 \in 0..Len(happened)
                             /\ Tail(Pending) = SubSeq(happened, Len(delivered) + 1 + 1, Len(happened))
    BY <1>2, WhatIsLeft DEF Pending
  <1>4. \/ e = NoEvent /\ Carries(s, tilt', Pending, reading)
        \/ /\ e # NoEvent /\ Pending # <<>> /\ e = Head(Pending)
           /\ Carries(s, tilt', Tail(Pending), reading)
    BY <1>1, <1>3, CarriesFirst DEF Inv, StreamOK
  <1>5. ControlOK'
    BY <1>1 DEF Inv, ControlOK
  <1>6. Trusted' = delivered' /\ Queue' = Pending' /\ Given' = Len(delivered')
    BY <1>1 DEF Trusted, Queue, Pending, Given
  <1>7. Phase = "open" /\ Phase' = "open"
    BY <1>1 DEF Phase
  <1>8. CASE e = NoEvent
    <2>1. delivered' = delivered /\ Pending' = Pending
      BY <1>1, <1>8 DEF Pending
    <2>2. HistoryOK'
      BY <1>1, <1>6, <2>1, <1>2 DEF Inv, HistoryOK
    <2>3. StreamOK'
      BY <1>1, <1>4, <1>8, <2>1, CarriesStays, Zenon DEF StreamOK, Inv
    <2>4. SessionStep
      BY <1>1, <1>2, <1>6, <1>7, <2>1, SessionSteps
    <2>. QED  BY <1>5, <2>2, <2>3, <2>4
  <1>9. CASE e # NoEvent
    <2>. HIDE DEF e
    <2>1. e \in Event \cup {Unset}
      BY <1>9, DecodingTypes DEF e, Byte, Pair
    <2>2. /\ delivered' = Append(delivered, Head(Pending))
          /\ Len(delivered') = Len(delivered) + 1
      BY <1>1, <1>4, <1>9, <2>1, AppendProperties DEF TypeOK
    <2>3. Pending' = Tail(Pending)
      BY <1>1, <1>3, <1>4, <1>9, <2>2 DEF Pending
    <2>4. Len(delivered') <= Len(happened')
      <3>1. Len(delivered) + 1 <= Len(happened)
        BY <1>3, <1>4, <1>9
      <3>. QED  BY <1>1, <2>2, <3>1
    <2>5. HistoryOK'
      BY <1>1, <1>6, <2>4 DEF Inv, HistoryOK
    <2>6. StreamOK'
      BY <1>1, <1>4, <1>9, <2>3, CarriesStays, Zenon DEF StreamOK, Inv
    <2>7. SessionStep
      BY <1>1, <1>2, <1>4, <1>6, <1>7, <1>9, <2>2, <2>3, SessionSteps
    <2>. QED  BY <1>5, <2>5, <2>6, <2>7
  <1>. QED  BY <1>8, <1>9

(* The host returns something when nothing is promised any more, or         *)
(* ceases to be from now on.                                                *)
LEMMA ReturnsSpoilt ==
    ASSUME Inv, TypeOK', mode = "open", NEW n \in {-1, 0, 1, 2}, NEW b \in Pair,
           Returned(n, b), UNCHANGED deviceVars,
           \/ spoilt /\ UNCHANGED spoilVars
           \/ Spoil
    PROVE  HistoryOK' /\ ControlOK' /\ StreamOK' /\ SessionStep
  <1>1. /\ pc' = "idle" /\ UNCHANGED <<proto, mode, size>>
        /\ \/ delivered' = delivered
           \/ \E e \in Event \cup {Unset} : delivered' = Append(delivered, e)
    BY ReturnedTypes DEF Inv, Pair
  <1>2. UNCHANGED <<sent, reading, happened>>
    BY DEF deviceVars
  <1>3. UNCHANGED <<Trusted, Given, Queue>>
    BY <1>1, <1>2, SpoiltIsOver, Zenon DEF Inv
  <1>4. spoilt' = TRUE
    BY DEF Spoil, spoilVars, Inv, TypeOK
  <1>5. ControlOK' /\ StreamOK'
    BY <1>1, <1>4 DEF Inv, ControlOK, StreamOK
  <1>6. HistoryOK'
    BY <1>2, <1>3 DEF Inv, HistoryOK
  <1>7. Phase' = "over" /\ Phase \in {"open", "over"}
    BY <1>1, <1>4 DEF Phase
  <1>8. SessionStep
    BY <1>1, <1>3, <1>7, SessionSteps
  <1>. QED  BY <1>5, <1>6, <1>8

(* What the application and the line do between two messages.               *)
LEMMA Quiet ==
    ASSUME Inv, ControlOK',
           UNCHANGED <<proto, mode, size, tilt, delivered, link, reading, happened, spoilVars>>,
           \/ Stream' = Stream
           \/ Carries(Stream, tilt, Pending, reading) => Carries(Stream', tilt, Pending, reading)
    PROVE  HistoryOK' /\ StreamOK' /\ SessionStep
  <1>. UNCHANGED <<spoilt, before>>
    BY DEF spoilVars
  <1>1. UNCHANGED <<Trusted, Given, Queue, Pending, Phase>>
    BY DEF Trusted, Given, Queue, Pending, Phase
  <1>2. HistoryOK'
    BY <1>1 DEF Inv, HistoryOK
  <1>3. StreamOK'
    BY <1>1, CarriesStays, Zenon DEF Inv, StreamOK
  <1>4. SessionStep
    BY <1>1, SessionSteps
  <1>. QED  BY <1>2, <1>3, <1>4

(* The pieces in the stream. *)
LEMMA StreamParts ==
    ASSUME TypeOK
    PROVE  /\ Held \in Seq(Byte) /\ inbuf \in Seq(Byte) /\ wire \in Seq(Byte)
           /\ Stream \in Seq(Byte)
           /\ pc # "more" => Held = <<>> /\ Stream = inbuf \o wire
  <1>1. Held \in Seq(Byte)
    <2>1. buf[1] \in Byte
      BY DEF TypeOK
    <2>. QED  BY <2>1 DEF Held
  <1>2. inbuf \in Seq(Byte) /\ wire \in Seq(Byte)
    BY DEF TypeOK
  <1>3. Held \o inbuf \in Seq(Byte)
    BY <1>1, <1>2, ConcatProperties
  <1>4. Stream \in Seq(Byte)
    BY <1>2, <1>3, ConcatProperties DEF Stream
  <1>5. pc # "more" => Held = <<>> /\ Stream = inbuf \o wire
    BY <1>2, ConcatEmptySeq DEF Stream, Held
  <1>. QED  BY <1>1, <1>2, <1>4, <1>5

LEMMA ReadBytesStep ==
    ASSUME Inv, TypeOK', ReadBytes
    PROVE  HistoryOK' /\ ControlOK' /\ StreamOK' /\ SessionStep
  <1>. DEFINE n == Min({2, Len(inbuf)})
  <1>1. /\ pc = "read" /\ inbuf # <<>> /\ inbuf' = SubSeq(inbuf, n + 1, Len(inbuf))
        /\ IF n = 2 THEN Returned(2, <<inbuf[1], inbuf[2]>>)
           ELSE /\ pc' = "more" /\ buf' = <<inbuf[1], 0>>
                /\ UNCHANGED <<proto, mode, size, read, status, tilt, delivered>>
        /\ UNCHANGED <<link, wire, deviceVars, spoilVars>>
    BY Zenon DEF ReadBytes
  <1>. TypeOK /\ wire' = wire /\ mode = "open"
    BY <1>1 DEF Inv, ControlOK
  <1>2. /\ inbuf \in Seq(Byte) /\ wire \in Seq(Byte) /\ Stream = inbuf \o wire
        /\ Stream \in Seq(Byte)
    BY <1>1, StreamParts
  <1>3. /\ n \in {1, 2} /\ inbuf' \in Seq(Byte)
        /\ n = 1 => inbuf = <<inbuf[1]>> /\ inbuf[1] \in Byte /\ inbuf' = <<>>
        /\ n = 2 => /\ <<inbuf[1], inbuf[2]>> \in Pair
                    /\ inbuf = <<inbuf[1], inbuf[2]>> \o inbuf'
    BY <1>1, <1>2, FirstRead, Zenon DEF Pair
  <1>. HIDE DEF n
  <1>4. CASE n = 2
    <2>. DEFINE m == <<inbuf[1], inbuf[2]>>
    <2>1. Returned(2, m) /\ m \in Pair /\ inbuf = m \o inbuf'
      BY <1>1, <1>3, <1>4
    <2>. HIDE DEF m
    <2>2. pc' = "idle"
      BY <2>1 DEF Returned
    <2>3. Stream' = inbuf' \o wire
      BY <2>2, StreamParts, <1>1, <1>3, <1>2, ConcatEmptySeq DEF Stream, Held
    <2>4. m \in Seq(Byte)
      BY <2>1, PairParts
    <2>5. Stream = m \o Stream' /\ Stream' \in Seq(Byte)
      <3>1. wire \in Seq(Byte) /\ inbuf' \in Seq(Byte)
        BY <1>2, <1>3
      <3>2. (m \o inbuf') \o wire = m \o (inbuf' \o wire)
        BY <2>4, <3>1, BytesAssociate, Zenon
      <3>3. Stream = (m \o inbuf') \o wire
        BY <1>2, <2>1
      <3>. QED  BY <2>3, <3>1, <3>2, <3>3, BytesConcatenate, Zenon
    <2>6. CASE spoilt
      <3>1. UNCHANGED spoilVars /\ UNCHANGED deviceVars
        BY <1>1
      <3>. QED  BY <2>1, <2>6, <3>1, ReturnsSpoilt
    <2>7. CASE ~spoilt
      <3>1. UNCHANGED <<link, deviceVars, spoilVars>>
        BY <1>1
      <3>. QED  BY <2>1, <2>5, <2>7, <3>1, TakesMessage, Zenon
    <2>. QED  BY <2>6, <2>7
  <1>5. CASE n = 1
    <2>1. /\ pc' = "more" /\ buf' = <<inbuf[1], 0>> /\ inbuf' = <<>>
          /\ UNCHANGED <<proto, mode, size, read, status, tilt, delivered>>
          /\ inbuf = <<inbuf[1]>>
      BY <1>1, <1>3, <1>5
    <2>2. Held' = inbuf
      BY <2>1 DEF Held
    <2>3. Stream' = Stream
      BY <1>2, <2>1, <2>2, ConcatEmptySeq DEF Stream
    <2>4. ControlOK'
      BY <1>1, <2>1 DEF Inv, ControlOK, spoilVars
    <2>5. UNCHANGED <<proto, mode, size, tilt, delivered, link, reading, happened, spoilVars>>
      BY <1>1, <2>1 DEF deviceVars
    <2>. QED  BY <2>3, <2>4, <2>5, Quiet
  <1>. QED  BY <1>3, <1>4, <1>5

LEMMA ReadMoreStep ==
    ASSUME Inv, TypeOK', ReadMore
    PROVE  HistoryOK' /\ ControlOK' /\ StreamOK' /\ SessionStep
  <1>. DEFINE m == <<buf[1], Head(inbuf)>>
  <1>1. /\ pc = "more" /\ inbuf # <<>> /\ inbuf' = Tail(inbuf) /\ Returned(2, m)
        /\ UNCHANGED <<link, wire, deviceVars, spoilVars>>
    BY Zenon DEF ReadMore
  <1>. TypeOK /\ mode = "open" /\ wire' = wire
    BY <1>1 DEF Inv, ControlOK
  <1>2. /\ inbuf \in Seq(Byte) /\ wire \in Seq(Byte)
        /\ inbuf' \in Seq(Byte) /\ Head(inbuf) \in Byte /\ buf[1] \in Byte
    BY <1>1, HeadTailProperties DEF TypeOK
  <1>3. m \in Pair /\ m = <<buf[1]>> \o <<Head(inbuf)>> /\ m \in Seq(Byte)
        /\ <<buf[1]>> \in Seq(Byte) /\ <<Head(inbuf)>> \in Seq(Byte)
    BY <1>2, TwoMakeAPair DEF Pair
  <1>4. inbuf = <<Head(inbuf)>> \o inbuf'
    BY <1>1, <1>2, FirstIsHead
  <1>. HIDE DEF m
  <1>5. pc' = "idle"
    BY <1>1 DEF Returned
  <1>6. Stream' = inbuf' \o wire /\ Stream' \in Seq(Byte)
    BY <1>2, <1>5, ConcatEmptySeq, ConcatProperties DEF Stream, Held
  <1>7. Stream = (<<buf[1]>> \o (<<Head(inbuf)>> \o inbuf')) \o wire
    BY <1>1, <1>4 DEF Stream, Held
  <1>8. <<buf[1]>> \o (<<Head(inbuf)>> \o inbuf') = m \o inbuf'
    BY <1>2, <1>3, BytesAssociate
  <1>9. Stream = m \o Stream'
    BY <1>2, <1>3, <1>6, <1>7, <1>8, BytesAssociate
  <1>10. CASE spoilt
    <2>1. UNCHANGED spoilVars /\ UNCHANGED deviceVars
      BY <1>1
    <2>. QED  BY <1>1, <1>3, <1>10, <2>1, ReturnsSpoilt
  <1>11. CASE ~spoilt
    <2>1. UNCHANGED <<link, deviceVars, spoilVars>>
      BY <1>1
    <2>. QED  BY <1>1, <1>3, <1>6, <1>9, <1>11, <2>1, TakesMessage, Zenon
  <1>. QED  BY <1>10, <1>11

LEMMA ReadsLittleStep ==
    ASSUME Inv, TypeOK', ReadNothing \/ ReadOnlyOne
    PROVE  HistoryOK' /\ ControlOK' /\ StreamOK' /\ SessionStep
  <1>. TypeOK /\ mode = "open" /\ buf \in Pair
    BY DEF Inv, ControlOK, TypeOK, ReadNothing, ReadOnlyOne, Pair
  <1>1. CASE ReadOnlyOne
    <2>1. PICK n \in {1, -1} : Returned(n, buf)
      BY <1>1, Zenon DEF ReadOnlyOne
    <2>2. Spoil /\ UNCHANGED deviceVars
      BY <1>1, Zenon DEF ReadOnlyOne
    <2>3. n \in {-1, 0, 1, 2}
      OBVIOUS
    <2>. QED  BY <2>1, <2>2, <2>3, ReturnsSpoilt
  <1>2. CASE ReadNothing
    <2>1. PICK n \in (IF link = "up" THEN {0} ELSE {0, -1}) : Returned(n, buf)
      BY <1>2, Zenon DEF ReadNothing
    <2>2. UNCHANGED <<lineVars, deviceVars, spoilVars>> /\ pc = "read"
      BY <1>2, Zenon DEF ReadNothing
    <2>3. n \in {-1, 0, 1, 2}
      BY <2>1
    <2>4. CASE spoilt
      <3>1. UNCHANGED spoilVars /\ UNCHANGED deviceVars
        BY <2>2
      <3>. QED  BY <2>1, <2>3, <2>4, <3>1, ReturnsSpoilt
    <2>5. CASE ~spoilt
      <3>1. n = 0
        BY <2>1, <2>5 DEF Inv, StreamOK
      <3>2. pc' = "idle" /\ UNCHANGED <<tilt, delivered, proto, mode, size>>
        BY <2>1, <3>1 DEF Returned
      <3>3. Stream' = Stream
        BY <2>2, <3>2 DEF Stream, Held, lineVars
      <3>4. ControlOK'
        BY <2>2, <3>2 DEF Inv, ControlOK, spoilVars
      <3>5. UNCHANGED <<proto, mode, size, tilt, delivered, link, reading, happened, spoilVars>>
        BY <2>2, <3>2 DEF deviceVars, lineVars
      <3>. QED  BY <3>3, <3>4, <3>5, Quiet
    <2>. QED  BY <2>4, <2>5
  <1>. QED  BY <1>1, <1>2

LEMMA DeviceSendsStep ==
    ASSUME Inv, TypeOK', NEW i \in Inputs, DeviceSends(i)
    PROVE  HistoryOK' /\ ControlOK' /\ StreamOK' /\ SessionStep
  <1>. DEFINE e == InputEvent(i)  m == Encode(i)
  <1>. TypeOK /\ proto \in Protos /\ reading \in Axis \X Axis /\ happened \in Seq(UserInput)
    BY DEF Inv, TypeOK, HistoryOK
  <1>1. /\ mode = "open" /\ wire' = wire \o m
        /\ UNCHANGED <<proto, mode, size, pc, buf, tilt, delivered, link, inbuf, spoilt, before>>
    BY DEF DeviceSends, hostVars, spoilVars
  <1>2. /\ EventOf(m, reading) = e /\ e # NoEvent /\ e \in UserInput
        /\ TiltAfter(m, reading) = ReadingAfter(i)
        /\ ReadingAfter(i) \in Axis \X Axis
    BY Decodes
  <1>3. reading' = ReadingAfter(i)
    BY DEF DeviceSends, ReadingAfter
  <1>4. happened' = Append(happened, e)
    <2>1. ReadingAfter(i) \o <<0>> = <<ReadingAfter(i)[1], ReadingAfter(i)[2], 0>>
      BY <1>2, TiltArguments
    <2>. QED  BY <2>1, Zenon DEF DeviceSends, ReadingAfter, InputEvent
  <1>5. m \in Pair /\ m \in Seq(Byte) /\ reading \in Pair
    BY SentBytes, AxisIsBytes DEF Pair
  <1>. HIDE DEF e, m
  <1>6. /\ Trusted' = Trusted /\ Given' = Given /\ Phase' = Phase
        /\ Len(Trusted) = Given /\ Given \in 0..Len(happened)
    BY <1>1, TrustedIsGiven, LenProperties DEF Trusted, Given, Phase, Inv, HistoryOK
  <1>7. Len(happened') = Len(happened) + 1 /\ happened' \in Seq(UserInput)
    BY <1>2, <1>4, AppendProperties
  <1>8. HistoryOK'
    BY <1>2, <1>3, <1>6, <1>7 DEF HistoryOK
  <1>9. ControlOK'
    BY <1>1 DEF Inv, ControlOK
  <1>10. Queue' = Append(Queue, e)
    <2>0. Queue = SubSeq(happened, Given + 1, Len(happened))
      BY <1>6 DEF Queue
    <2>1. Queue \in Seq(UserInput)
      BY <1>6, <2>0, WhatIsLeft
    <2>2. SubSeq(Append(happened, e), Given + 1, Len(Append(happened, e))) = Queue \o <<e>>
      BY <1>2, <1>6, <2>0, LeftGrows
    <2>. QED  BY <1>2, <1>4, <1>6, <2>1, <2>2, AppendIsConcat DEF Queue
  <1>11. SessionStep
    BY <1>1, <1>2, <1>6, <1>10, SessionSteps
  <1>12. StreamOK'
    <2>1. CASE spoilt
      BY <1>1, <2>1 DEF StreamOK
    <2>2. CASE ~spoilt
      <3>1. Stream \in Seq(Byte) /\ Held \o inbuf \in Seq(Byte) /\ wire \in Seq(Byte)
        BY StreamParts, ConcatProperties
      <3>2. Stream' = Stream \o m
        <4>1. Held' = Held
          BY <1>1 DEF Held
        <4>. QED  BY <1>1, <1>5, <3>1, <4>1, BytesAssociate DEF Stream
      <3>3. Len(delivered) \in 0..Len(happened)
        BY <1>6, <2>2 DEF Given
      <3>4. /\ Pending \in Seq(UserInput)
            /\ SubSeq(Append(happened, e), Len(delivered) + 1, Len(Append(happened, e)))
                 = Pending \o <<e>>
        BY <1>2, <3>3, WhatIsLeft, LeftGrows DEF Pending
      <3>5. Pending' = Pending \o <<e>>
        BY <1>1, <1>2, <1>4, <3>4 DEF Pending
      <3>6. tilt \in Pair /\ <<e>> \in Seq(UserInput)
        BY <1>2 DEF TypeOK, Byte, Pair
      <3>7. Carries(Stream, tilt, Pending, reading)
        BY <2>2 DEF Inv, StreamOK
      <3>8. Carries(Stream \o m, tilt, Pending \o <<e>>, TiltAfter(m, reading))
        BY <1>2, <1>5, <3>1, <3>4, <3>6, <3>7, CarriesOneMore, Zenon
      <3>9. Carries(Stream', tilt', Pending', reading')
        BY <1>1, <1>2, <1>3, <3>2, <3>5, <3>8
      <3>10. Carries(Stream, tilt, Pending, reading)'
        BY <1>1, <3>9, CarriesStays, Zenon
      <3>. QED  BY <1>1, <2>2, <3>10 DEF Inv, StreamOK
    <2>. QED  BY <2>1, <2>2
  <1>. QED  BY <1>8, <1>9, <1>11, <1>12

LEMMA LineStep ==
    ASSUME Inv, TypeOK', Arrive \/ \E m \in Noise : DeviceChatters(m)
    PROVE  HistoryOK' /\ ControlOK' /\ StreamOK' /\ SessionStep
  <1>. TypeOK
    BY DEF Inv
  <1>1. UNCHANGED <<proto, mode, size, pc, buf, tilt, delivered, link, reading, happened>>
        /\ UNCHANGED spoilVars
    BY DEF Arrive, DeviceChatters, hostVars, deviceVars
  <1>2. Held' = Held
    BY <1>1 DEF Held
  <1>3. ControlOK'
    BY <1>1 DEF Inv, ControlOK, spoilVars
  <1>4. CASE Arrive
    <2>1. PICK k \in 1..Len(wire) :
            /\ inbuf' = inbuf \o SubSeq(wire, 1, k)
            /\ wire' = SubSeq(wire, k + 1, Len(wire))
      BY <1>4, Zenon DEF Arrive
    <2>. DEFINE first == SubSeq(wire, 1, k)
    <2>2. /\ Held \in Seq(Byte) /\ inbuf \in Seq(Byte) /\ wire \in Seq(Byte)
          /\ k \in 0..Len(wire)
      BY StreamParts
    <2>3. first \in Seq(Byte) /\ wire' \in Seq(Byte) /\ wire = first \o wire'
      BY <2>1, <2>2, Pieces
    <2>4. inbuf' = inbuf \o first
      BY <2>1
    <2>. HIDE DEF first
    <2>5. Held \o inbuf \in Seq(Byte)
      BY <2>2, ConcatProperties
    <2>6. Stream' = ((Held \o inbuf) \o first) \o wire'
      <3>1. (Held \o inbuf) \o first = Held \o (inbuf \o first)
        <4>1. Held \in Seq(Byte) /\ inbuf \in Seq(Byte) /\ first \in Seq(Byte)
          BY <2>2, <2>3
        <4>. QED  BY <4>1, BytesAssociate, Zenon
      <3>. QED  BY <1>2, <2>4, <3>1 DEF Stream
    <2>7. Stream' = Stream
      BY <2>3, <2>5, <2>6, BytesAssociate DEF Stream
    <2>. QED  BY <1>1, <1>3, <2>7, Quiet
  <1>5. ASSUME NEW m \in Noise, DeviceChatters(m)
        PROVE  Carries(Stream, tilt, Pending, reading) => Carries(Stream', tilt, Pending, reading)
    <2>. SUFFICES ASSUME Carries(Stream, tilt, Pending, reading)
                  PROVE  Carries(Stream', tilt, Pending, reading)
      OBVIOUS
    <2>1. wire' = wire \o m /\ inbuf' = inbuf
      BY <1>5 DEF DeviceChatters
    <2>2. m \in Seq(Byte) /\ m \in Pair
      BY SentBytes, NoiseAssumption DEF Pair
    <2>3. Stream \in Seq(Byte) /\ Held \o inbuf \in Seq(Byte) /\ wire \in Seq(Byte)
      BY StreamParts, ConcatProperties
    <2>4. Stream' = Stream \o m
      BY <1>2, <2>1, <2>2, <2>3, BytesAssociate DEF Stream
    <2>5. reading \in Pair /\ tilt \in Pair /\ proto \in Protos
      <3>1. reading \in Axis \X Axis
        BY DEF Inv, HistoryOK
      <3>2. tilt \in (0..255) \X (0..255) /\ proto \in Protos
        BY DEF Inv, TypeOK
      <3>. QED  BY <3>1, <3>2, ReadingsArePairs
    <2>6. EventOf(m, reading) = NoEvent /\ TiltAfter(m, reading) = reading
      BY <2>5, NoiseIsNone
    <2>7. Pending \in Seq(UserInput) /\ <<>> \in Seq(UserInput) /\ Pending \o <<>> = Pending
      <3>1. happened \in Seq(UserInput)
        BY DEF Inv, HistoryOK
      <3>2. CASE spoilt
        <4>1. \A j \in Len(delivered) + 1 .. Len(happened) : happened[j] \in UserInput
          <5>1. Len(delivered) \in Nat /\ Len(happened) \in Nat
            BY <3>1, LenProperties DEF TypeOK
          <5>. QED  BY <3>1, <5>1, ElementOfSeq
        <4>2. Len(delivered) + 1 \in Int /\ Len(happened) \in Int
          BY <3>1, LenProperties DEF TypeOK
        <4>3. Pending \in Seq(UserInput)
          BY <4>1, <4>2, SubSeqProperties DEF Pending
        <4>. QED  BY <4>3, ConcatEmptySeq, EmptySeq
      <3>3. CASE ~spoilt
        <4>1. Len(delivered) \in 0..Len(happened)
          BY <3>1, <3>3, LenProperties DEF Inv, HistoryOK, Given, TypeOK
        <4>2. Pending \in Seq(UserInput)
          BY <3>1, <4>1, WhatIsLeft DEF Pending
        <4>. QED  BY <4>2, ConcatEmptySeq, EmptySeq
      <3>. QED  BY <3>2, <3>3
    <2>8. Carries(Stream \o m, tilt, Pending \o <<>>, TiltAfter(m, reading))
      BY <2>2, <2>3, <2>5, <2>6, <2>7, CarriesOneMore, Zenon
    <2>. QED  BY <2>4, <2>6, <2>7, <2>8
  <1>6. CASE \E m \in Noise : DeviceChatters(m)
    BY <1>1, <1>3, <1>5, <1>6, Quiet, Zenon
  <1>. QED  BY <1>4, <1>6

LEMMA InvInit == Init => Inv /\ Session!Init
  <1>. SUFFICES ASSUME Init PROVE Inv /\ Session!Init
    OBVIOUS
  <1>1. TypeOK
    BY TypeOKInit
  <1>2. 0 \in Axis /\ reading \in Axis \X Axis
    BY DEF Axis, Init
  <1>3. happened = <<>> /\ delivered = <<>> /\ Len(<<>>) = 0 /\ <<>> \in Seq(UserInput)
    BY EmptySeq DEF Init
  <1>4. HistoryOK
    BY <1>2, <1>3 DEF HistoryOK, Given, Init
  <1>5. ControlOK
    BY DEF ControlOK, Init
  <1>6. SubSeq(<<>>, 0 + 1, 0) = <<>>
    BY SubSeqEmpty
  <1>7. Pending = <<>> /\ Trusted = <<>> /\ Queue = <<>>
    BY <1>3, <1>6 DEF Pending, Trusted, Queue, Init
  <1>8. Stream = <<>>
    BY StreamParts, <1>1, ConcatEmptySeq DEF Init
  <1>9. StreamOK
    <2>1. tilt \in Pair /\ reading = tilt /\ link = "up"
      BY DEF Init, Byte, Pair
    <2>. QED  BY <1>7, <1>8, <2>1, CarriesNothing DEF StreamOK
  <1>10. Session!Init
    BY <1>7 DEF Session!Init, Init, Queue
  <1>. QED  BY <1>1, <1>4, <1>5, <1>9, <1>10 DEF Inv

LEMMA InvStep == Inv /\ [Next]_vars => Inv' /\ SessionStep
  <1>. SUFFICES ASSUME Inv, [Next]_vars PROVE Inv' /\ SessionStep
    OBVIOUS
  <1>0. TypeOK' /\ TypeOK
    BY TypeOKStep DEF Inv
  <1>. SUFFICES HistoryOK' /\ ControlOK' /\ StreamOK' /\ SessionStep
    BY <1>0 DEF Inv
  <1>1. CASE OpenStarts
    <2>1. /\ UNCHANGED <<proto, pc, buf, tilt, delivered, link, wire, inbuf>>
          /\ UNCHANGED <<reading, happened, spoilt, before>>
          /\ mode = "new" /\ mode' = "opening" /\ size' = Size
      BY <1>1 DEF OpenStarts, lineVars, deviceVars, spoilVars
    <2>2. ControlOK' /\ ~spoilt
      BY <2>1 DEF Inv, ControlOK
    <2>3. UNCHANGED <<Trusted, Given, Queue, Pending, Stream>>
      BY <2>1 DEF Trusted, Given, Queue, Pending, Stream, Held
    <2>4. HistoryOK'
      BY <2>1, <2>3 DEF Inv, HistoryOK
    <2>5. StreamOK'
      BY <2>1, <2>3, CarriesStays, Zenon DEF Inv, StreamOK
    <2>6. Phase = "opening" /\ Phase' = "opening"
      BY <2>1 DEF Phase
    <2>. QED  BY <2>1, <2>2, <2>3, <2>4, <2>5, <2>6, SessionSteps
  <1>2. CASE OpenEnds \/ Close
    <2>1. /\ UNCHANGED <<proto, size, pc, buf, tilt, delivered, link, wire, inbuf>>
          /\ UNCHANGED <<reading, happened, spoilt, before>>
          /\ \/ mode = "opening" /\ mode' \in {"open", "failed"}
             \/ mode = "open" /\ pc = "idle" /\ mode' = "closed"
      BY <1>2 DEF OpenEnds, Close, lineVars, deviceVars, spoilVars
    <2>2. ControlOK' /\ size = Size /\ (mode = "opening" => ~spoilt)
      BY <2>1 DEF Inv, ControlOK
    <2>3. UNCHANGED <<Trusted, Given, Queue, Pending, Stream>>
      BY <2>1 DEF Trusted, Given, Queue, Pending, Stream, Held
    <2>4. HistoryOK'
      BY <2>1, <2>3 DEF Inv, HistoryOK
    <2>5. StreamOK'
      BY <2>1, <2>3, CarriesStays, Zenon DEF Inv, StreamOK
    <2>6. \/ Phase = "opening" /\ Phase' = "open"
          \/ Phase # "over" /\ Phase' = "over"
          \/ Phase = Phase'
      BY <2>1, <2>2 DEF Phase
    <2>. QED  BY <2>1, <2>2, <2>3, <2>4, <2>5, <2>6, SessionSteps
  <1>3. CASE NextEvent
    <2>1. /\ UNCHANGED <<proto, mode, size, tilt, delivered, link, wire, inbuf>>
          /\ UNCHANGED <<reading, happened>> /\ UNCHANGED spoilVars
          /\ mode = "open" /\ pc = "idle" /\ pc' = "read"
      BY <1>3 DEF NextEvent, lineVars, deviceVars
    <2>2. Stream' = Stream
      BY <2>1 DEF Stream, Held
    <2>3. ControlOK'
      BY <2>1 DEF Inv, ControlOK, spoilVars
    <2>. QED  BY <2>1, <2>2, <2>3, Quiet
  <1>4. CASE Reads
    BY <1>0, <1>4, ReadBytesStep, ReadMoreStep, ReadsLittleStep, Zenon DEF Reads
  <1>5. ASSUME NEW i \in Inputs, DeviceSends(i)
        PROVE  HistoryOK' /\ ControlOK' /\ StreamOK' /\ SessionStep
    BY <1>0, <1>5, DeviceSendsStep
  <1>6. CASE Arrive \/ \E m \in Noise : DeviceChatters(m)
    BY <1>0, <1>6, LineStep
  <1>7. CASE Unplug
    <2>1. /\ UNCHANGED <<proto, mode, size, pc, buf, tilt, delivered, reading, happened>>
          /\ Spoil /\ mode = "open"
      BY <1>7 DEF Unplug, hostVars, deviceVars
    <2>2. UNCHANGED <<Trusted, Given, Queue>>
      BY <1>0, <2>1, SpoiltIsOver
    <2>3. HistoryOK'
      BY <2>1, <2>2 DEF Inv, HistoryOK
    <2>4. ControlOK' /\ StreamOK'
      BY <2>1 DEF Inv, ControlOK, StreamOK, Spoil
    <2>5. Phase' = "over" /\ Phase \in {"open", "over"}
      BY <2>1 DEF Phase, Spoil
    <2>. QED  BY <2>1, <2>2, <2>3, <2>4, <2>5, SessionSteps
  <1>8. CASE Over \/ UNCHANGED vars
    <2>1. UNCHANGED vars
      BY <1>8, Zenon DEF Over
    <2>2. /\ UNCHANGED <<proto, mode, size, pc, buf, tilt, delivered, link, wire, inbuf>>
          /\ UNCHANGED <<reading, happened>> /\ UNCHANGED spoilVars
      BY <2>1 DEF vars, hostVars, lineVars, deviceVars
    <2>3. Stream' = Stream
      BY <2>2 DEF Stream, Held
    <2>4. ControlOK'
      BY <2>2 DEF Inv, ControlOK, spoilVars
    <2>. QED  BY <2>2, <2>3, <2>4, Quiet
  <1>. QED
    BY <1>1, <1>2, <1>3, <1>4, <1>5, <1>6, <1>7, <1>8, Zenon DEF Next

(* Whatever pieces the line delivers, and whenever the device is unplugged  *)
(* or stalls in the middle of a message: until then, the application gets   *)
(* every input, once and in order, with the tilt the device had then, and   *)
(* no message is ever read from its middle.                                 *)
THEOREM SerialRefinesSession == Spec => SerialImplementsSession
  <1>1. Inv /\ [Next]_vars => [Session!Next]_(Session!vars)
    BY InvStep DEF SessionStep
  <1>. QED
    BY <1>1, InvInit, InvStep, PTL DEF Spec, SerialImplementsSession, Session!Spec

===============================================================================
