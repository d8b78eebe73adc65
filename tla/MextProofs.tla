----------------------------- MODULE MextProofs -----------------------------
(***************************************************************************)
(* Proofs about Mext: what holds of every handshake and every event read   *)
(* for all deadlines, sizes, inputs and fragmentations of the stream.      *)
(*                                                                         *)
(* The second part is about a line that delivers whole messages: for all   *)
(* deadlines, sizes, inputs and chatter, the host reads what the device    *)
(* wrote, so that the handshake is about this device, no error is reported *)
(* of one that is there, and the session is the one of DeviceSession.      *)
(***************************************************************************)
EXTENDS Mext, SharedLemmas, SequenceTheorems, TLAPS

Message == Seq(Byte) \ {<<>>}

-----------------------------------------------------------------------------
(* Lemmas about the operators.                                              *)

(* The smaller of two numbers, as platform_read() computes how much of a    *)
(* payload it can take.                                                     *)
LEMMA MinOfTwo ==
    ASSUME NEW a \in Int, NEW b \in Int
    PROVE  /\ Min({a, b}) \in {a, b}
           /\ Min({a, b}) <= a
           /\ Min({a, b}) <= b
<1>1. \E x \in {a, b} : \A y \in {a, b} : x =< y
  <2>1. CASE a <= b
    BY <2>1
  <2>2. CASE ~(a <= b)
    BY <2>2
  <2>3. QED
    BY <2>1, <2>2
<1>2. Min({a, b}) \in {a, b} /\ \A y \in {a, b} : Min({a, b}) =< y
  BY <1>1 DEF Min
<1>3. QED
  BY <1>2

(* A wait of mext_open() is never empty, never outlasts the deadline, and   *)
(* never outlasts the moment of a retry that is still to come.              *)
LEMMA WaitMsFits ==
    ASSUME NEW now \in Nat, NEW r \in BOOLEAN, now < Timeout
    PROVE  /\ WaitMs(now, r) \in Nat \ {0}
           /\ WaitMs(now, r) <= Timeout - now
           /\ ~r /\ RetryAt > now => WaitMs(now, r) <= RetryAt - now
<1> USE TimingAssumption
<1> DEFINE S == {Slice, Timeout - now}
                  \cup (IF ~r /\ RetryAt > now THEN {RetryAt - now} ELSE {})
<1>1. S \subseteq Nat \ {0}
  OBVIOUS
<1>2. \E x \in S : \A y \in S : x =< y
  <2>1. CASE ~r /\ RetryAt > now
    <3>1. S = {Slice, Timeout - now, RetryAt - now}
      BY <2>1
    <3>2. /\ Slice \in Int /\ Timeout - now \in Int /\ RetryAt - now \in Int
      OBVIOUS
    <3>3. \A a, b, c \in Int : \E x \in {a, b, c} : \A y \in {a, b, c} : x =< y
      <4>1. SUFFICES ASSUME NEW a \in Int, NEW b \in Int, NEW c \in Int
                     PROVE  \E x \in {a, b, c} : \A y \in {a, b, c} : x =< y
        OBVIOUS
      <4>2. CASE a =< b /\ a =< c
        BY <4>2
      <4>3. CASE b =< a /\ b =< c
        BY <4>3
      <4>4. CASE c =< a /\ c =< b
        BY <4>4
      <4>5. QED
        BY <4>2, <4>3, <4>4
    <3>4. QED
      BY <3>1, <3>2, <3>3
  <2>2. CASE ~(~r /\ RetryAt > now)
    <3>1. S = {Slice, Timeout - now}
      BY <2>2
    <3>2. CASE Slice <= Timeout - now
      BY <3>1, <3>2
    <3>3. CASE ~(Slice <= Timeout - now)
      BY <3>1, <3>3
    <3>4. QED
      BY <3>2, <3>3
  <2>3. QED
    BY <2>1, <2>2
<1>3. WaitMs(now, r) \in S /\ \A y \in S : WaitMs(now, r) =< y
  BY <1>2 DEF WaitMs, Min
<1>4. QED
  BY <1>1, <1>3

(* Every payload fits the message buffer. *)
LEMMA LengthsFit ==
    /\ incoming_payload_lengths \in [Byte -> 0..PayloadSize]
    /\ PayloadSize \in Nat /\ PayloadSize >= 8
<1>1. PayloadSize \in Nat /\ PayloadSize >= 8 /\ IdLength \in 0..PayloadSize
  BY IdLengthAssumption DEF PayloadSize
<1>2. ASSUME NEW h \in Byte
      PROVE  incoming_payload_lengths[h] \in {0, 1, 2, 3, 7, 8, IdLength}
  BY DEF incoming_payload_lengths
<1>3. {0, 1, 2, 3, 7, 8, IdLength} \subseteq 0..PayloadSize
  BY <1>1
<1>4. QED
  BY <1>1, <1>2, <1>3 DEF incoming_payload_lengths

(* Handlers of input yield well-formed events. *)
LEMMA HandlersYieldEvents ==
    ASSUME NEW h \in Byte, NEW p \in [1..PayloadSize -> Byte]
    PROVE  subsystem_event_handlers(h, p) \in Event \cup {NoEvent}
<1> DEFINE rec(t, a) == [type |-> t, args |-> a]
<1>1. /\ p[1] \in Int /\ p[2] \in Int /\ p[3] \in Int /\ p[4] \in Int
      /\ p[5] \in Int /\ p[6] \in Int /\ p[7] \in Int
  <2>1. Byte \subseteq Int
    BY DEF Byte
  <2>2. \A i \in 1..PayloadSize : p[i] \in Byte
    OBVIOUS
  <2>3. 1..7 \subseteq 1..PayloadSize
    BY LengthsFit
  <2>4. ASSUME NEW i \in 1..7
        PROVE  p[i] \in Int
    BY <2>1, <2>2, <2>3
  <2>5. QED
    BY <2>4
<1>2. /\ \A a, b \in Int : Int16(a, b) \in Int
      /\ \A a \in Int : Signed(a, 256) \in Int
  BY DEF Int16, Signed
<1>3. ASSUME NEW a \in Seq(Int)
      PROVE  /\ rec("BUTTON_DOWN", a) \in Event
             /\ rec("BUTTON_UP", a) \in Event
             /\ rec("ENCODER_DELTA", a) \in Event
             /\ rec("ENCODER_KEY_DOWN", a) \in Event
             /\ rec("ENCODER_KEY_UP", a) \in Event
             /\ rec("TILT", a) \in Event
  BY DEF Event, EventTypes
<1>4. ASSUME NEW a \in Int, NEW b \in Int
      PROVE  <<a, b>> \in Seq(Int)
  OBVIOUS
<1>5. mext_handler_key_grid(Cmd(h), p) \in Event
  <2>1. <<p[1], p[2]>> \in Seq(Int)
    BY <1>1
  <2>2. /\ rec("BUTTON_DOWN", <<p[1], p[2]>>) \in Event
        /\ rec("BUTTON_UP", <<p[1], p[2]>>) \in Event
    BY <1>3, <2>1
  <2>3. mext_handler_key_grid(Cmd(h), p)
          \in {rec("BUTTON_DOWN", <<p[1], p[2]>>), rec("BUTTON_UP", <<p[1], p[2]>>)}
    BY Zenon DEF mext_handler_key_grid
  <2>4. QED
    BY <2>2, <2>3
<1>6. mext_handler_encoder(Cmd(h), p) \in Event \cup {NoEvent}
  <2>1. Signed(p[2], 256) \in Int
    BY <1>1, <1>2
  <2>2. <<p[1], 0>> \in Seq(Int)
    BY <1>1
  <2>3. <<p[1], Signed(p[2], 256)>> \in Seq(Int)
    BY <1>1, <2>1
  <2>4. /\ rec("ENCODER_DELTA", <<p[1], Signed(p[2], 256)>>) \in Event
        /\ rec("ENCODER_KEY_DOWN", <<p[1], 0>>) \in Event
        /\ rec("ENCODER_KEY_UP", <<p[1], 0>>) \in Event
    BY <1>3, <2>2, <2>3
  <2>5. QED
    BY <2>4, Zenon DEF mext_handler_encoder
<1>7. mext_handler_tilt(Cmd(h), p) \in Event \cup {NoEvent}
  <2>1. /\ Int16(p[2], p[3]) \in Int
        /\ Int16(p[4], p[5]) \in Int
        /\ Int16(p[6], p[7]) \in Int
    BY <1>1, <1>2
  <2>2. ASSUME NEW a \in Int, NEW b \in Int, NEW c \in Int, NEW d \in Int
        PROVE  <<a, b, c, d>> \in Seq(Int)
    OBVIOUS
  <2>3. <<p[1], Int16(p[2], p[3]), Int16(p[4], p[5]), Int16(p[6], p[7])>>
          \in Seq(Int)
    BY <1>1, <2>1, <2>2, Zenon
  <2>4. rec("TILT", <<p[1], Int16(p[2], p[3]), Int16(p[4], p[5]),
                      Int16(p[6], p[7])>>) \in Event
    BY <1>3, <2>3
  <2>5. QED
    BY <2>4, Zenon DEF mext_handler_tilt
<1>8. QED
  BY <1>5, <1>6, <1>7, Zenon DEF subsystem_event_handlers

(* What the device answers is a message. *)
LEMMA AnswersAreMessages ==
    ASSUME NEW f \in Facts
    PROVE  Answer(f) \in Message
<1> USE DEF Message, Header, SS_SYSTEM, Byte
<1>1. CASE f = "QUERY"
  BY <1>1 DEF Answer, CMD_SYSTEM_QUERY_RESPONSE
<1>2. CASE f = "ID"
  <2>1. <<Header(SS_SYSTEM, CMD_SYSTEM_ID)>> \in Seq(Byte)
    BY DEF CMD_SYSTEM_ID
  <2>2. [i \in 1..IdLength |-> 109] \in Seq(Byte)
    BY IdLengthAssumption
  <2>3. Answer(f) = <<Header(SS_SYSTEM, CMD_SYSTEM_ID)>>
                       \o [i \in 1..IdLength |-> 109]
    BY <1>2 DEF Answer
  <2>4. Answer(f) \in Seq(Byte) /\ Answer(f) # <<>>
    BY <2>1, <2>2, <2>3, ConcatProperties, ConcatEqualIffEmpty
  <2>5. QED
    BY <2>4
<1>3. CASE f = "GRID_SIZE"
  BY <1>3, DeviceAssumption DEF Answer, CMD_SYSTEM_GRIDSZ
<1>4. QED
  BY <1>1, <1>2, <1>3 DEF Facts

(* Records of two parts, the second a pair or a quadruple. *)
LEMMA RecordOfTwo ==
    ASSUME NEW T, NEW A, NEW B, NEW i \in [type : T, args : A \X B]
    PROVE  \E t \in T, a \in A, b \in B : i = [type |-> t, args |-> <<a, b>>]
  <1>1. PICK a \in A, b \in B : i.args = <<a, b>>
    OBVIOUS
  <1> QED
    BY <1>1

LEMMA RecordOfFour ==
    ASSUME NEW T, NEW A, NEW B, NEW i \in [type : T, args : A \X B \X B \X B]
    PROVE  \E t \in T, a \in A, b \in B, c \in B, d \in B :
              i = [type |-> t, args |-> <<a, b, c, d>>]
  <1>1. PICK a \in A, b \in B, c \in B, d \in B : i.args = <<a, b, c, d>>
    OBVIOUS
  <1> QED
    BY <1>1

(* Every input and the bytes that report it. *)
LEMMA InputEncodings ==
    ASSUME NEW i \in Input
    PROVE  \/ \E a \in Byte, b \in Byte :
                \/ /\ i = [type |-> "BUTTON_DOWN", args |-> <<a, b>>]
                   /\ EncodeInput(i) = <<33, a, b>>
                \/ /\ i = [type |-> "BUTTON_UP", args |-> <<a, b>>]
                   /\ EncodeInput(i) = <<32, a, b>>
           \/ \E a \in Byte, b \in SignedByte :
                /\ i = [type |-> "ENCODER_DELTA", args |-> <<a, b>>]
                /\ EncodeInput(i) = <<80, a, LowByte(b)>>
           \/ \E a \in Byte :
                \/ /\ i = [type |-> "ENCODER_KEY_DOWN", args |-> <<a, 0>>]
                   /\ EncodeInput(i) = <<82, a>>
                \/ /\ i = [type |-> "ENCODER_KEY_UP", args |-> <<a, 0>>]
                   /\ EncodeInput(i) = <<81, a>>
           \/ \E a \in Byte, x, y, z \in Word :
                /\ i = [type |-> "TILT", args |-> <<a, x, y, z>>]
                /\ EncodeInput(i) = <<129, a, LowByte(x), HighByte(x),
                      LowByte(y), HighByte(y), LowByte(z), HighByte(z)>>
  <1> USE DEF Header
  <1>1. CASE i \in [type : {"BUTTON_DOWN", "BUTTON_UP"}, args : Byte \X Byte]
    <2>1. PICK t \in {"BUTTON_DOWN", "BUTTON_UP"}, a \in Byte, b \in Byte :
            i = [type |-> t, args |-> <<a, b>>]
      BY <1>1, RecordOfTwo
    <2>2. EncodeInput(i) = <<IF t = "BUTTON_DOWN" THEN 33 ELSE 32, a, b>>
      BY <2>1 DEF EncodeInput, SS_KEY_GRID, CMD_KEY_DOWN, CMD_KEY_UP
    <2> QED
      BY <2>1, <2>2
  <1>2. CASE i \in [type : {"ENCODER_DELTA"}, args : Byte \X SignedByte]
    <2>1. PICK a \in Byte, b \in SignedByte :
            i = [type |-> "ENCODER_DELTA", args |-> <<a, b>>]
      BY <1>2, RecordOfTwo
    <2>2. EncodeInput(i) = <<80, a, LowByte(b)>>
      BY <2>1 DEF EncodeInput, SS_ENCODER, CMD_ENCODER_DELTA
    <2> QED
      BY <2>1, <2>2
  <1>3. CASE i \in [type : {"ENCODER_KEY_DOWN", "ENCODER_KEY_UP"}, args : Byte \X {0}]
    <2>1. PICK t \in {"ENCODER_KEY_DOWN", "ENCODER_KEY_UP"}, a \in Byte :
            i = [type |-> t, args |-> <<a, 0>>]
      BY <1>3, RecordOfTwo
    <2>2. EncodeInput(i) = <<IF t = "ENCODER_KEY_DOWN" THEN 82 ELSE 81, a>>
      BY <2>1 DEF EncodeInput, SS_ENCODER, CMD_ENCODER_SWITCH_UP,
                  CMD_ENCODER_SWITCH_DOWN
    <2> QED
      BY <2>1, <2>2
  <1>4. CASE i \in [type : {"TILT"}, args : Byte \X Word \X Word \X Word]
    <2>1. PICK a \in Byte, x \in Word, y \in Word,
               z \in Word :
            i = [type |-> "TILT", args |-> <<a, x, y, z>>]
      BY <1>4, RecordOfFour
    <2>2. i.type = "TILT" /\ i.args = <<a, x, y, z>>
      BY <2>1
    <2>3. i.args[1] = a /\ i.args[2] = x /\ i.args[3] = y /\ i.args[4] = z
      BY <2>2
    <2>4. EncodeInput(i) = <<Header(SS_TILT, CMD_TILT), i.args[1],
              LowByte(i.args[2]), HighByte(i.args[2]),
              LowByte(i.args[3]), HighByte(i.args[3]),
              LowByte(i.args[4]), HighByte(i.args[4])>>
      BY <2>2 DEF EncodeInput
    <2>5. Header(SS_TILT, CMD_TILT) = 129
      BY DEF SS_TILT, CMD_TILT
    <2>6. EncodeInput(i) = <<129, a, LowByte(x), HighByte(x), LowByte(y),
                             HighByte(y), LowByte(z), HighByte(z)>>
      BY <2>3, <2>4, <2>5, Zenon
    <2> QED
      BY <2>1, <2>6, ZenonT(60)
  <1> QED
    BY <1>1, <1>2, <1>3, <1>4, InputAssumption

(* The two bytes of a signed number are bytes, and the host reads the       *)
(* number from them.                                                        *)
LEMMA SignedBytes ==
    /\ \A v \in SignedByte : LowByte(v) \in Byte /\ Signed(LowByte(v), 256) = v
    /\ \A v \in Word :
          /\ LowByte(v) \in Byte /\ HighByte(v) \in Byte
          /\ Int16(LowByte(v), HighByte(v)) = v
  <1>1. ASSUME NEW v \in SignedByte
        PROVE  LowByte(v) \in Byte /\ Signed(LowByte(v), 256) = v
    BY DEF LowByte, Byte, SignedByte, Signed
  <1>2. ASSUME NEW v \in Word
        PROVE  /\ LowByte(v) \in Byte /\ HighByte(v) \in Byte
               /\ Int16(LowByte(v), HighByte(v)) = v
    <2>1. v \in Int /\ -32768 <= v /\ v < 32768
      BY DEF Word
    <2>2. LowByte(v) \in Byte /\ HighByte(v) \in Byte
      BY <2>1 DEF LowByte, HighByte, Byte
    <2>3. LowByte(v) + 256 * HighByte(v) = IF v < 0 THEN v + 65536 ELSE v
      BY <2>1 DEF LowByte, HighByte
    <2> QED
      BY <2>1, <2>2, <2>3 DEF Int16, Signed
  <1> QED
    BY <1>1, <1>2

(* What the device sends for an input is a message. *)
LEMMA InputsAreMessages ==
    ASSUME NEW i \in Input
    PROVE  EncodeInput(i) \in Message
  <1> DEFINE m == EncodeInput(i)
  <1>1. /\ 0 \in Byte /\ 32 \in Byte /\ 33 \in Byte /\ 80 \in Byte
        /\ 81 \in Byte /\ 82 \in Byte /\ 129 \in Byte
    BY DEF Byte
  <1>2. \/ \E h, a, b \in Byte : m = <<h, a, b>>
        \/ \E h, a \in Byte : m = <<h, a>>
        \/ \E h, a, b, c, d, e, f, g \in Byte : m = <<h, a, b, c, d, e, f, g>>
    <2>1. CASE \E a, b \in Byte : m = <<33, a, b>> \/ m = <<32, a, b>>
      BY <1>1, <2>1
    <2>2. CASE \E a \in Byte : m = <<82, a>> \/ m = <<81, a>>
      BY <1>1, <2>2
    <2>3. CASE \E a \in Byte, b \in SignedByte : m = <<80, a, LowByte(b)>>
      BY <1>1, <2>3, SignedBytes
    <2>4. CASE \E a \in Byte, x, y, z \in Word :
                  m = <<129, a, LowByte(x), HighByte(x), LowByte(y),
                        HighByte(y), LowByte(z), HighByte(z)>>
      BY <1>1, <2>4, SignedBytes
    <2> HIDE DEF m
    <2> QED
      BY <2>1, <2>2, <2>3, <2>4, InputEncodings DEF m
  <1> SUFFICES m \in Message
    OBVIOUS
  <1> HIDE DEF m
  <1>3. CASE \E h, a, b \in Byte : m = <<h, a, b>>
    <2>1. PICK h \in Byte, a \in Byte, b \in Byte : m = <<h, a, b>>
      BY <1>3
    <2> QED
      BY <2>1 DEF Message
  <1>4. CASE \E h, a \in Byte : m = <<h, a>>
    <2>1. PICK h \in Byte, a \in Byte : m = <<h, a>>
      BY <1>4
    <2> QED
      BY <2>1 DEF Message
  <1>5. CASE \E h, a, b, c, d, e, f, g \in Byte : m = <<h, a, b, c, d, e, f, g>>
    <2>1. PICK h \in Byte, a \in Byte, b \in Byte, c \in Byte, d \in Byte,
               e \in Byte, f \in Byte, g \in Byte : m = <<h, a, b, c, d, e, f, g>>
      BY <1>5
    <2> QED
      BY <2>1 DEF Message
  <1> QED
    BY <1>2, <1>3, <1>4, <1>5

(* Where a question goes when it is written. *)
LEMMA AskKeepsTypes ==
    ASSUME TypeOK, NEW set \in SUBSET Facts, Ask(set)
    PROVE  /\ asked' \in Seq(Facts)
           /\ written' \in [Facts -> Nat]
           /\ \A f \in Facts : written'[f] <= written[f] + 1
           /\ \A f \in Facts \ set : written'[f] = written[f]
<1>1. Questions(set) \in Seq(Facts)
  <2> DEFINE If(f) == IF f \in set THEN <<f>> ELSE <<>>
  <2>1. /\ If("QUERY") \in Seq(Facts)
        /\ If("ID") \in Seq(Facts)
        /\ If("GRID_SIZE") \in Seq(Facts)
    <3>1. ASSUME NEW f \in Facts
          PROVE  If(f) \in Seq(Facts)
      <4>1. <<f>> \in Seq(Facts) /\ <<>> \in Seq(Facts)
        OBVIOUS
      <4>2. QED
        BY <4>1
    <3>2. QED
      BY <3>1 DEF Facts
  <2>2. Questions(set) = If("QUERY") \o If("ID") \o If("GRID_SIZE")
    BY DEF Questions
  <2> HIDE DEF If
  <2>3. If("QUERY") \o If("ID") \in Seq(Facts)
    BY <2>1, ConcatProperties
  <2>4. QED
    BY <2>1, <2>2, <2>3, ConcatProperties
<1>2. asked' \in Seq(Facts)
  BY <1>1, ConcatProperties DEF TypeOK, Ask
<1>3. written' = [f \in Facts |-> written[f] + (IF f \in set THEN 1 ELSE 0)]
  BY DEF Ask
<1>4. QED
  BY <1>2, <1>3 DEF TypeOK

LEMMA QueriesKeepTypes ==
    ASSUME TypeOK, QueriesWritten \/ QueryFailed
    PROVE  /\ asked' \in Seq(Facts)
           /\ written' \in [Facts -> Nat]
           /\ \A f \in Facts : written'[f] <= written[f] + 1
           /\ \A f \in Facts \ need : written'[f] = written[f]
<1>1. PICK set \in SUBSET need : Ask(set)
  BY DEF QueriesWritten, QueryFailed
<1>2. set \in SUBSET Facts /\ Facts \ need \subseteq Facts \ set
  BY DEF TypeOK
<1>3. QED
  BY <1>1, <1>2, AskKeepsTypes

(* What a call of mext_next_event() may change when a message is complete. *)
LEMMA HandleEffect ==
    ASSUME TypeOK, NEW h \in Byte, NEW p \in [1..PayloadSize -> Byte],
           Handle(h, p)
    PROVE  /\ mode' = mode /\ cause' = cause /\ fd' = fd
           /\ pc' \in {"header"} \cup (IF mode = "open" THEN {"idle"} ELSE {"top"})
           /\ need' \in SUBSET Facts
           /\ cols' \in Byte /\ rows' \in Byte
           /\ friendly' \in {"devmap", "device"}
           /\ header' = 0 /\ got' = 0
           /\ payload' \in [1..PayloadSize -> Byte]
           /\ status' \in {-1, 0, 1}
           /\ dropped' \in Nat
           /\ delivered' \in Seq(Event)
<1>1. 0 \in Byte
  BY DEF Byte
<1>2. p[1] \in Byte /\ p[2] \in Byte
  BY LengthsFit
<1>3. NoPayload \in [1..PayloadSize -> Byte]
  BY <1>1 DEF NoPayload
<1>4. CASE Addr(h) = SS_SYSTEM
  <2>1. mext_handler_system(Cmd(h), p) /\ NextMsg(p)
    BY <1>4 DEF Handle
  <2>2. /\ need' \in SUBSET Facts
        /\ cols' \in Byte /\ rows' \in Byte
        /\ friendly' \in {"devmap", "device"}
    BY <1>2, <2>1 DEF mext_handler_system, TypeOK
  <2>3. QED
    BY <2>1, <2>2 DEF NextMsg, TypeOK, eventVars
<1>5. CASE Addr(h) # SS_SYSTEM
  <2> DEFINE e == subsystem_event_handlers(h, p)
  <2>1. /\ IF e = NoEvent THEN NextMsg(p) ELSE ReturnEvent(e)
        /\ UNCHANGED sizeVars
    BY <1>5 DEF Handle
  <2>2. CASE e = NoEvent
    BY <2>1, <2>2 DEF NextMsg, TypeOK, sizeVars, eventVars
  <2>3. CASE e # NoEvent
    <3>1. e \in Event
      BY <2>3, HandlersYieldEvents
    <3>2. ReturnEvent(e)
      BY <2>1, <2>3
    <3> HIDE DEF e
    <3>3. Append(delivered, e) \in Seq(Event)
      BY <3>1, AppendProperties DEF TypeOK
    <3>4. /\ mode' = mode /\ cause' = cause /\ fd' = fd
          /\ header' = 0 /\ got' = 0 /\ payload' = NoPayload
      BY <3>2 DEF ReturnEvent, ForgetMsg
    <3>5. CASE mode = "open"
      BY <1>3, <2>1, <3>2, <3>3, <3>4, <3>5 DEF ReturnEvent, TypeOK, sizeVars
    <3>6. CASE mode # "open"
      BY <1>3, <2>1, <3>2, <3>4, <3>6 DEF ReturnEvent, TypeOK, sizeVars
    <3>7. QED
      BY <3>5, <3>6
  <2>4. QED
    BY <2>2, <2>3
<1>6. QED
  BY <1>4, <1>5

LEMMA ReturnStatusEffect ==
    ASSUME TypeOK, NEW s \in {-1, 0}, ReturnStatus(s)
    PROVE  /\ \/ mode' = mode /\ cause' = cause /\ fd' = fd
              \/ mode # "open" /\ mode' = "failed" /\ cause' = "read" /\ fd' = "closed"
           /\ pc' = IF mode = "open" \/ s = -1 THEN "idle" ELSE "top"
           /\ mode' = "failed" \/ s = 0 \/ mode = "open"
           /\ header' = 0 /\ got' = 0
           /\ payload' \in [1..PayloadSize -> Byte]
           /\ status' \in {-1, 0, 1}
           /\ dropped' \in Nat
           /\ delivered' \in Seq(Event)
<1>1. NoPayload \in [1..PayloadSize -> Byte]
  BY DEF NoPayload, Byte
<1>2. QED
  BY <1>1 DEF ReturnStatus, ForgetMsg, Fail, TypeOK, eventVars

-----------------------------------------------------------------------------
(* Type correctness.                                                        *)

(* A read of the payload keeps the buffer well-typed and inside its bounds, *)
(* whatever number of bytes has arrived.                                    *)
LEMMA ReadPayloadFits ==
    ASSUME TypeOK, PayloadFits, pc \in {"payload", "more"}, inbuf # <<>>,
           NEW len, len = incoming_payload_lengths[header],
           NEW n, n = Min({Len(inbuf), len - got}),
           NEW p, p = [i \in 1..PayloadSize |->
                         IF i \in got + 1 .. got + n THEN inbuf[i - got]
                                                     ELSE payload[i]]
    PROVE  /\ n \in Nat \ {0} /\ n <= Len(inbuf)
           /\ got + n <= len /\ len <= PayloadSize /\ len \in Nat
           /\ p \in [1..PayloadSize -> Byte]
           /\ SubSeq(inbuf, n + 1, Len(inbuf)) \in Seq(Byte)
<1>1. header \in Byte /\ got \in Nat /\ inbuf \in Seq(Byte)
  BY DEF TypeOK
<1>2. /\ len \in 0..PayloadSize /\ len \in Nat /\ len <= PayloadSize
      /\ got < len /\ PayloadSize \in Nat
  BY <1>1, LengthsFit DEF PayloadFits
<1>3. Len(inbuf) \in Nat \ {0}
  BY <1>1, EmptySeq
<1>4. n \in Nat \ {0} /\ n <= Len(inbuf) /\ got + n <= len
  <2>1. Len(inbuf) \in Int /\ len - got \in Int
    BY <1>1, <1>2, <1>3
  <2>2. n \in {Len(inbuf), len - got} /\ n <= Len(inbuf) /\ n <= len - got
    BY <2>1, MinOfTwo
  <2>3. QED
    BY <1>1, <1>2, <1>3, <2>2
<1>5. ASSUME NEW i \in got + 1 .. got + n
      PROVE  inbuf[i - got] \in Byte
  <2>1. i - got \in 1..Len(inbuf)
    BY <1>1, <1>3, <1>4
  <2>2. QED
    BY <1>1, <2>1, ElementOfSeq
<1>6. p \in [1..PayloadSize -> Byte]
  <2>1. ASSUME NEW i \in 1..PayloadSize
        PROVE  (IF i \in got + 1 .. got + n THEN inbuf[i - got] ELSE payload[i])
                 \in Byte
    <3>1. payload[i] \in Byte
      BY DEF TypeOK
    <3>2. QED
      BY <1>5, <3>1
  <2>2. QED
    BY <2>1
<1>7. SubSeq(inbuf, n + 1, Len(inbuf)) \in Seq(Byte)
  <2>1. \A i \in n + 1 .. Len(inbuf) : inbuf[i] \in Byte
    BY <1>1, <1>3, <1>4, ElementOfSeq
  <2>2. n + 1 \in Int /\ Len(inbuf) \in Int
    BY <1>3, <1>4
  <2>3. QED
    BY <2>1, <2>2, SubSeqProperties, Zenon
<1>8. QED
  BY <1>2, <1>4, <1>6, <1>7, Zenon

-----------------------------------------------------------------------------
(* The inductive invariant.                                                 *)

LEMMA InitEstablishesInv == Init => Inv
<1> SUFFICES ASSUME Init PROVE Inv
  OBVIOUS
<1> USE DEF Init
<1>1. TypeOK
  <2>1. 0 \in Byte /\ NoPayload \in [1..PayloadSize -> Byte]
    BY DEF Byte, NoPayload
  <2>2. /\ wire \in Seq(Seq(Byte) \ {<<>>}) /\ inbuf \in Seq(Byte)
        /\ asked \in Seq(Facts) /\ pressed \in Seq(Input)
        /\ delivered \in Seq(Event)
    BY EmptySeq
  <2>3. written \in [Facts -> Nat]
    OBVIOUS
  <2>4. QED
    BY <2>1, <2>2, <2>3 DEF TypeOK, Pcs, Causes
<1>2. ControlOK
  BY DEF ControlOK
<1>3. DescriptorOwned /\ AskedAtMostTwice /\ WaitsEndInTime
  BY DEF DescriptorOwned, AskedAtMostTwice, WaitsEndInTime
<1>4. PayloadFits
  BY LengthsFit DEF PayloadFits
<1>5. QED
  BY <1>1, <1>2, <1>3, <1>4 DEF Inv

(* The steps of mext_open() outside of mext_next_event(). *)
LEMMA HandshakePreservesInv ==
    ASSUME Inv, Handshake \/ OpenPlatformFails
    PROVE  Inv'
<1> USE DEF Inv, openVars, sizeVars, readVars, lineVars, askVars, inputVars,
            eventVars
<1>1. CASE OpenPlatformFails
  <2> USE <1>1 DEF OpenPlatformFails
  <2>1. TypeOK'
    BY DEF TypeOK, Causes
  <2>2. ControlOK' /\ DescriptorOwned' /\ WaitsEndInTime' /\ PayloadFits'
    BY DEF ControlOK, DescriptorOwned, WaitsEndInTime, PayloadFits
  <2>3. AskedAtMostTwice'
    BY DEF ControlOK, AskedAtMostTwice, TypeOK
  <2>4. QED
    BY <2>1, <2>2, <2>3
<1>2. CASE OpenAsks
  <2> USE <1>2 DEF OpenAsks, Fail
  <2>1. /\ asked' \in Seq(Facts) /\ written' \in [Facts -> Nat]
        /\ \A f \in Facts : written'[f] <= 1
    BY QueriesKeepTypes DEF ControlOK
  <2>2. TypeOK'
    BY <2>1 DEF TypeOK, Pcs, Causes
  <2>3. ControlOK' /\ DescriptorOwned' /\ WaitsEndInTime' /\ PayloadFits'
    BY DEF ControlOK, DescriptorOwned, WaitsEndInTime, PayloadFits
  <2>4. AskedAtMostTwice'
    BY <2>1 DEF AskedAtMostTwice
  <2>5. QED
    BY <2>2, <2>3, <2>4
<1>3. CASE HandshakeDone
  <2> USE <1>3 DEF HandshakeDone
  <2>1. mode = "handshake"
    BY DEF ControlOK, TypeOK
  <2>2. TypeOK'
    <3>1. "open" \in {"new", "handshake", "open", "closed", "failed"}
          /\ "idle" \in Pcs /\ 0 \in Nat /\ FALSE \in BOOLEAN
      BY DEF Pcs
    <3>2. QED
      BY <3>1, Zenon DEF TypeOK
  <2>3. ControlOK' /\ DescriptorOwned' /\ WaitsEndInTime' /\ PayloadFits'
    BY <2>1 DEF ControlOK, DescriptorOwned, WaitsEndInTime, PayloadFits
  <2>4. AskedAtMostTwice'
    BY DEF AskedAtMostTwice
  <2>5. QED
    BY <2>2, <2>3, <2>4
<1>4. CASE HandshakeTimesOut \/ WaitFails
  <2>1. mode = "handshake" /\ cause = "none" /\ got = 0
    BY <1>4 DEF HandshakeTimesOut, WaitFails, ControlOK, TypeOK, DescriptorOwned
  <2>2. /\ \E why \in {"timeout", "wait"} : Fail(why)
        /\ wake' \in {0, wake}
        /\ UNCHANGED <<clock, retried, sizeVars, readVars, lineVars, askVars,
                       inputVars, eventVars>>
    BY <1>4 DEF HandshakeTimesOut, WaitFails
  <2>3. TypeOK'
    BY <2>2 DEF Fail, TypeOK, Pcs, Causes
  <2>4. ControlOK' /\ DescriptorOwned' /\ WaitsEndInTime' /\ PayloadFits'
    BY <2>1, <2>2 DEF Fail, ControlOK, DescriptorOwned, WaitsEndInTime, PayloadFits
  <2>5. AskedAtMostTwice'
    BY <2>1, <2>2 DEF Fail, AskedAtMostTwice
  <2>6. QED
    BY <2>3, <2>4, <2>5
<1>5. CASE HandshakeWaits
  <2> USE <1>5 DEF HandshakeWaits, Expired, RetryDue
  <2>1. /\ WaitMs(clock, retried) \in Nat
        /\ WaitMs(clock, retried) <= Timeout - clock
        /\ ~retried => WaitMs(clock, retried) <= RetryAt - clock
    BY WaitMsFits, TimingAssumption DEF TypeOK
  <2>2. TypeOK'
    BY <2>1 DEF TypeOK, Pcs
  <2>3. ControlOK' /\ DescriptorOwned' /\ PayloadFits'
    BY DEF ControlOK, DescriptorOwned, PayloadFits, TypeOK
  <2>4. WaitsEndInTime'
    BY <2>1, TimingAssumption DEF WaitsEndInTime, TypeOK
  <2>5. AskedAtMostTwice'
    BY DEF AskedAtMostTwice
  <2>6. QED
    BY <2>2, <2>3, <2>4, <2>5
<1>6. CASE HandshakeRetries
  <2>1. /\ mode = "handshake" /\ cause = "none" /\ ~retried
        /\ clock \in Nat /\ clock < Timeout
        /\ pc = "top"
    BY <1>6, TimingAssumption
       DEF HandshakeRetries, Expired, RetryDue, ControlOK, TypeOK,
           DescriptorOwned
  <2>2. \A f \in Facts : written[f] \in 0..1
    <3>1. SUFFICES ASSUME NEW f \in Facts PROVE written[f] \in 0..1
      OBVIOUS
    <3>2. written[f] \in Nat
      BY DEF TypeOK
    <3>3. written[f] <= 2 /\ written[f] # 2
      BY <2>1 DEF AskedAtMostTwice
    <3>4. QED
      BY <3>2, <3>3
  <2>3. QueriesWritten \/ QueryFailed
    BY <1>6 DEF HandshakeRetries
  <2>4. /\ asked' \in Seq(Facts) /\ written' \in [Facts -> Nat]
        /\ \A f \in Facts : written'[f] <= written[f] + 1
    BY <2>3, QueriesKeepTypes
  <2>5. \A f \in Facts : written'[f] <= 2
    BY <2>2, <2>4
  <2>6. UNCHANGED <<clock, sizeVars, readVars, lineVars, inputVars, eventVars>>
    BY <1>6 DEF HandshakeRetries
  <2>7. CASE /\ pc' = "wait" /\ retried' = TRUE
             /\ wake' = clock + WaitMs(clock, TRUE)
             /\ UNCHANGED <<mode, cause, fd>>
    <3>1. /\ WaitMs(clock, TRUE) \in Nat
          /\ WaitMs(clock, TRUE) <= Timeout - clock
      BY <2>1, WaitMsFits
    <3>2. wake' \in Nat /\ wake' <= Timeout
      <4>1. PICK ms \in Nat : ms <= Timeout - clock /\ wake' = clock + ms
        BY <2>7, <3>1, Zenon
      <4>2. QED
        BY <2>1, <4>1, TimingAssumption
    <3>3. TypeOK'
      BY <2>4, <2>6, <2>7, <3>2 DEF TypeOK, Pcs
    <3>4. ControlOK' /\ DescriptorOwned' /\ PayloadFits'
      BY <2>1, <2>6, <2>7 DEF ControlOK, DescriptorOwned, PayloadFits
    <3>5. WaitsEndInTime' /\ AskedAtMostTwice'
      BY <2>5, <2>7, <3>2 DEF WaitsEndInTime, AskedAtMostTwice
    <3>6. QED
      BY <3>3, <3>4, <3>5
  <2>8. CASE Fail("write") /\ UNCHANGED <<retried, wake>>
    <3>1. TypeOK'
      BY <2>4, <2>6, <2>8 DEF TypeOK, Pcs, Causes, Fail
    <3>2. ControlOK' /\ DescriptorOwned' /\ PayloadFits' /\ WaitsEndInTime'
      BY <2>1, <2>6, <2>8
         DEF ControlOK, DescriptorOwned, PayloadFits, WaitsEndInTime, Fail
    <3>3. AskedAtMostTwice'
      BY <2>5, <2>8 DEF AskedAtMostTwice, Fail
    <3>4. QED
      BY <3>1, <3>2, <3>3
  <2>9. QED
    BY <1>6, <2>7, <2>8 DEF HandshakeRetries
<1>7. CASE WaitReady \/ WaitTimesOut
  <2>1. TypeOK'
    <3>1. /\ pc' \in {"header", "top"} /\ wake' = 0
          /\ UNCHANGED <<mode, clock, openVars, sizeVars, readVars, lineVars,
                         askVars, inputVars, eventVars>>
      BY <1>7, Zenon DEF WaitReady, WaitTimesOut
    <3>2. TypeOK
      OBVIOUS
    <3>3. QED
      BY <3>1, <3>2 DEF TypeOK, Pcs
  <2> USE <1>7 DEF WaitReady, WaitTimesOut
  <2>2. ControlOK' /\ DescriptorOwned' /\ WaitsEndInTime' /\ PayloadFits'
    BY DEF ControlOK, DescriptorOwned, WaitsEndInTime, PayloadFits
  <2>3. AskedAtMostTwice'
    BY DEF AskedAtMostTwice
  <2>4. QED
    BY <2>1, <2>2, <2>3
<1>8. QED
  BY <1>1, <1>2, <1>3, <1>4, <1>5, <1>6, <1>7 DEF Handshake

(* The calls of mext_next_event() and of mext_close(). *)
LEMMA ReadingPreservesInv ==
    ASSUME Inv, NextEvent \/ Reading \/ Close
    PROVE  Inv'
<1> USE DEF Inv, openVars, sizeVars, readVars, lineVars, askVars, inputVars,
            eventVars
<1>1. CASE NextEvent
  <2> USE <1>1 DEF NextEvent
  <2>1. TypeOK'
    BY DEF TypeOK, Pcs
  <2>2. ControlOK' /\ DescriptorOwned' /\ WaitsEndInTime' /\ PayloadFits'
    BY DEF ControlOK, DescriptorOwned, WaitsEndInTime, PayloadFits
  <2>3. AskedAtMostTwice'
    BY DEF AskedAtMostTwice
  <2>4. QED
    BY <2>1, <2>2, <2>3
<1>2. CASE Close
  <2> USE <1>2 DEF Close
  <2>1. TypeOK'
    BY DEF TypeOK, Pcs
  <2>2. ControlOK' /\ DescriptorOwned' /\ WaitsEndInTime' /\ PayloadFits'
    BY DEF ControlOK, DescriptorOwned, WaitsEndInTime, PayloadFits
  <2>3. AskedAtMostTwice'
    BY DEF AskedAtMostTwice
  <2>4. QED
    BY <2>1, <2>2, <2>3
<1>3. ASSUME /\ mode \in {"handshake", "open"} /\ pc \notin {"top", "wait"}
             /\ mode' = mode /\ cause' = cause /\ fd' = fd
             /\ retried' = retried /\ written' = written
             /\ pc' \in {"header"} \cup (IF mode = "open" THEN {"idle"} ELSE {"top"})
             /\ header' = 0 /\ got' = 0
      PROVE  ControlOK' /\ DescriptorOwned' /\ WaitsEndInTime' /\ PayloadFits'
             /\ AskedAtMostTwice'
  <2>1. ControlOK' /\ DescriptorOwned' /\ WaitsEndInTime' /\ PayloadFits'
    BY <1>3, LengthsFit
       DEF ControlOK, DescriptorOwned, WaitsEndInTime, PayloadFits
  <2>2. AskedAtMostTwice'
    BY <1>3 DEF AskedAtMostTwice
  <2>3. QED
    BY <2>1, <2>2
<1>4. /\ 0 \in Byte /\ 0 \in Nat
      /\ {"header", "idle", "top"} \subseteq Pcs
  BY DEF Byte, Pcs
<1>5. CASE ReadHeader
  <2>1. /\ pc = "header" /\ inbuf # <<>>
        /\ inbuf' = Tail(inbuf)
        /\ UNCHANGED <<wake, clock, retried, link, wire, askVars, inputVars>>
    BY <1>5 DEF ReadHeader
  <2>2. mode \in {"handshake", "open"}
    BY <2>1 DEF ControlOK, TypeOK
  <2>3. Head(inbuf) \in Byte /\ inbuf' \in Seq(Byte)
    BY <2>1, HeadTailProperties DEF TypeOK
  <2>4. CASE incoming_payload_lengths[Head(inbuf)] = 0
    <3>1. Handle(Head(inbuf), payload) /\ payload \in [1..PayloadSize -> Byte]
      BY <1>5, <2>4 DEF ReadHeader, TypeOK
    <3>2. /\ mode' = mode /\ cause' = cause /\ fd' = fd
          /\ pc' \in {"header"} \cup (IF mode = "open" THEN {"idle"} ELSE {"top"})
          /\ need' \in SUBSET Facts
          /\ cols' \in Byte /\ rows' \in Byte
          /\ friendly' \in {"devmap", "device"}
          /\ header' = 0 /\ got' = 0
          /\ payload' \in [1..PayloadSize -> Byte]
          /\ status' \in {-1, 0, 1}
          /\ dropped' \in Nat
          /\ delivered' \in Seq(Event)
      BY <2>3, <3>1, HandleEffect
    <3>3. TypeOK'
      BY <1>4, <2>1, <2>3, <3>2 DEF TypeOK
    <3>4. QED
      BY <1>3, <2>1, <2>2, <3>2, <3>3
  <2>5. CASE incoming_payload_lengths[Head(inbuf)] # 0
    <3>1. /\ pc' = "payload" /\ header' = Head(inbuf)
          /\ UNCHANGED <<mode, cause, fd, got, payload, sizeVars, eventVars>>
      BY <1>5, <2>5 DEF ReadHeader
    <3>2. TypeOK'
      BY <2>1, <2>3, <3>1 DEF TypeOK, Pcs
    <3>3. ControlOK' /\ DescriptorOwned' /\ WaitsEndInTime'
      BY <2>1, <2>2, <3>1 DEF ControlOK, DescriptorOwned, WaitsEndInTime
    <3>4. PayloadFits'
      BY <2>1, <2>3, <2>5, <3>1, LengthsFit DEF PayloadFits, ControlOK
    <3>5. AskedAtMostTwice'
      BY <2>1, <3>1 DEF AskedAtMostTwice
    <3>6. QED
      BY <3>2, <3>3, <3>4, <3>5
  <2>6. QED
    BY <2>4, <2>5
<1>6. CASE ReadPayload
  <2>1. PICK len, n, p :
          /\ len = incoming_payload_lengths[header]
          /\ n = Min({Len(inbuf), len - got})
          /\ p = [i \in 1..PayloadSize |->
                     IF i \in got + 1 .. got + n THEN inbuf[i - got]
                                                 ELSE payload[i]]
          /\ inbuf' = SubSeq(inbuf, n + 1, Len(inbuf))
          /\ IF got + n = len
             THEN Handle(header, p) /\ wake' = 0 /\ UNCHANGED clock
             ELSE /\ pc' = "more" /\ StartWait(ReadTimeout)
                  /\ got' = got + n /\ payload' = p
                  /\ UNCHANGED <<mode, cause, fd, header, sizeVars, eventVars>>
    BY <1>6 DEF ReadPayload, ReadCount, Complete
  <2>2. /\ pc \in {"payload", "more"} /\ inbuf # <<>>
        /\ UNCHANGED <<retried, link, wire, askVars, inputVars>>
    BY <1>6 DEF ReadPayload
  <2>3. mode \in {"handshake", "open"} /\ header \in Byte
    BY <2>2 DEF ControlOK, TypeOK
  <2>4. /\ n \in Nat \ {0} /\ got + n <= len /\ len <= PayloadSize /\ len \in Nat
        /\ p \in [1..PayloadSize -> Byte]
        /\ inbuf' \in Seq(Byte)
    <3>1. /\ len = incoming_payload_lengths[header]
          /\ n = Min({Len(inbuf), len - got})
          /\ p = [i \in 1..PayloadSize |->
                     IF i \in got + 1 .. got + n THEN inbuf[i - got]
                                                 ELSE payload[i]]
          /\ inbuf' = SubSeq(inbuf, n + 1, Len(inbuf))
      BY <2>1
    <3>2. /\ n \in Nat \ {0} /\ got + n <= len /\ len <= PayloadSize /\ len \in Nat
          /\ p \in [1..PayloadSize -> Byte]
          /\ SubSeq(inbuf, n + 1, Len(inbuf)) \in Seq(Byte)
      BY <2>2, <3>1, ReadPayloadFits
    <3>3. QED
      BY <3>1, <3>2
  <2>5. CASE got + n = len
    <3>1. Handle(header, p) /\ wake' = 0 /\ clock' = clock
      BY <2>1, <2>5
    <3>2. /\ mode' = mode /\ cause' = cause /\ fd' = fd
          /\ pc' \in {"header"} \cup (IF mode = "open" THEN {"idle"} ELSE {"top"})
          /\ need' \in SUBSET Facts
          /\ cols' \in Byte /\ rows' \in Byte
          /\ friendly' \in {"devmap", "device"}
          /\ header' = 0 /\ got' = 0
          /\ payload' \in [1..PayloadSize -> Byte]
          /\ status' \in {-1, 0, 1}
          /\ dropped' \in Nat
          /\ delivered' \in Seq(Event)
      BY <2>3, <2>4, <3>1, HandleEffect
    <3>3. TypeOK'
      BY <1>4, <2>2, <2>4, <3>1, <3>2 DEF TypeOK
    <3>4. QED
      BY <1>3, <2>2, <2>3, <3>2, <3>3
  <2>6. CASE got + n # len
    <3>1. /\ pc' = "more" /\ StartWait(ReadTimeout)
          /\ got' = got + n /\ payload' = p
          /\ UNCHANGED <<mode, cause, fd, header, sizeVars, eventVars>>
      BY <2>1, <2>6
    <3>2. wake' \in Nat /\ clock' \in Nat
      BY <3>1, TimingAssumption DEF StartWait, TypeOK
    <3>3. got' \in Nat /\ got' < len /\ got' <= PayloadSize
      BY <2>4, <2>6, <3>1, LengthsFit DEF TypeOK
    <3>4. TypeOK'
      BY <2>2, <2>4, <3>1, <3>2, <3>3 DEF TypeOK, Pcs
    <3>5. ControlOK' /\ DescriptorOwned' /\ WaitsEndInTime'
      BY <2>2, <2>3, <3>1 DEF ControlOK, DescriptorOwned, WaitsEndInTime
    <3>6. PayloadFits'
      BY <2>1, <3>1, <3>3 DEF PayloadFits
    <3>7. AskedAtMostTwice'
      BY <2>2, <3>1 DEF AskedAtMostTwice
    <3>8. QED
      BY <3>4, <3>5, <3>6, <3>7
  <2>7. QED
    BY <2>5, <2>6
<1>7. CASE ReadNoHeader \/ ReadPayloadShort
  <2>1. PICK s \in {-1, 0} : ReturnStatus(s)
    BY <1>7 DEF ReadNoHeader, ReadPayloadShort
  <2>2. /\ pc \in {"header", "payload", "more"}
        /\ wake' \in {0, wake}
        /\ UNCHANGED <<clock, retried, sizeVars, lineVars, askVars, inputVars>>
    BY <1>7 DEF ReadNoHeader, ReadPayloadShort
  <2>3. mode \in {"handshake", "open"} /\ cause = "none"
    BY <2>2 DEF ControlOK, TypeOK, DescriptorOwned
  <2>4. /\ \/ mode' = mode /\ cause' = cause /\ fd' = fd
           \/ mode # "open" /\ mode' = "failed" /\ cause' = "read" /\ fd' = "closed"
        /\ pc' = IF mode = "open" \/ s = -1 THEN "idle" ELSE "top"
        /\ mode' = "failed" \/ s = 0 \/ mode = "open"
        /\ header' = 0 /\ got' = 0
        /\ payload' \in [1..PayloadSize -> Byte]
        /\ status' \in {-1, 0, 1}
        /\ dropped' \in Nat
        /\ delivered' \in Seq(Event)
    BY <2>1, ReturnStatusEffect
  <2>5. TypeOK'
    BY <1>4, <2>2, <2>4 DEF TypeOK, Causes
  <2>6. ControlOK' /\ DescriptorOwned'
    <3>1. mode # "open" => (mode' = "failed" <=> s = -1)
      BY <2>1, <2>3 DEF ReturnStatus, Fail
    <3>2. QED
      BY <2>2, <2>3, <2>4, <3>1 DEF ControlOK, DescriptorOwned
  <2>7. WaitsEndInTime' /\ PayloadFits'
    BY <2>4, LengthsFit DEF WaitsEndInTime, PayloadFits
  <2>8. AskedAtMostTwice'
    BY <2>2, <2>3, <2>4 DEF AskedAtMostTwice
  <2>9. QED
    BY <2>5, <2>6, <2>7, <2>8
<1>8. QED
  BY <1>1, <1>2, <1>5, <1>6, <1>7 DEF Reading

(* The device, the line and the clock leave the host alone. *)
LEMMA EnvironmentPreservesInv ==
    ASSUME Inv, Device \/ Arrive \/ Tick
    PROVE  Inv'
<1> USE DEF hostVars, openVars, sizeVars, readVars, lineVars, askVars,
            inputVars, eventVars
<1>1. UNCHANGED hostVars /\ UNCHANGED written
  BY DEF Device, DeviceAnswers, DeviceIgnores, DeviceInput, DeviceChatters,
         Unplug, Arrive, Tick
<1>2. ControlOK' /\ DescriptorOwned' /\ WaitsEndInTime' /\ PayloadFits'
        /\ AskedAtMostTwice'
  <2>1. ControlOK' /\ DescriptorOwned' /\ WaitsEndInTime' /\ PayloadFits'
    BY <1>1 DEF Inv, ControlOK, DescriptorOwned, WaitsEndInTime, PayloadFits
  <2>2. AskedAtMostTwice'
    BY <1>1 DEF Inv, AskedAtMostTwice
  <2>3. QED
    BY <2>1, <2>2
<1>3. SUFFICES /\ clock' \in Nat /\ link' \in {"up", "down"}
               /\ wire' \in Seq(Message) /\ inbuf' \in Seq(Byte)
               /\ asked' \in Seq(Facts)
               /\ preempted' \in BOOLEAN
               /\ chatter' \in Nat /\ pressed' \in Seq(Input)
  BY <1>1, <1>2 DEF Inv, TypeOK, Message
<1>4. TypeOK /\ wire \in Seq(Message) /\ Message = Seq(Byte) \ {<<>>}
  BY DEF Inv, TypeOK, Message
<1> HIDE DEF Message
<1>5. CASE DeviceAnswers
  <2>1. /\ asked # <<>> /\ asked' = Tail(asked)
        /\ wire' = Append(wire, Answer(Head(asked)))
        /\ UNCHANGED <<clock, link, inbuf, inputVars>>
    BY <1>5 DEF DeviceAnswers
  <2>2. Head(asked) \in Facts /\ asked' \in Seq(Facts)
    BY <1>4, <2>1, HeadTailProperties DEF TypeOK
  <2>3. wire' \in Seq(Message)
    BY <1>4, <2>1, <2>2, AnswersAreMessages, AppendProperties
  <2>4. QED
    BY <1>4, <2>1, <2>2, <2>3 DEF TypeOK
<1>6. CASE DeviceIgnores
  <2>1. /\ asked # <<>> /\ asked' = Tail(asked)
        /\ UNCHANGED <<clock, lineVars, inputVars>>
    BY <1>6 DEF DeviceIgnores
  <2>2. asked' \in Seq(Facts)
    BY <1>4, <2>1, HeadTailProperties DEF TypeOK
  <2>3. QED
    BY <1>4, <2>1, <2>2 DEF TypeOK
<1>7. ASSUME NEW i \in Input, DeviceInput(i)
      PROVE  <1>3!1
  <2>1. /\ pressed' = Append(pressed, i)
        /\ wire' = Append(wire, EncodeInput(i))
        /\ UNCHANGED <<clock, link, inbuf, askVars, preempted, chatter>>
    BY <1>7 DEF DeviceInput
  <2>2. EncodeInput(i) \in Message
    BY <1>7, InputsAreMessages
  <2>3. wire' \in Seq(Message) /\ pressed' \in Seq(Input)
    BY <1>4, <1>7, <2>1, <2>2, AppendProperties DEF TypeOK
  <2>4. QED
    BY <1>4, <2>1, <2>3 DEF TypeOK
<1>8. ASSUME NEW m \in Chatter, DeviceChatters(m)
      PROVE  <1>3!1
  <2>1. /\ chatter' = chatter + 1
        /\ wire' = Append(wire, m)
        /\ UNCHANGED <<clock, link, inbuf, askVars, preempted, pressed>>
    BY <1>8 DEF DeviceChatters
  <2>2. m \in Message
    BY <1>4, <1>8, DeviceAssumption
  <2>3. wire' \in Seq(Message)
    BY <1>4, <2>1, <2>2, AppendProperties
  <2>4. QED
    BY <1>4, <2>1, <2>3 DEF TypeOK
<1>9. CASE Unplug
  <2>1. wire' = <<>> /\ inbuf' = <<>> /\ link' = "down"
        /\ UNCHANGED <<clock, askVars, inputVars>>
    BY <1>9 DEF Unplug
  <2>2. wire' \in Seq(Message) /\ inbuf' \in Seq(Byte)
    BY <2>1, EmptySeq
  <2>3. QED
    BY <1>4, <2>1, <2>2 DEF TypeOK
<1>10. CASE Arrive
  <2>1. wire # <<>> /\ Head(wire) \in Seq(Byte) /\ Len(Head(wire)) \in Nat
    BY <1>4, <1>10, HeadTailProperties, LenProperties DEF Arrive
  <2>2. Tail(wire) \in Seq(Message)
    BY <1>4, <2>1, HeadTailProperties
  <2>3. PICK k \in (IF Fragmenting THEN 1..Len(Head(wire)) ELSE {Len(Head(wire))}) :
          /\ inbuf' = inbuf \o SubSeq(Head(wire), 1, k)
          /\ wire' = (IF k = Len(Head(wire)) THEN <<>>
                      ELSE <<SubSeq(Head(wire), k + 1, Len(Head(wire)))>>)
                        \o Tail(wire)
    BY <1>10 DEF Arrive
  <2> DEFINE first == SubSeq(Head(wire), 1, k)
             rest  == SubSeq(Head(wire), k + 1, Len(Head(wire)))
  <2>4. k \in 0..Len(Head(wire)) /\ k \in Int
    BY <2>1, <2>3
  <2>5. \A i \in 1..Len(Head(wire)) : Head(wire)[i] \in Byte
    BY <2>1, ElementOfSeq
  <2>6. first \in Seq(Byte)
    <3>1. 1 \in Int /\ \A i \in 1..k : Head(wire)[i] \in Byte
      BY <2>1, <2>4, <2>5
    <3>2. QED
      BY <2>4, <3>1, SubSeqProperties, Zenon
  <2>7. ASSUME k # Len(Head(wire))
        PROVE  rest \in Message
    <3>1. /\ k + 1 \in Int /\ Len(Head(wire)) \in Int /\ k + 1 <= Len(Head(wire))
          /\ Len(Head(wire)) - (k + 1) + 1 # 0
          /\ \A i \in k + 1 .. Len(Head(wire)) : Head(wire)[i] \in Byte
      BY <2>1, <2>4, <2>5, <2>7
    <3>2. /\ rest \in Seq(Byte)
          /\ Len(rest) = IF k + 1 <= Len(Head(wire))
                         THEN Len(Head(wire)) - (k + 1) + 1 ELSE 0
      BY <3>1, SubSeqProperties, Zenon
    <3>3. rest # <<>>
      BY <3>1, <3>2, EmptySeq
    <3>4. QED
      BY <1>4, <3>2, <3>3
  <2> HIDE DEF first, rest
  <2>8. inbuf' \in Seq(Byte)
    <3>1. inbuf' = inbuf \o first
      BY <2>3 DEF first
    <3>2. QED
      BY <1>4, <2>6, <3>1, ConcatProperties DEF TypeOK
  <2>9. wire' \in Seq(Message)
    <3>1. CASE k = Len(Head(wire))
      <4>1. wire' = <<>> \o Tail(wire) /\ <<>> \in Seq(Message)
        BY <2>3, <3>1
      <4>2. QED
        BY <2>2, <4>1, ConcatProperties
    <3>2. CASE k # Len(Head(wire))
      <4>1. wire' = <<rest>> \o Tail(wire)
        BY <2>3, <3>2 DEF rest
      <4>2. <<rest>> \in Seq(Message)
        BY <2>7, <3>2
      <4>3. QED
        BY <2>2, <4>1, <4>2, ConcatProperties
    <3>3. QED
      BY <3>1, <3>2
  <2>10. UNCHANGED <<clock, link, askVars, inputVars>>
    BY <1>10 DEF Arrive
  <2>11. QED
    BY <1>4, <2>8, <2>9, <2>10 DEF TypeOK
<1>11. CASE Tick
  <2>1. clock' = clock + 1 /\ UNCHANGED <<lineVars, askVars, chatter, pressed>>
    BY <1>11 DEF Tick
  <2>2. preempted' \in BOOLEAN
    <3>1. /\ preempted \in BOOLEAN
          /\ \E idle \in BOOLEAN :
               preempted' = (preempted \/ (mode = "handshake" /\ ~idle))
      BY <1>4, <1>11, Zenon DEF Tick, TypeOK
    <3>2. QED
      BY <3>1, Zenon
  <2>3. QED
    BY <1>4, <2>1, <2>2 DEF TypeOK
<1>12. QED
  BY <1>5, <1>6, <1>7, <1>8, <1>9, <1>10, <1>11 DEF Device

LEMMA StepPreservesInv == Inv /\ [Next]_vars => Inv'
<1> SUFFICES ASSUME Inv, [Next]_vars PROVE Inv'
  OBVIOUS
<1>1. CASE UNCHANGED vars
  <2> USE <1>1 DEF vars, openVars, sizeVars, readVars, lineVars, askVars,
                   inputVars, eventVars, Inv
  <2>1. TypeOK'
    BY DEF TypeOK
  <2>2. ControlOK' /\ DescriptorOwned' /\ WaitsEndInTime' /\ PayloadFits'
    BY DEF ControlOK, DescriptorOwned, WaitsEndInTime, PayloadFits
  <2>3. AskedAtMostTwice'
    BY DEF AskedAtMostTwice
  <2>4. QED
    BY <2>1, <2>2, <2>3
<1>2. CASE OpenPlatformFails \/ Handshake
  BY <1>2, HandshakePreservesInv
<1>3. CASE NextEvent \/ Reading \/ Close
  BY <1>3, ReadingPreservesInv
<1>4. CASE Device \/ Arrive \/ Tick
  BY <1>4, EnvironmentPreservesInv
<1>5. QED
  BY <1>1, <1>2, <1>3, <1>4 DEF Next, Over

(* The invariant holds of every behaviour. *)
THEOREM Invariance == Spec => []Inv
<1>1. Init => Inv
  BY InitEstablishesInv
<1>2. Inv /\ [Next]_vars => Inv'
  BY StepPreservesInv
<1>3. QED
  BY <1>1, <1>2, PTL DEF Spec

-----------------------------------------------------------------------------
(* What follows from it.                                                    *)

(* Every variable keeps to its type, for every device and line. *)
THEOREM TypeCorrectness == Spec => []TypeOK
<1>1. Inv => TypeOK
  BY DEF Inv
<1>2. QED
  BY <1>1, Invariance, PTL

(* However long the handshake and whatever the device sends, no question is *)
(* written to it a third time, nor a second time before the retry.          *)
THEOREM QuestionsAreBounded == Spec => []AskedAtMostTwice
<1>1. Inv => AskedAtMostTwice
  BY DEF Inv
<1>2. QED
  BY <1>1, Invariance, PTL

(* For every choice of deadline, retry time and slice, no wait of           *)
(* mext_open() is scheduled past the deadline or past a pending retry.      *)
THEOREM WaitsRespectDeadline == Spec => []WaitsEndInTime
<1>1. Inv => WaitsEndInTime
  BY DEF Inv
<1>2. QED
  BY <1>1, Invariance, PTL

(* No path through mext_open() leaks the descriptor or closes one that was  *)
(* not opened.                                                              *)
THEOREM DescriptorIsOwned == Spec => []DescriptorOwned
<1>1. Inv => DescriptorOwned
  BY DEF Inv
<1>2. QED
  BY <1>1, Invariance, PTL

(* However the stream is cut into pieces, and even when the host has lost   *)
(* its place in it, a payload read stays inside the message buffer.         *)
THEOREM PayloadStaysInBuffer == Spec => []PayloadFits
<1>1. Inv => PayloadFits
  BY DEF Inv
<1>2. QED
  BY <1>1, Invariance, PTL

(* A question is written only while its answer is missing: the retry        *)
(* repeats nothing the device has answered.                                 *)
THEOREM OnlyMissingIsAsked == Spec => AnsweredNotAskedAgain
<1>1. ASSUME Inv, [Next]_vars
      PROVE  [\A f \in Facts : written'[f] # written[f] => f \in need]_vars
  <2>1. CASE OpenAsks \/ HandshakeRetries
    <3>1. TypeOK /\ (QueriesWritten \/ QueryFailed)
      BY <1>1, <2>1 DEF Inv, OpenAsks, HandshakeRetries
    <3>2. \A f \in Facts \ need : written'[f] = written[f]
      BY <3>1, QueriesKeepTypes
    <3>3. QED
      BY <3>2
  <2>2. CASE UNCHANGED written
    BY <2>2
  <2>3. CASE UNCHANGED vars
    BY <2>3
  <2>4. OpenAsks \/ HandshakeRetries \/ UNCHANGED written \/ UNCHANGED vars
    BY <1>1 DEF Next, OpenPlatformFails, Handshake, HandshakeDone,
         HandshakeTimesOut, HandshakeWaits, WaitReady, WaitTimesOut, WaitFails,
         NextEvent, Reading, ReadHeader, ReadNoHeader, ReadPayload,
         ReadPayloadShort, Close, Device, DeviceAnswers, DeviceIgnores,
         DeviceInput, DeviceChatters, Unplug, Arrive, Tick, Over, askVars
  <2>5. QED
    BY <2>1, <2>2, <2>3, <2>4
<1>2. QED
  BY <1>1, Invariance, PTL DEF Spec, AnsweredNotAskedAgain

-----------------------------------------------------------------------------
(* Messages                                                                 *)

(* A message with as much payload as the table says. *)
Whole(m) == m \in Message /\ Len(m) = 1 + incoming_payload_lengths[m[1]]

(* The host has m's payload at the beginning of its payload memory. *)
Holds(p, m) == \A k \in 1 .. Len(m) - 1 : p[k] = m[k + 1]

LEMMA TableEntries ==
    /\ incoming_payload_lengths[0] = 2
    /\ incoming_payload_lengths[1] = IdLength
    /\ incoming_payload_lengths[3] = 2
    /\ incoming_payload_lengths[32] = 2 /\ incoming_payload_lengths[33] = 2
    /\ incoming_payload_lengths[80] = 2
    /\ incoming_payload_lengths[81] = 1 /\ incoming_payload_lengths[82] = 1
    /\ incoming_payload_lengths[129] = 7
  <1>1. {0, 1, 3, 32, 33, 80, 81, 82, 129} \subseteq Byte
    BY DEF Byte
  <1>. QED
    BY <1>1 DEF incoming_payload_lengths, Header, SS_SYSTEM, SS_KEY_GRID,
         SS_ENCODER, SS_TILT, CMD_SYSTEM_QUERY_RESPONSE, CMD_SYSTEM_ID,
         CMD_SYSTEM_GRID_OFFSET, CMD_SYSTEM_GRIDSZ, CMD_SYSTEM_ADDR,
         CMD_SYSTEM_VERSION, CMD_KEY_DOWN, CMD_KEY_UP, CMD_ENCODER_DELTA,
         CMD_ENCODER_SWITCH_UP, CMD_ENCODER_SWITCH_DOWN, CMD_TILT_STATES,
         CMD_TILT

(* The three answers of the device, and what the host finds in them. *)
LEMMA AnswersAreWhole ==
    ASSUME NEW f \in Facts
    PROVE  /\ Whole(Answer(f)) /\ Addr(Answer(f)[1]) = SS_SYSTEM
           /\ f = "QUERY" => Cmd(Answer(f)[1]) = CMD_SYSTEM_QUERY_RESPONSE
           /\ f = "ID" => Cmd(Answer(f)[1]) = CMD_SYSTEM_ID
           /\ f = "GRID_SIZE" => /\ Cmd(Answer(f)[1]) = CMD_SYSTEM_GRIDSZ
                                 /\ Len(Answer(f)) = 3
                                 /\ Answer(f)[2] = Cols /\ Answer(f)[3] = Rows
  <1>. DEFINE m == Answer(f)
  <1>0. m \in Message
    BY AnswersAreMessages
  <1>. USE DEF SS_SYSTEM
  <1>1. CASE f = "QUERY"
    <2>1. m = <<0, 1, 1>>
      BY <1>1 DEF Answer, Header, CMD_SYSTEM_QUERY_RESPONSE
    <2>2. m[1] = 0 /\ Len(m) = 3
      BY <2>1
    <2>. HIDE DEF m
    <2>3. Whole(m)
      BY <1>0, <2>2, TableEntries DEF Whole
    <2>4. Addr(m[1]) = 0 /\ Cmd(m[1]) = 0
      BY <2>2 DEF Addr, Cmd
    <2>. QED  BY <1>1, <2>3, <2>4 DEF m, CMD_SYSTEM_QUERY_RESPONSE
  <1>2. CASE f = "ID"
    <2>. DEFINE name == [i \in 1..IdLength |-> 109]
    <2>1. name \in Seq(Byte) /\ Len(name) = IdLength /\ IdLength \in Nat
      BY IdLengthAssumption DEF Byte
    <2>2. m = <<1>> \o name
      <3>1. Header(SS_SYSTEM, CMD_SYSTEM_ID) = 1
        BY DEF Header, CMD_SYSTEM_ID
      <3>2. m = <<Header(SS_SYSTEM, CMD_SYSTEM_ID)>> \o name
        BY <1>2 DEF Answer
      <3>. QED  BY <3>1, <3>2
    <2>3. <<1>> \in Seq(Byte) /\ Len(<<1>>) = 1 /\ <<1>>[1] = 1
      BY DEF Byte
    <2>. HIDE DEF name, m
    <2>4. Len(m) = 1 + IdLength /\ m[1] = 1
      <3>1. 1 \in 1 .. 1 + IdLength
        BY <2>1
      <3>. QED  BY <2>1, <2>2, <2>3, <3>1, ConcatProperties
    <2>5. Whole(m)
      BY <1>0, <2>4, TableEntries DEF Whole
    <2>6. Addr(m[1]) = 0 /\ Cmd(m[1]) = 1
      BY <2>4 DEF Addr, Cmd
    <2>. QED  BY <1>2, <2>5, <2>6 DEF m, CMD_SYSTEM_ID
  <1>3. CASE f = "GRID_SIZE"
    <2>1. m = <<3, Cols, Rows>>
      BY <1>3 DEF Answer, Header, CMD_SYSTEM_GRIDSZ
    <2>2. m[1] = 3 /\ Len(m) = 3 /\ m[2] = Cols /\ m[3] = Rows
      BY <2>1
    <2>. HIDE DEF m
    <2>3. Whole(m)
      BY <1>0, <2>2, TableEntries DEF Whole
    <2>4. Addr(m[1]) = 0 /\ Cmd(m[1]) = 3
      BY <2>2 DEF Addr, Cmd
    <2>. QED  BY <1>3, <2>2, <2>3, <2>4 DEF m, CMD_SYSTEM_GRIDSZ
  <1>. QED  BY <1>1, <1>2, <1>3 DEF Facts

(* What nobody asked for changes nothing. *)
LEMMA ChatterIsIgnored ==
    ASSUME NEW m \in Chatter, NEW p
    PROVE  /\ Whole(m)
           /\ Addr(m[1]) = SS_SYSTEM =>
                 Cmd(m[1]) \notin {CMD_SYSTEM_QUERY_RESPONSE, CMD_SYSTEM_ID,
                                   CMD_SYSTEM_GRIDSZ}
           /\ Addr(m[1]) # SS_SYSTEM => subsystem_event_handlers(m[1], p) = NoEvent
  <1>1. Whole(m)
    BY DeviceAssumption, ChatterAssumption DEF Whole, Message
  <1>2. ASSUME Addr(m[1]) # SS_SYSTEM
        PROVE  subsystem_event_handlers(m[1], p) = NoEvent
    BY ChatterAssumption
       DEF subsystem_event_handlers, mext_handler_encoder, mext_handler_tilt,
           SS_KEY_GRID, SS_ENCODER, SS_TILT
  <1>. QED  BY <1>1, <1>2, ChatterAssumption

(* An input is decoded to itself, whatever is behind its payload. *)
LEMMA InputIsDecoded ==
    ASSUME NEW i \in Input, NEW p, Holds(p, EncodeInput(i))
    PROVE  /\ Whole(EncodeInput(i))
           /\ Addr(EncodeInput(i)[1]) # SS_SYSTEM
           /\ subsystem_event_handlers(EncodeInput(i)[1], p) = i
           /\ i # NoEvent
  <1>. DEFINE m == EncodeInput(i)
  <1>. SUFFICES /\ Whole(m) /\ Addr(m[1]) # SS_SYSTEM
                /\ subsystem_event_handlers(m[1], p) = i
                /\ i # NoEvent
    OBVIOUS
  <1>0. m \in Message /\ \A k \in 1 .. Len(m) - 1 : p[k] = m[k + 1]
    BY InputsAreMessages DEF Holds
  <1>1. i # NoEvent
    BY InputEncodings DEF NoEvent
  <1>. DEFINE good == /\ Whole(m) /\ Addr(m[1]) # SS_SYSTEM
                      /\ subsystem_event_handlers(m[1], p) = i
  <1>. HIDE DEF m
  <1>. USE DEF Addr, Cmd, SS_SYSTEM, SS_KEY_GRID, SS_ENCODER, SS_TILT
  <1>2. ASSUME NEW a \in Byte, NEW b \in Byte,
               \/ i = [type |-> "BUTTON_DOWN", args |-> <<a, b>>] /\ m = <<33, a, b>>
               \/ i = [type |-> "BUTTON_UP", args |-> <<a, b>>] /\ m = <<32, a, b>>
        PROVE  good
    <2>1. m[1] \in {32, 33} /\ Len(m) = 3 /\ m[2] = a /\ m[3] = b
      BY <1>2
    <2>2. p[1] = a /\ p[2] = b
      BY <1>0, <2>1
    <2>3. Whole(m)
      BY <1>0, <2>1, TableEntries DEF Whole
    <2>4. subsystem_event_handlers(m[1], p) = mext_handler_key_grid(m[1] % 16, p)
          /\ Addr(m[1]) = 2
      BY <2>1 DEF subsystem_event_handlers
    <2>5. mext_handler_key_grid(m[1] % 16, p) = i
      BY <1>2, <2>2 DEF mext_handler_key_grid, CMD_KEY_DOWN
    <2>. QED  BY <2>3, <2>4, <2>5
  <1>3. ASSUME NEW a \in Byte, NEW b \in SignedByte,
               i = [type |-> "ENCODER_DELTA", args |-> <<a, b>>],
               m = <<80, a, LowByte(b)>>
        PROVE  good
    <2>1. m[1] = 80 /\ Len(m) = 3 /\ m[2] = a /\ m[3] = LowByte(b)
      BY <1>3
    <2>2. p[1] = a /\ p[2] = LowByte(b)
      BY <1>0, <2>1
    <2>3. Whole(m)
      BY <1>0, <2>1, TableEntries DEF Whole
    <2>4. subsystem_event_handlers(m[1], p) = mext_handler_encoder(m[1] % 16, p)
          /\ Addr(m[1]) = 5
      BY <2>1 DEF subsystem_event_handlers
    <2>5. Signed(p[2], 256) = b
      BY <2>2, SignedBytes
    <2>6. mext_handler_encoder(m[1] % 16, p) = i
      <3>1. m[1] % 16 = 0
        BY <2>1
      <3>. QED
        BY <1>3, <2>2, <2>5, <3>1 DEF mext_handler_encoder, CMD_ENCODER_DELTA,
             CMD_ENCODER_SWITCH_UP, CMD_ENCODER_SWITCH_DOWN
    <2>. QED  BY <2>3, <2>4, <2>6
  <1>4. ASSUME NEW a \in Byte,
               \/ i = [type |-> "ENCODER_KEY_DOWN", args |-> <<a, 0>>] /\ m = <<82, a>>
               \/ i = [type |-> "ENCODER_KEY_UP", args |-> <<a, 0>>] /\ m = <<81, a>>
        PROVE  good
    <2>1. m[1] \in {81, 82} /\ Len(m) = 2 /\ m[2] = a
      BY <1>4
    <2>2. p[1] = a
      BY <1>0, <2>1
    <2>3. Whole(m)
      BY <1>0, <2>1, TableEntries DEF Whole
    <2>4. subsystem_event_handlers(m[1], p) = mext_handler_encoder(m[1] % 16, p)
          /\ Addr(m[1]) = 5
      BY <2>1 DEF subsystem_event_handlers
    <2>5. mext_handler_encoder(m[1] % 16, p) = i
      BY <1>4, <2>2 DEF mext_handler_encoder, CMD_ENCODER_DELTA,
           CMD_ENCODER_SWITCH_UP, CMD_ENCODER_SWITCH_DOWN
    <2>. QED  BY <2>3, <2>4, <2>5
  <1>5. ASSUME NEW a \in Byte, NEW x \in Word, NEW y \in Word, NEW z \in Word,
               i = [type |-> "TILT", args |-> <<a, x, y, z>>],
               m = <<129, a, LowByte(x), HighByte(x), LowByte(y), HighByte(y),
                     LowByte(z), HighByte(z)>>
        PROVE  good
    <2>1. /\ m[1] = 129 /\ Len(m) = 8 /\ m[2] = a
          /\ m[3] = LowByte(x) /\ m[4] = HighByte(x)
          /\ m[5] = LowByte(y) /\ m[6] = HighByte(y)
          /\ m[7] = LowByte(z) /\ m[8] = HighByte(z)
      BY <1>5
    <2>2. \A k \in 1..7 : p[k] = m[k + 1]
      BY <1>0, <2>1
    <2>3. /\ p[1] = a /\ p[2] = LowByte(x) /\ p[3] = HighByte(x)
          /\ p[4] = LowByte(y) /\ p[5] = HighByte(y)
          /\ p[6] = LowByte(z) /\ p[7] = HighByte(z)
      BY <2>1, <2>2
    <2>4. Whole(m)
      BY <1>0, <2>1, TableEntries DEF Whole
    <2>5. subsystem_event_handlers(m[1], p) = mext_handler_tilt(1, p)
          /\ Addr(m[1]) = 8
      BY <2>1 DEF subsystem_event_handlers
    <2>6. mext_handler_tilt(1, p)
            = [type |-> "TILT", args |-> <<p[1], Int16(p[2], p[3]),
                                           Int16(p[4], p[5]), Int16(p[6], p[7])>>]
      BY DEF mext_handler_tilt, CMD_TILT
    <2>7. Int16(p[2], p[3]) = x /\ Int16(p[4], p[5]) = y /\ Int16(p[6], p[7]) = z
      BY <2>3, SignedBytes
    <2>. QED  BY <1>5, <2>3, <2>4, <2>5, <2>6, <2>7
  <1>. HIDE DEF good
  <1>6. good
    BY <1>2, <1>3, <1>4, <1>5, InputEncodings DEF m
  <1>. QED  BY <1>1, <1>6 DEF good

-----------------------------------------------------------------------------
(* Streams of messages                                                      *)

(* Message m stands for the inputs x, which is one or none.                 *)
Means(m, x) ==
    \/ x = <<>> /\ m \in Chatter \cup {Answer(f) : f \in Facts}
    \/ \E i \in Input : x = <<i>> /\ m = EncodeInput(i)

(* Bytes b that have arrived and messages w that are to follow stand for    *)
(* the inputs q.  One message at a time, and S holds what is to hold of the *)
(* rest: with no recursion, b and w are what the device sent if there is an *)
(* S that explains all its members.                                         *)
Explained(S, b, w, q) ==
    \/ b = <<>> /\ w = <<>> /\ q = <<>>
    \/ \E m \in Message, x \in Seq(Input), c \in Seq(Byte), r \in Seq(Input) :
         Means(m, x) /\ b = m \o c /\ q = x \o r /\ <<c, w, r>> \in S
    \/ /\ b = <<>>
       /\ \E m \in Message, x \in Seq(Input), v \in Seq(Message), r \in Seq(Input) :
            Means(m, x) /\ w = <<m>> \o v /\ q = x \o r /\ << <<>>, v, r>> \in S

Closed(S) ==
    \A b \in Seq(Byte), w \in Seq(Message), q \in Seq(Input) :
       <<b, w, q>> \in S => Explained(S, b, w, q)

Carries(b, w, q) == \E S : <<b, w, q>> \in S /\ Closed(S)

LEMMA MeaningsAreWhole ==
    ASSUME NEW m, NEW x, Means(m, x)
    PROVE  Whole(m) /\ m \in Message /\ x \in Seq(Input)
  <1>1. CASE x = <<>> /\ m \in Chatter
    BY <1>1, ChatterIsIgnored DEF Whole
  <1>2. CASE x = <<>> /\ \E f \in Facts : m = Answer(f)
    BY <1>2, AnswersAreWhole DEF Whole
  <1>3. ASSUME NEW i \in Input, x = <<i>>, m = EncodeInput(i)
        PROVE  Whole(m) /\ x \in Seq(Input)
    <2>. DEFINE p == [k \in 1 .. Len(m) - 1 |-> m[k + 1]]
    <2>1. Holds(p, m)
      BY DEF Holds
    <2>. HIDE DEF p
    <2>. QED  BY <1>3, <2>1, InputIsDecoded
  <1>. QED  BY <1>1, <1>2, <1>3 DEF Means, Whole

LEMMA BytesAssociate ==
    ASSUME NEW s \in Seq(Byte), NEW t \in Seq(Byte), NEW u \in Seq(Byte)
    PROVE  (s \o t) \o u = s \o (t \o u)
  BY ConcatAssociative

LEMMA MessageAssociates ==
    ASSUME NEW m \in Message, NEW s \in Seq(Byte), NEW n \in Message
    PROVE  (m \o s) \o n = m \o (s \o n)
  <1>1. m \in Seq(Byte) /\ n \in Seq(Byte)
    BY DEF Message
  <1>. QED  BY <1>1, BytesAssociate

LEMMA MessagesAssociate ==
    ASSUME NEW s \in Seq(Message), NEW t \in Seq(Message), NEW u \in Seq(Message)
    PROVE  (s \o t) \o u = s \o (t \o u)
  BY ConcatAssociative

LEMMA InputsAssociate ==
    ASSUME NEW s \in Seq(Input), NEW t \in Seq(Input), NEW u \in Seq(Input)
    PROVE  (s \o t) \o u = s \o (t \o u)
  BY ConcatAssociative

LEMMA Concatenations ==
    /\ \A s, t \in Seq(Byte) : s \o t \in Seq(Byte)
    /\ \A s, t \in Seq(Message) : s \o t \in Seq(Message)
    /\ \A s, t \in Seq(Input) : s \o t \in Seq(Input)
    /\ \A m \in Message : m \in Seq(Byte) /\ m # <<>> /\ <<m>> \in Seq(Message)
    /\ <<>> \in Seq(Byte) /\ <<>> \in Seq(Message) /\ <<>> \in Seq(Input)
    /\ \A s \in Seq(Byte) : s \o <<>> = s /\ <<>> \o s = s
    /\ \A s \in Seq(Message) : s \o <<>> = s /\ <<>> \o s = s
    /\ \A s \in Seq(Input) : s \o <<>> = s /\ <<>> \o s = s
  <1>1. ASSUME NEW T, NEW s \in Seq(T), NEW t \in Seq(T)
        PROVE  s \o t \in Seq(T) /\ s \o <<>> = s /\ <<>> \o s = s
    BY ConcatProperties, ConcatEmptySeq
  <1>2. \A m \in Message : m \in Seq(Byte) /\ m # <<>> /\ <<m>> \in Seq(Message)
    BY DEF Message
  <1>3. <<>> \in Seq(Byte) /\ <<>> \in Seq(Message) /\ <<>> \in Seq(Input)
    BY EmptySeq
  <1>. QED  BY <1>1, <1>2, <1>3, Zenon

(* A stream of nothing stands for nothing. *)
LEMMA CarriesNothing == Carries(<<>>, <<>>, <<>>)
  <1>. DEFINE S == {<< <<>>, <<>>, <<>> >>}
  <1>1. Closed(S)
    BY Zenon DEF Closed, Explained
  <1>. QED  BY <1>1, Zenon DEF Carries

(* What the host finds at the beginning of a stream. *)
LEMMA CarriesFirst ==
    ASSUME NEW b \in Seq(Byte), NEW w \in Seq(Message), NEW q \in Seq(Input),
           Carries(b, w, q), b # <<>>
    PROVE  \E m \in Message, x \in Seq(Input), c \in Seq(Byte), r \in Seq(Input) :
             Means(m, x) /\ b = m \o c /\ q = x \o r /\ Carries(c, w, r)
  <1>1. PICK S : <<b, w, q>> \in S /\ Closed(S)
    BY DEF Carries
  <1>2. Explained(S, b, w, q)
    BY <1>1, Zenon DEF Closed
  <1>3. PICK m \in Message, x \in Seq(Input), c \in Seq(Byte), r \in Seq(Input) :
          Means(m, x) /\ b = m \o c /\ q = x \o r /\ <<c, w, r>> \in S
    BY <1>2, Zenon DEF Explained
  <1>4. Carries(c, w, r)
    BY <1>1, <1>3, Zenon DEF Carries
  <1>. QED  BY <1>3, <1>4, Zenon

(* The device sends one more message. *)
LEMMA CarriesOneMore ==
    ASSUME NEW b \in Seq(Byte), NEW w \in Seq(Message), NEW q \in Seq(Input),
           Carries(b, w, q), NEW m, NEW x, Means(m, x)
    PROVE  Carries(b, w \o <<m>>, q \o x)
  <1>. DEFINE U == Seq(Byte) \X Seq(Message) \X Seq(Input)
  <1>1. PICK S : <<b, w, q>> \in S /\ Closed(S)
    BY DEF Carries
  <1>. DEFINE T == {y \in U : \/ y = << <<>>, <<>>, <<>> >>
                              \/ \E c \in Seq(Byte), v \in Seq(Message), p \in Seq(Input) :
                                    <<c, v, p>> \in S /\ y = <<c, v \o <<m>>, p \o x>>}
  <1>2. m \in Message /\ x \in Seq(Input) /\ <<m>> \in Seq(Message)
    BY MeaningsAreWhole, Concatenations
  <1>3. << <<>>, <<>>, <<>> >> \in T
    BY Concatenations, Zenon
  <1>4. ASSUME NEW c \in Seq(Byte), NEW v \in Seq(Message), NEW p \in Seq(Input),
               <<c, v, p>> \in S
        PROVE  <<c, v \o <<m>>, p \o x>> \in T
    <2>1. v \o <<m>> \in Seq(Message) /\ p \o x \in Seq(Input)
      BY <1>2, Concatenations, Zenon
    <2>. QED  BY <1>4, <2>1, Zenon
  <1>. HIDE DEF T
  <1>5. ASSUME NEW c \in Seq(Byte), NEW v \in Seq(Message), NEW p \in Seq(Input),
               <<c, v, p>> \in S
        PROVE  Explained(T, c, v \o <<m>>, p \o x)
    <2>1. Explained(S, c, v, p)
      BY <1>1, <1>5, Zenon DEF Closed
    <2>2. CASE c = <<>> /\ v = <<>> /\ p = <<>>
      <3>1. v \o <<m>> = <<m>> \o <<>> /\ p \o x = x \o <<>>
        BY <1>2, <2>2, Concatenations
      <3>. QED  BY <1>2, <1>3, <2>2, <3>1, Concatenations, Zenon DEF Explained
    <2>3. ASSUME NEW n \in Message, NEW y \in Seq(Input), NEW d \in Seq(Byte),
                 NEW r \in Seq(Input),
                 Means(n, y), c = n \o d, p = y \o r, <<d, v, r>> \in S
          PROVE  Explained(T, c, v \o <<m>>, p \o x)
      <3>1. <<d, v \o <<m>>, r \o x>> \in T
        BY <1>4, <2>3
      <3>2. p \o x = y \o (r \o x) /\ r \o x \in Seq(Input)
        <4>1. (y \o r) \o x = y \o (r \o x)
          <5>1. x \in Seq(Input)
            BY <1>2
          <5>. QED  BY <5>1, InputsAssociate, ZenonT(60)
        <4>2. r \o x \in Seq(Input)
          BY <1>2, Concatenations
        <4>. QED  BY <2>3, <4>1, <4>2
      <3>. QED  BY <2>3, <3>1, <3>2, Zenon DEF Explained
    <2>4. ASSUME c = <<>>,
                 NEW n \in Message, NEW y \in Seq(Input), NEW u \in Seq(Message),
                 NEW r \in Seq(Input),
                 Means(n, y), v = <<n>> \o u, p = y \o r, << <<>>, u, r>> \in S
          PROVE  Explained(T, c, v \o <<m>>, p \o x)
      <3>1. << <<>>, u \o <<m>>, r \o x>> \in T
        BY <1>4, <2>4, Concatenations
      <3>2. p \o x = y \o (r \o x) /\ r \o x \in Seq(Input)
        <4>1. (y \o r) \o x = y \o (r \o x)
          <5>1. x \in Seq(Input)
            BY <1>2
          <5>. QED  BY <5>1, InputsAssociate, ZenonT(60)
        <4>2. r \o x \in Seq(Input)
          BY <1>2, Concatenations
        <4>. QED  BY <2>4, <4>1, <4>2
      <3>3. v \o <<m>> = <<n>> \o (u \o <<m>>) /\ u \o <<m>> \in Seq(Message)
        <4>1. <<n>> \in Seq(Message) /\ u \o <<m>> \in Seq(Message)
          BY <1>2, Concatenations
        <4>2. (<<n>> \o u) \o <<m>> = <<n>> \o (u \o <<m>>)
          BY <1>2, <4>1, MessagesAssociate
        <4>. QED  BY <2>4, <4>1, <4>2
      <3>. QED  BY <2>4, <3>1, <3>2, <3>3, Zenon DEF Explained
    <2>. QED  BY <2>1, <2>2, <2>3, <2>4, Zenon DEF Explained
  <1>6. ASSUME NEW c \in Seq(Byte), NEW v \in Seq(Message), NEW p \in Seq(Input),
               <<c, v, p>> \in T
        PROVE  Explained(T, c, v, p)
    <2>1. CASE <<c, v, p>> = << <<>>, <<>>, <<>> >>
      BY <2>1, Zenon DEF Explained
    <2>2. ASSUME NEW d \in Seq(Byte), NEW u \in Seq(Message), NEW o \in Seq(Input),
                 <<d, u, o>> \in S, <<c, v, p>> = <<d, u \o <<m>>, o \o x>>
          PROVE  Explained(T, c, v, p)
      <3>1. c = d /\ v = u \o <<m>> /\ p = o \o x
        BY <2>2, Zenon
      <3>. QED  BY <1>5, <2>2, <3>1
    <2>. QED  BY <1>6, <2>1, <2>2, Zenon DEF T
  <1>7. Closed(T)
    BY <1>6, Zenon DEF Closed
  <1>8. <<b, w \o <<m>>, q \o x>> \in T
    BY <1>1, <1>4, Zenon
  <1>. QED  BY <1>7, <1>8, Zenon DEF Carries

(* The next message arrives. *)
LEMMA CarriesArrived ==
    ASSUME NEW b \in Seq(Byte), NEW m \in Message, NEW w \in Seq(Message),
           NEW q \in Seq(Input), Carries(b, <<m>> \o w, q)
    PROVE  Carries(b \o m, w, q)
  <1>. DEFINE U == Seq(Byte) \X Seq(Message) \X Seq(Input)
  <1>1. PICK S : <<b, <<m>> \o w, q>> \in S /\ Closed(S)
    BY DEF Carries
  <1>. DEFINE T == S \cup
                   {y \in U : \E c \in Seq(Byte), v \in Seq(Message), p \in Seq(Input) :
                                 <<c, <<m>> \o v, p>> \in S /\ y = <<c \o m, v, p>>}
  <1>2. m \in Seq(Byte) /\ m # <<>> /\ <<m>> \in Seq(Message)
    BY Concatenations
  <1>3. ASSUME NEW c \in Seq(Byte), NEW v \in Seq(Message), NEW p \in Seq(Input),
               <<c, <<m>> \o v, p>> \in S
        PROVE  <<c \o m, v, p>> \in T
    <2>1. c \o m \in Seq(Byte)
      BY <1>2, Concatenations
    <2>. QED  BY <1>3, <2>1, Zenon
  <1>4. S \subseteq T
    OBVIOUS
  <1>5. ASSUME NEW y \in T \ S
        PROVE  \E c \in Seq(Byte), v \in Seq(Message), p \in Seq(Input) :
                  <<c, <<m>> \o v, p>> \in S /\ y = <<c \o m, v, p>>
    BY Zenon
  <1>. HIDE DEF T
  <1>6. ASSUME NEW c \in Seq(Byte), NEW v \in Seq(Message), NEW p \in Seq(Input),
               <<c, <<m>> \o v, p>> \in S
        PROVE  Explained(T, c \o m, v, p)
    <2>0. <<m>> \o v \in Seq(Message)
      BY <1>2, Concatenations
    <2>1. Explained(S, c, <<m>> \o v, p)
      BY <1>1, <1>6, <2>0, Zenon DEF Closed
    <2>2. <<m>> \o v # <<>>
      BY <1>2, ConcatEqualIffEmpty, Concatenations
    <2>3. ASSUME NEW n \in Message, NEW y \in Seq(Input), NEW d \in Seq(Byte),
                 NEW r \in Seq(Input),
                 Means(n, y), c = n \o d, p = y \o r, <<d, <<m>> \o v, r>> \in S
          PROVE  Explained(T, c \o m, v, p)
      <3>1. <<d \o m, v, r>> \in T
        BY <1>3, <2>3
      <3>2. c \o m = n \o (d \o m) /\ d \o m \in Seq(Byte)
        <4>1. (n \o d) \o m = n \o (d \o m)
          BY MessageAssociates
        <4>2. d \o m \in Seq(Byte)
          BY <1>2, Concatenations
        <4>. QED  BY <2>3, <4>1, <4>2
      <3>. QED  BY <2>3, <3>1, <3>2, Zenon DEF Explained
    <2>4. ASSUME c = <<>>,
                 NEW n \in Message, NEW y \in Seq(Input), NEW u \in Seq(Message),
                 NEW r \in Seq(Input),
                 Means(n, y), <<m>> \o v = <<n>> \o u, p = y \o r,
                 << <<>>, u, r>> \in S
          PROVE  Explained(T, c \o m, v, p)
      <3>1. m = n /\ v = u
        <4>1. ASSUME NEW k \in Message, NEW t \in Seq(Message)
              PROVE  Head(<<k>> \o t) = k /\ Tail(<<k>> \o t) = t
          <5>1. <<k>> \in Seq(Message) /\ <<k>> # <<>> /\ <<>> \o t = t
            BY Concatenations, OneElement, Zenon
          <5>2. /\ Head(<<k>> \o t) = Head(<<k>>)
                /\ Tail(<<k>> \o t) = Tail(<<k>>) \o t
            BY <5>1, HeadTailConcat, Zenon
          <5>. QED  BY <5>1, <5>2, OneElement
        <4>2. Head(<<m>> \o v) = m /\ Tail(<<m>> \o v) = v
          BY <1>2, <4>1, Zenon
        <4>3. Head(<<n>> \o u) = n /\ Tail(<<n>> \o u) = u
          BY <4>1, Zenon
        <4>4. <<m>> \o v = <<n>> \o u
          BY <2>4
        <4>. QED  BY <4>2, <4>3, <4>4, Zenon
      <3>2. c \o m = m \o <<>>
        BY <1>2, <2>4, Concatenations
      <3>. QED  BY <1>2, <1>4, <2>4, <3>1, <3>2, Concatenations, Zenon DEF Explained
    <2>. QED  BY <2>1, <2>2, <2>3, <2>4, Zenon DEF Explained
  <1>7. ASSUME NEW c \in Seq(Byte), NEW v \in Seq(Message), NEW p \in Seq(Input),
               <<c, v, p>> \in T
        PROVE  Explained(T, c, v, p)
    <2>1. CASE <<c, v, p>> \in S
      <3>1. Explained(S, c, v, p)
        BY <1>1, <2>1, Zenon DEF Closed
      <3>. QED  BY <1>4, <3>1, Zenon DEF Explained
    <2>2. ASSUME NEW d \in Seq(Byte), NEW u \in Seq(Message), NEW o \in Seq(Input),
                 <<d, <<m>> \o u, o>> \in S, <<c, v, p>> = <<d \o m, u, o>>
          PROVE  Explained(T, c, v, p)
      <3>1. c = d \o m /\ v = u /\ p = o
        BY <2>2, Zenon
      <3>. QED  BY <1>6, <2>2, <3>1
    <2>. QED  BY <1>5, <1>7, <2>1, <2>2, Zenon
  <1>8. Closed(T)
    BY <1>7, Zenon DEF Closed
  <1>9. <<b \o m, w, q>> \in T
    BY <1>1, <1>3, Zenon
  <1>. QED  BY <1>8, <1>9, Zenon DEF Carries

-----------------------------------------------------------------------------
(* The inductive invariant                                                  *)

(* The bytes of messages the host has not handled. *)
Stream == IF pc = "payload" THEN <<header>> \o inbuf ELSE inbuf

Consumed == dropped + Len(delivered)

(* While the device is there, what has arrived and what is to follow stand  *)
(* for the inputs that are left: the host never loses its place in the      *)
(* stream, and the payload is there as soon as its header.                  *)
WireOK ==
    /\ link = "up" => Carries(Stream, wire, Unconsumed)
    /\ link = "down" => inbuf = <<>> /\ wire = <<>>
    /\ pc # "more" /\ got = 0
    /\ Consumed <= Len(pressed)

(* A fact that is not missing is the device's. *)
IdentityOK ==
    /\ "GRID_SIZE" \notin need => cols = Cols /\ rows = Rows
    /\ "ID" \notin need => friendly = "device"
    /\ mode = "open" => need = {}
    /\ mode = "new" => need = Facts

(* How often what is missing was asked for; and while the host is not kept  *)
(* from it, the retry is not overdue.                                       *)
RetryOK ==
    /\ mode = "new" => clock = 0 /\ link = "up" /\ ~preempted
    /\ mode = "handshake" => IF retried THEN \A f \in need : written[f] = 2
                                        ELSE \A f \in Facts : written[f] = 1
    /\ mode = "handshake" /\ link = "up" /\ ~preempted /\ ~retried
         => clock <= RetryAt

ErrorsOK == NegativeMeansDeviceError /\ HealthyDeviceIsRead

Rest == WireOK /\ IdentityOK /\ RetryOK /\ ErrorsOK /\ GivesUpOnlyAfterRetry

SInv == Inv /\ Rest

-----------------------------------------------------------------------------
(* Steps of the abstract specification                                      *)

Phase == CASE mode \in {"new", "handshake"} -> "opening"
           [] mode = "open" -> "open"
           [] OTHER -> "over"
Size == <<cols, rows>>
SessionStep == [Session!Next]_(Session!vars)

LEMMA SessionSteps ==
    /\ UNCHANGED <<Phase, Size, Unconsumed, delivered>> => SessionStep
    /\ /\ Phase = "opening" /\ Size' = <<Cols, Rows>>
       /\ UNCHANGED <<Phase, Unconsumed, delivered>>
       => SessionStep
    /\ /\ Phase = "opening" /\ Unconsumed # <<>> /\ Unconsumed' = Tail(Unconsumed)
       /\ UNCHANGED <<Phase, Size, delivered>>
       => SessionStep
    /\ /\ Phase = "opening" /\ Size = <<Cols, Rows>> /\ Phase' = "open"
       /\ UNCHANGED <<Size, Unconsumed, delivered>>
       => SessionStep
    /\ /\ Phase = "open" /\ Unconsumed # <<>>
       /\ delivered' = Append(delivered, Head(Unconsumed))
       /\ Unconsumed' = Tail(Unconsumed)
       /\ UNCHANGED <<Phase, Size>>
       => SessionStep
    /\ /\ \E i \in Input : Unconsumed' = Append(Unconsumed, i)
       /\ UNCHANGED <<Phase, Size, delivered>>
       => SessionStep
    /\ Unconsumed' = <<>> /\ UNCHANGED <<Phase, Size, delivered>> => SessionStep
    /\ /\ Phase # "over" /\ Phase' = "over"
       /\ UNCHANGED <<Size, Unconsumed, delivered>>
       => SessionStep
  <1>. USE DEF SessionStep, Session!Next, Session!vars, Size, Phase
  <1>1. UNCHANGED <<Phase, Size, Unconsumed, delivered>> => SessionStep
    OBVIOUS
  <1>2. /\ Phase = "opening" /\ Size' = <<Cols, Rows>>
        /\ UNCHANGED <<Phase, Unconsumed, delivered>>
        => SessionStep
    BY DEF Session!Measure
  <1>3. /\ Phase = "opening" /\ Unconsumed # <<>> /\ Unconsumed' = Tail(Unconsumed)
        /\ UNCHANGED <<Phase, Size, delivered>>
        => SessionStep
    BY DEF Session!Discard
  <1>4. /\ Phase = "opening" /\ Size = <<Cols, Rows>> /\ Phase' = "open"
        /\ UNCHANGED <<Size, Unconsumed, delivered>>
        => SessionStep
    BY DEF Session!Opened
  <1>5. /\ Phase = "open" /\ Unconsumed # <<>>
        /\ delivered' = Append(delivered, Head(Unconsumed))
        /\ Unconsumed' = Tail(Unconsumed)
        /\ UNCHANGED <<Phase, Size>>
        => SessionStep
    BY DEF Session!Deliver
  <1>6. /\ \E i \in Input : Unconsumed' = Append(Unconsumed, i)
        /\ UNCHANGED <<Phase, Size, delivered>>
        => SessionStep
    BY DEF Session!Happen
  <1>7. Unconsumed' = <<>> /\ UNCHANGED <<Phase, Size, delivered>> => SessionStep
    BY DEF Session!Unplug
  <1>8. /\ Phase # "over" /\ Phase' = "over"
        /\ UNCHANGED <<Size, Unconsumed, delivered>>
        => SessionStep
    BY DEF Session!End
  <1>. QED  BY <1>1, <1>2, <1>3, <1>4, <1>5, <1>6, <1>7, <1>8

-----------------------------------------------------------------------------
(* Reading                                                                  *)

(* What the host does with a message: nothing that concerns the session, an *)
(* answer's share of the identity, or an event.                             *)
Quietly(x, p) ==
    /\ x = <<>> /\ NextMsg(p)
    /\ UNCHANGED <<cols, rows>> \/ (cols' = Cols /\ rows' = Rows)

Reports(x) ==
    \E i \in Input : x = <<i>> /\ i \in Event /\ ReturnEvent(i) /\ UNCHANGED sizeVars

LEMMA HandleMeans ==
    ASSUME TypeOK, IdentityOK, mode # "new", NEW m, NEW x, Means(m, x),
           NEW p \in [1..PayloadSize -> Byte], Holds(p, m), Handle(m[1], p)
    PROVE  IdentityOK' /\ need' \subseteq need /\ (Quietly(x, p) \/ Reports(x))
  <1>1. ASSUME mode' = mode, UNCHANGED sizeVars
        PROVE  IdentityOK'
    BY <1>1 DEF IdentityOK, sizeVars
  <1>2. CASE x = <<>> /\ m \in Chatter
    <2>1. NextMsg(p) /\ UNCHANGED sizeVars
      <3>1. CASE Addr(m[1]) = SS_SYSTEM
        <4>1. mext_handler_system(Cmd(m[1]), p) /\ NextMsg(p)
          BY <3>1 DEF Handle
        <4>2. UNCHANGED sizeVars
          BY <1>2, <3>1, <4>1, ChatterIsIgnored DEF mext_handler_system, sizeVars, TypeOK
        <4>. QED  BY <4>1, <4>2
      <3>2. CASE Addr(m[1]) # SS_SYSTEM
        BY <1>2, <3>2, ChatterIsIgnored DEF Handle
      <3>. QED  BY <3>1, <3>2
    <2>2. IdentityOK'
      BY <1>1, <2>1 DEF NextMsg
    <2>3. need' \subseteq need /\ Quietly(x, p)
      BY <1>2, <2>1 DEF Quietly, sizeVars
    <2>. QED  BY <2>2, <2>3
  <1>3. ASSUME NEW f \in Facts, x = <<>>, m = Answer(f)
        PROVE  IdentityOK' /\ need' \subseteq need /\ Quietly(x, p)
    <2>. DEFINE cmd == Cmd(m[1])
    <2>1. mext_handler_system(cmd, p) /\ NextMsg(p)
      BY <1>3, AnswersAreWhole DEF Handle
    <2>2. mode' = mode /\ need \in SUBSET Facts /\ mode # "new"
      BY <2>1 DEF NextMsg, TypeOK
    <2>3. /\ f = "QUERY" => cmd = 0
          /\ f = "ID" => cmd = 1
          /\ f = "GRID_SIZE" => /\ cmd = 3
                                /\ Len(m) = 3 /\ m[2] = Cols /\ m[3] = Rows
      BY <1>3, AnswersAreWhole
         DEF CMD_SYSTEM_QUERY_RESPONSE, CMD_SYSTEM_ID, CMD_SYSTEM_GRIDSZ
    <2>. HIDE DEF cmd
    <2>4. /\ need' = need \ (CASE cmd = 0 -> {"QUERY"} [] cmd = 1 -> {"ID"}
                               [] cmd = 3 -> {"GRID_SIZE"} [] OTHER -> {})
          /\ friendly' = IF cmd = 1 THEN "device" ELSE friendly
          /\ cols' = IF cmd = 3 THEN p[1] ELSE cols
          /\ rows' = IF cmd = 3 THEN p[2] ELSE rows
      BY <2>1 DEF mext_handler_system,
         CMD_SYSTEM_QUERY_RESPONSE, CMD_SYSTEM_ID, CMD_SYSTEM_GRIDSZ
    <2>5. ASSUME f = "GRID_SIZE"
          PROVE  p[1] = Cols /\ p[2] = Rows
      <3>1. Len(m) = 3 /\ m[2] = Cols /\ m[3] = Rows
        BY <2>3, <2>5
      <3>2. \A k \in 1..2 : p[k] = m[k + 1]
        BY <3>1 DEF Holds
      <3>3. p[1] = m[2] /\ p[2] = m[3]
        BY <3>2
      <3>. QED  BY <3>1, <3>3
    <2>6. CASE f = "QUERY"
      <3>1. need' = need \ {"QUERY"} /\ UNCHANGED <<cols, rows, friendly>>
        BY <2>3, <2>4, <2>6
      <3>. QED  BY <1>3, <2>1, <2>2, <3>1 DEF IdentityOK, Quietly
    <2>7. CASE f = "ID"
      <3>1. /\ need' = need \ {"ID"} /\ friendly' = "device"
            /\ UNCHANGED <<cols, rows>>
        BY <2>3, <2>4, <2>7
      <3>. QED  BY <1>3, <2>1, <2>2, <3>1 DEF IdentityOK, Quietly
    <2>8. CASE f = "GRID_SIZE"
      <3>1. /\ need' = need \ {"GRID_SIZE"} /\ cols' = Cols /\ rows' = Rows
            /\ friendly' = friendly
        BY <2>3, <2>4, <2>5, <2>8
      <3>. QED  BY <1>3, <2>1, <2>2, <3>1 DEF IdentityOK, Quietly
    <2>. QED  BY <2>6, <2>7, <2>8 DEF Facts
  <1>4. ASSUME NEW i \in Input, x = <<i>>, m = EncodeInput(i)
        PROVE  IdentityOK' /\ need' \subseteq need /\ Reports(x)
    <2>1. /\ Whole(m) /\ Addr(m[1]) # SS_SYSTEM
          /\ subsystem_event_handlers(m[1], p) = i /\ i # NoEvent
      BY <1>4, InputIsDecoded
    <2>2. ReturnEvent(i) /\ UNCHANGED sizeVars
      BY <2>1 DEF Handle
    <2>3. i \in Event
      <3>1. m[1] \in Byte
        <4>1. m \in Seq(Byte) /\ Len(m) \in Nat \ {0}
          BY <2>1, EmptySeq, LenProperties DEF Whole, Message
        <4>2. 1 \in 1..Len(m)
          BY <4>1
        <4>. QED  BY <4>1, <4>2, ElementOfSeq
      <3>. QED  BY <2>1, <3>1, HandlersYieldEvents
    <2>4. IdentityOK'
      BY <1>1, <2>2 DEF ReturnEvent
    <2>. QED  BY <1>4, <2>2, <2>3, <2>4 DEF sizeVars, Reports
  <1>. QED  BY <1>2, <1>3, <1>4 DEF Means

(* The inputs that are left, and what is left of them without the first.    *)
LEMMA InputsLeft ==
    ASSUME TypeOK, Consumed <= Len(pressed), link = "up"
    PROVE  /\ Unconsumed \in Seq(Input)
           /\ Consumed \in 0..Len(pressed)
           /\ Unconsumed = SubSeq(pressed, Consumed + 1, Len(pressed))
           /\ Unconsumed # <<>> =>
                 /\ Consumed + 1 <= Len(pressed)
                 /\ Tail(Unconsumed)
                      = SubSeq(pressed, Consumed + 1 + 1, Len(pressed))
  <1>1. /\ dropped \in Nat /\ Len(delivered) \in Nat /\ Len(pressed) \in Nat
        /\ pressed \in Seq(Input)
    BY LenProperties DEF TypeOK
  <1>2. Consumed \in 0..Len(pressed)
    BY <1>1 DEF Consumed
  <1>3. Unconsumed = SubSeq(pressed, Consumed + 1, Len(pressed))
    BY DEF Unconsumed, Consumed
  <1>4. /\ Unconsumed \in Seq(Input)
        /\ Unconsumed # <<>> =>
              /\ Consumed + 1 \in 0..Len(pressed)
              /\ Tail(Unconsumed) = SubSeq(pressed, Consumed + 1 + 1, Len(pressed))
    BY <1>1, <1>2, <1>3, WhatIsLeft
  <1>. QED  BY <1>1, <1>2, <1>3, <1>4

LEMMA MessageHandled ==
    ASSUME SInv, mode \in {"handshake", "open"}, link = "up",
           NEW m, NEW x, NEW c \in Seq(Byte), NEW r \in Seq(Input),
           Means(m, x), Unconsumed = x \o r, Carries(c, wire, r),
           NEW p \in [1..PayloadSize -> Byte], Holds(p, m), Handle(m[1], p),
           inbuf' = c,
           UNCHANGED <<clock, retried, link, wire, askVars, inputVars>>
    PROVE  Rest' /\ SessionStep
  <1>1. /\ TypeOK /\ DescriptorOwned /\ WireOK /\ IdentityOK /\ RetryOK
        /\ ErrorsOK /\ GivesUpOnlyAfterRetry /\ mode # "new"
    BY DEF SInv, Inv, Rest
  <1>2. /\ m \in Message /\ x \in Seq(Input) /\ m[1] \in Byte
    <2>1. m \in Message /\ x \in Seq(Input)
      BY MeaningsAreWhole
    <2>2. m \in Seq(Byte) /\ Len(m) \in Nat \ {0}
      BY <2>1, EmptySeq, LenProperties DEF Message
    <2>3. 1 \in 1..Len(m)
      BY <2>2
    <2>. QED  BY <2>1, <2>2, <2>3, ElementOfSeq
  <1>3. IdentityOK' /\ need' \subseteq need /\ (Quietly(x, p) \/ Reports(x))
    BY <1>1, HandleMeans
  <1>4. /\ mode' = mode /\ cause' = cause /\ got' = 0
        /\ pc' \notin {"payload", "more"}
    BY <1>1, <1>2, HandleEffect
  <1>5. /\ Unconsumed \in Seq(Input)
        /\ Consumed \in 0..Len(pressed)
        /\ Unconsumed = SubSeq(pressed, Consumed + 1, Len(pressed))
        /\ Unconsumed # <<>> =>
              /\ Consumed + 1 <= Len(pressed)
              /\ Tail(Unconsumed)
                   = SubSeq(pressed, Consumed + 1 + 1, Len(pressed))
    BY <1>1, InputsLeft DEF WireOK
  <1>6. Stream' = c /\ wire' = wire /\ link' = "up" /\ pressed' = pressed
    BY <1>4 DEF Stream, inputVars
  <1>7. Phase' = Phase /\ Unconsumed' = SubSeq(pressed, Consumed' + 1, Len(pressed))
    BY <1>4, <1>6 DEF Phase, Unconsumed, Consumed
  <1>8. RetryOK'
    BY <1>1, <1>3, <1>4 DEF RetryOK, askVars, inputVars
  <1>9. GivesUpOnlyAfterRetry' /\ HealthyDeviceIsRead'
    <2>1. cause' = "none"
      BY <1>1, <1>4 DEF DescriptorOwned
    <2>. QED  BY <2>1 DEF GivesUpOnlyAfterRetry, HealthyDeviceIsRead
  <1>10. ASSUME Consumed' <= Len(pressed'), Unconsumed' = r,
                status' = status \/ status' = 1
         PROVE  Rest'
    <2>1. WireOK'
      BY <1>4, <1>6, <1>10 DEF WireOK
    <2>2. NegativeMeansDeviceError'
      BY <1>1, <1>10 DEF ErrorsOK, NegativeMeansDeviceError
    <2>. QED  BY <1>3, <1>8, <1>9, <2>1, <2>2 DEF Rest, ErrorsOK
  <1>11. CASE Quietly(x, p)
    <2>1. /\ x = <<>> /\ Consumed' = Consumed
          /\ UNCHANGED <<status, delivered>>
          /\ UNCHANGED <<cols, rows>> \/ (cols' = Cols /\ rows' = Rows)
      BY <1>11 DEF Quietly, NextMsg, eventVars, Consumed
    <2>2. Unconsumed' = r /\ Unconsumed' = Unconsumed
      BY <1>5, <1>7, <2>1, Concatenations
    <2>3. Consumed' <= Len(pressed')
      BY <1>5, <1>6, <2>1
    <2>4. Rest'
      BY <1>10, <2>1, <2>2, <2>3
    <2>5. CASE mode = "open"
      <3>1. cols = Cols /\ rows = Rows
        BY <1>1, <2>5 DEF IdentityOK
      <3>2. Size' = Size
        BY <2>1, <3>1 DEF Size
      <3>. QED  BY <1>7, <2>1, <2>2, <2>4, <3>2, SessionSteps
    <2>6. CASE mode = "handshake"
      <3>1. Phase = "opening" /\ (Size' = Size \/ Size' = <<Cols, Rows>>)
        BY <2>1, <2>6 DEF Phase, Size
      <3>. QED  BY <1>7, <2>1, <2>2, <2>4, <3>1, SessionSteps
    <2>. QED  BY <2>5, <2>6
  <1>12. CASE Reports(x)
    <2>1. PICK i \in Input : /\ x = <<i>> /\ i \in Event
                             /\ ReturnEvent(i) /\ UNCHANGED sizeVars
      BY <1>12 DEF Reports
    <2>2. Unconsumed # <<>> /\ Head(Unconsumed) = i /\ Tail(Unconsumed) = r
      <3>1. x # <<>> /\ Head(x) = i /\ Tail(x) = <<>>
        BY <2>1, OneElement
      <3>2. /\ x \o r # <<>> /\ Head(x \o r) = Head(x)
            /\ Tail(x \o r) = Tail(x) \o r
        BY <1>2, <3>1, HeadTailConcat
      <3>3. <<>> \o r = r
        BY Concatenations
      <3>. QED  BY <3>1, <3>2, <3>3
    <2>3. Consumed' = Consumed + 1 /\ (status' = status \/ status' = 1)
      <3>1. dropped \in Nat /\ delivered \in Seq(Event)
        BY <1>1 DEF TypeOK
      <3>2. Len(delivered) \in Nat /\ Len(Append(delivered, i)) = Len(delivered) + 1
        BY <2>1, <3>1, AppendProperties, LenProperties
      <3>. QED  BY <2>1, <3>1, <3>2 DEF ReturnEvent, Consumed
    <2>4. Unconsumed' = r /\ Unconsumed' = Tail(Unconsumed)
      BY <1>5, <1>7, <2>2, <2>3
    <2>5. Consumed' <= Len(pressed')
      BY <1>5, <1>6, <2>2, <2>3
    <2>6. Rest'
      BY <1>10, <2>3, <2>4, <2>5
    <2>7. Size' = Size
      BY <2>1 DEF Size, sizeVars
    <2>8. CASE mode = "open"
      <3>1. Phase = "open" /\ delivered' = Append(delivered, Head(Unconsumed))
        BY <2>1, <2>2, <2>8 DEF Phase, ReturnEvent
      <3>. QED  BY <1>7, <2>2, <2>4, <2>6, <2>7, <3>1, SessionSteps
    <2>9. CASE mode = "handshake"
      <3>1. Phase = "opening" /\ delivered' = delivered
        BY <2>1, <2>9 DEF Phase, ReturnEvent
      <3>. QED  BY <1>7, <2>2, <2>4, <2>6, <2>7, <3>1, SessionSteps
    <2>. QED  BY <2>8, <2>9
  <1>. QED  BY <1>3, <1>11, <1>12

(* A step after which everything that matters is as it was.                 *)
LEMMA SameSession ==
    ASSUME SInv,
           UNCHANGED <<mode, cause, sizeVars, retried, clock, link, wire, written,
                       preempted, pressed, dropped, delivered>>,
           link = "up" => Stream' = Stream, link = "down" => inbuf' = inbuf,
           pc' # "more", got' = 0,
           status' = status \/ status' = 0 \/ link = "down"
    PROVE  Rest' /\ SessionStep
  <1>. USE DEF SInv, Rest, sizeVars
  <1>1. Consumed' = Consumed /\ Unconsumed' = Unconsumed
    BY DEF Consumed, Unconsumed
  <1>2. WireOK'
    BY <1>1 DEF WireOK
  <1>3. IdentityOK' /\ RetryOK'
    BY DEF IdentityOK, RetryOK
  <1>4. ErrorsOK' /\ GivesUpOnlyAfterRetry'
    BY DEF ErrorsOK, NegativeMeansDeviceError, HealthyDeviceIsRead,
           GivesUpOnlyAfterRetry
  <1>5. SessionStep
    <2>1. UNCHANGED <<Phase, Size, delivered>>
      BY DEF Phase, Size
    <2>. QED  BY <1>1, <2>1, SessionSteps
  <1>. QED  BY <1>2, <1>3, <1>4, <1>5

(* mext_open() fails, or the application closes the device.                 *)
LEMMA SessionEnds ==
    ASSUME SInv, mode \in {"new", "handshake", "open"},
           mode' \in {"failed", "closed"}, pc' = "idle", got' = 0,
           link = "up" => pc # "payload",
           UNCHANGED <<sizeVars, lineVars, pressed, eventVars>>,
           cause' = cause \/ (cause' \in {"read", "wait"} => link = "down"),
           GivesUpOnlyAfterRetry'
    PROVE  Rest' /\ SessionStep
  <1>. USE DEF SInv, Rest, sizeVars, lineVars, eventVars
  <1>1. Consumed' = Consumed /\ Unconsumed' = Unconsumed
    BY DEF Consumed, Unconsumed
  <1>2. WireOK'
    BY <1>1 DEF WireOK, Stream
  <1>3. IdentityOK' /\ RetryOK'
    BY DEF IdentityOK, RetryOK
  <1>4. ErrorsOK'
    BY DEF ErrorsOK, NegativeMeansDeviceError, HealthyDeviceIsRead
  <1>5. SessionStep
    <2>1. UNCHANGED <<Size, delivered>> /\ Phase # "over" /\ Phase' = "over"
      BY DEF Phase, Size
    <2>. QED  BY <1>1, <2>1, SessionSteps
  <1>. QED  BY <1>2, <1>3, <1>4, <1>5

(* The first message of a stream of bytes, taken apart as the host does.    *)
LEMMA MessageFirst ==
    ASSUME NEW m \in Message, NEW c \in Seq(Byte)
    PROVE  /\ Head(m \o c) = m[1] /\ Tail(m \o c) = Tail(m) \o c
           /\ m[1] \in Byte
           /\ Tail(m) \in Seq(Byte) /\ Len(m) \in Nat
           /\ Len(Tail(m)) = Len(m) - 1
           /\ \A k \in 1 .. Len(m) - 1 : Tail(m)[k] = m[k + 1]
           /\ Len(m) = 1 => Tail(m) = <<>>
  <1>1. m \in Seq(Byte) /\ m # <<>>
    BY DEF Message
  <1>2. /\ Len(m) \in Nat \ {0} /\ Tail(m) \in Seq(Byte)
        /\ Len(Tail(m)) = Len(m) - 1
        /\ \A k \in 1 .. Len(Tail(m)) : Tail(m)[k] = m[k + 1]
    BY <1>1, EmptySeq, LenProperties, HeadTailProperties
  <1>3. Head(m \o c) = Head(m) /\ Tail(m \o c) = Tail(m) \o c
    BY <1>1, HeadTailConcat
  <1>4. Head(m) = m[1] /\ Head(m) \in Byte
    BY <1>1, HeadTailProperties
  <1>5. ASSUME Len(m) = 1
        PROVE  Tail(m) = <<>>
    <2>1. Tail(m) \in Seq(Byte) /\ Len(Tail(m)) = 0
      BY <1>2, <1>5
    <2>. QED  BY <2>1, EmptySeq
  <1>. QED  BY <1>2, <1>3, <1>4, <1>5

(* What is behind the first part of a stream.                               *)
LEMMA BytesBehind ==
    ASSUME NEW s \in Seq(Byte), NEW c \in Seq(Byte)
    PROVE  /\ Len(s \o c) \in Nat /\ Len(s) \in Nat /\ Len(s \o c) >= Len(s)
           /\ SubSeq(s \o c, Len(s) + 1, Len(s \o c)) = c
           /\ \A k \in 1..Len(s) : (s \o c)[k] = s[k]
  <1>1. Len(s) \in Nat /\ Len(c) \in Nat
    BY LenProperties
  <1>2. /\ Len(s \o c) = Len(s) + Len(c) /\ s \o c \in Seq(Byte)
        /\ \A i \in 1 .. Len(s) + Len(c) :
              (s \o c)[i] = IF i <= Len(s) THEN s[i] ELSE c[i - Len(s)]
    BY ConcatProperties
  <1>3. \A k \in 1..Len(s) : (s \o c)[k] = s[k]
    BY <1>1, <1>2
  <1>4. SubSeq(s \o c, Len(s) + 1, Len(s \o c)) = c
    OBVIOUS
  <1>. QED  BY <1>1, <1>2, <1>3, <1>4

(* mext_next_event() without an event.                                      *)
LEMMA ReturnStatusMeans ==
    ASSUME SInv, mode \in {"handshake", "open"}, inbuf = <<>>,
           link = "up" => pc = "header",
           NEW s \in {-1, 0}, s = -1 => link = "down", ReturnStatus(s),
           UNCHANGED <<clock, retried, sizeVars, lineVars, askVars, inputVars>>
    PROVE  Rest' /\ SessionStep
  <1>. USE DEF sizeVars, lineVars, askVars, inputVars, eventVars
  <1>1. got' = 0 /\ inbuf' = inbuf
    BY DEF ReturnStatus, ForgetMsg
  <1>2. CASE mode = "open"
    <2>1. pc' = "idle" /\ status' = s /\ UNCHANGED <<mode, cause, dropped, delivered>>
      BY <1>2 DEF ReturnStatus
    <2>2. link = "up" => Stream' = Stream
      BY <1>1, <2>1 DEF Stream
    <2>. QED  BY <1>1, <2>1, <2>2, SameSession
  <1>3. CASE mode = "handshake" /\ s = 0
    <2>1. pc' = "top" /\ UNCHANGED <<mode, cause, status, dropped, delivered>>
      BY <1>3 DEF ReturnStatus
    <2>2. link = "up" => Stream' = Stream
      BY <1>1, <2>1 DEF Stream
    <2>. QED  BY <1>1, <2>1, <2>2, SameSession
  <1>4. CASE mode = "handshake" /\ s = -1
    <2>1. /\ mode' = "failed" /\ pc' = "idle" /\ cause' = "read" /\ link = "down"
          /\ UNCHANGED eventVars
      BY <1>4 DEF ReturnStatus, Fail
    <2>2. GivesUpOnlyAfterRetry'
      BY <2>1 DEF GivesUpOnlyAfterRetry
    <2>. QED  BY <1>1, <2>1, <2>2, SessionEnds
  <1>. QED  BY <1>2, <1>3, <1>4

LEMMA ReadHeaderMeans ==
    ASSUME SInv, ReadHeader
    PROVE  Rest' /\ SessionStep
  <1>1. /\ pc = "header" /\ inbuf # <<>> /\ inbuf' = Tail(inbuf)
        /\ UNCHANGED <<wake, clock, retried, link, wire, askVars, inputVars>>
    BY DEF ReadHeader
  <1>2. /\ mode \in {"handshake", "open"} /\ link = "up" /\ got = 0
        /\ inbuf \in Seq(Byte) /\ wire \in Seq(Message)
        /\ payload \in [1..PayloadSize -> Byte]
        /\ Carries(inbuf, wire, Unconsumed)
    BY <1>1 DEF SInv, Inv, Rest, WireOK, Stream, ControlOK, TypeOK, Message
  <1>3. Unconsumed \in Seq(Input)
    BY <1>2, InputsLeft DEF SInv, Inv, Rest, WireOK
  <1>4. PICK m \in Message, x \in Seq(Input), c \in Seq(Byte), r \in Seq(Input) :
          /\ Means(m, x) /\ inbuf = m \o c /\ Unconsumed = x \o r
          /\ Carries(c, wire, r)
    BY <1>1, <1>2, <1>3, CarriesFirst
  <1>5. /\ Head(inbuf) = m[1] /\ inbuf' = Tail(m) \o c
        /\ Len(m) = 1 => Tail(m) = <<>>
        /\ Len(m) = 1 + incoming_payload_lengths[m[1]]
        /\ m[1] \in Byte
    BY <1>1, <1>4, MessageFirst, MeaningsAreWhole DEF Whole
  <1>6. CASE incoming_payload_lengths[m[1]] = 0
    <2>1. Handle(m[1], payload)
      BY <1>5, <1>6 DEF ReadHeader
    <2>2. Len(m) = 1 /\ inbuf' = c
      <3>1. Len(m) = 1
        BY <1>5, <1>6
      <3>2. inbuf' = <<>> \o c /\ <<>> \o c = c
        BY <1>4, <1>5, <3>1, Concatenations
      <3>. QED  BY <3>1, <3>2
    <2>3. Holds(payload, m)
      BY <2>2 DEF Holds
    <2>. QED  BY <1>1, <1>2, <1>4, <2>1, <2>2, <2>3, MessageHandled
  <1>7. CASE incoming_payload_lengths[m[1]] # 0
    <2>1. /\ pc' = "payload" /\ header' = Head(inbuf)
          /\ UNCHANGED <<mode, cause, got, sizeVars, eventVars>>
      BY <1>5, <1>7 DEF ReadHeader
    <2>2. Stream' = <<Head(inbuf)>> \o Tail(inbuf)
      BY <1>1, <2>1 DEF Stream
    <2>3. Stream = inbuf /\ inbuf = <<Head(inbuf)>> \o Tail(inbuf)
      BY <1>1, <1>2, FirstIsHead DEF Stream
    <2>. QED
      BY <1>1, <1>2, <2>1, <2>2, <2>3, SameSession DEF eventVars, askVars, inputVars
  <1>. QED  BY <1>6, <1>7

LEMMA ReadPayloadMeans ==
    ASSUME SInv, ReadPayload
    PROVE  Rest' /\ SessionStep
  <1>1. /\ pc = "payload" /\ inbuf # <<>> /\ got = 0
        /\ UNCHANGED <<retried, link, wire, askVars, inputVars>>
    BY DEF ReadPayload, SInv, Rest, WireOK
  <1>2. PICK len, n, p :
          /\ len = incoming_payload_lengths[header]
          /\ n = Min({Len(inbuf), len - got})
          /\ p = [i \in 1..PayloadSize |->
                     IF i \in got + 1 .. got + n THEN inbuf[i - got]
                                                 ELSE payload[i]]
          /\ inbuf' = SubSeq(inbuf, n + 1, Len(inbuf))
          /\ got + n = len => Handle(header, p) /\ wake' = 0 /\ clock' = clock
    BY DEF ReadPayload, ReadCount, Complete
  <1>3. /\ mode \in {"handshake", "open"} /\ link = "up" /\ header \in Byte
        /\ inbuf \in Seq(Byte) /\ wire \in Seq(Message)
        /\ Carries(<<header>> \o inbuf, wire, Unconsumed)
    BY <1>1 DEF SInv, Inv, Rest, WireOK, Stream, ControlOK, TypeOK, Message
  <1>4. Unconsumed \in Seq(Input)
    BY <1>3, InputsLeft DEF SInv, Inv, Rest, WireOK
  <1>5. /\ <<header>> \o inbuf \in Seq(Byte) /\ <<header>> \o inbuf # <<>>
        /\ Head(<<header>> \o inbuf) = header /\ Tail(<<header>> \o inbuf) = inbuf
    <2>1. /\ <<header>> \in Seq(Byte) /\ <<header>> # <<>>
          /\ Head(<<header>>) = header /\ Tail(<<header>>) = <<>>
      BY <1>3, OneElement
    <2>2. /\ <<header>> \o inbuf # <<>>
          /\ Head(<<header>> \o inbuf) = Head(<<header>>)
          /\ Tail(<<header>> \o inbuf) = Tail(<<header>>) \o inbuf
      BY <1>3, <2>1, HeadTailConcat
    <2>3. <<header>> \o inbuf \in Seq(Byte) /\ <<>> \o inbuf = inbuf
      BY <1>3, <2>1, Concatenations
    <2>. QED  BY <2>1, <2>2, <2>3
  <1>6. PICK m \in Message, x \in Seq(Input), c \in Seq(Byte), r \in Seq(Input) :
          /\ Means(m, x) /\ <<header>> \o inbuf = m \o c /\ Unconsumed = x \o r
          /\ Carries(c, wire, r)
    BY <1>3, <1>4, <1>5, CarriesFirst
  <1>. DEFINE t == Tail(m)
  <1>7. /\ header = m[1] /\ inbuf = t \o c /\ t \in Seq(Byte)
        /\ Len(t) = Len(m) - 1 /\ Len(m) \in Nat
        /\ \A k \in 1 .. Len(m) - 1 : t[k] = m[k + 1]
    BY <1>5, <1>6, MessageFirst
  <1>8. Len(m) = 1 + len
    BY <1>2, <1>6, <1>7, MeaningsAreWhole DEF Whole
  <1>9. /\ n \in Nat \ {0} /\ n <= Len(inbuf) /\ n <= len /\ len \in Nat
        /\ len <= PayloadSize /\ PayloadSize \in Nat
        /\ p \in [1..PayloadSize -> Byte]
    <2>1. TypeOK /\ PayloadFits /\ PayloadSize \in Nat
      BY LengthsFit DEF SInv, Inv
    <2>2. /\ n \in Nat \ {0} /\ n <= Len(inbuf) /\ got + n <= len
          /\ len <= PayloadSize /\ len \in Nat /\ p \in [1..PayloadSize -> Byte]
      BY <1>1, <1>2, <2>1, ReadPayloadFits
    <2>. QED  BY <1>1, <2>1, <2>2
  <1>. HIDE DEF t
  <1>10. Len(t) = len /\ Len(inbuf) \in Nat /\ Len(inbuf) >= len
    BY <1>6, <1>7, <1>8, <1>9, BytesBehind
  <1>11. n = len
    <2>1. n \in {Len(inbuf), len}
      <3>1. n = Min({Len(inbuf), len})
        <4>1. len - got = len
          BY <1>1, <1>9
        <4>. QED  BY <1>2, <4>1
      <3>. QED  BY <1>9, <1>10, <3>1, MinOfTwo
    <2>. QED  BY <1>9, <1>10, <2>1
  <1>12. inbuf' = c /\ \A k \in 1..len : inbuf[k] = t[k]
    <2>1. /\ SubSeq(t \o c, Len(t) + 1, Len(t \o c)) = c
          /\ \A k \in 1..Len(t) : (t \o c)[k] = t[k]
      BY <1>6, <1>7, BytesBehind
    <2>2. inbuf' = SubSeq(inbuf, n + 1, Len(inbuf))
      BY <1>2
    <2>. QED  BY <1>7, <1>10, <1>11, <2>1, <2>2, Zenon
  <1>13. Holds(p, m)
    <2>1. ASSUME NEW k \in 1 .. Len(m) - 1
          PROVE  p[k] = m[k + 1]
      <3>1. k \in 1..len /\ k \in 1..PayloadSize /\ k \in got + 1 .. got + n
            /\ k - got = k
        BY <1>1, <1>8, <1>9, <1>11
      <3>2. p[k] = inbuf[k]
        BY <1>2, <3>1
      <3>. QED  BY <1>7, <1>12, <3>1, <3>2
    <2>. QED  BY <2>1 DEF Holds
  <1>14. Handle(m[1], p) /\ clock' = clock
    <2>1. got + n = len
      BY <1>1, <1>9, <1>11
    <2>. QED  BY <1>2, <1>7, <2>1
  <1>. QED
    BY <1>1, <1>3, <1>6, <1>9, <1>12, <1>13, <1>14, MessageHandled

LEMMA ReadingMeans ==
    ASSUME SInv, Reading
    PROVE  Rest' /\ SessionStep
  <1>1. CASE ReadNoHeader
    <2>1. /\ pc = "header" /\ inbuf = <<>>
          /\ UNCHANGED <<clock, retried, sizeVars, lineVars, askVars, inputVars>>
      BY <1>1 DEF ReadNoHeader
    <2>2. PICK s \in {-1, 0} : (s = -1 => link = "down") /\ ReturnStatus(s)
      <3>1. PICK s \in (IF link = "up" THEN {0} ELSE {0, -1}) : ReturnStatus(s)
        BY <1>1 DEF ReadNoHeader
      <3>2. link = "up" \/ link = "down"
        BY DEF SInv, Inv, TypeOK
      <3>. QED  BY <3>1, <3>2
    <2>3. mode \in {"handshake", "open"}
      BY <2>1 DEF SInv, Inv, TypeOK, ControlOK
    <2>. QED  BY <2>1, <2>2, <2>3, ReturnStatusMeans
  <1>2. CASE ReadPayloadShort
    <2>1. /\ pc = "payload" /\ inbuf = <<>> /\ ReturnStatus(-1)
          /\ UNCHANGED <<clock, retried, sizeVars, lineVars, askVars, inputVars>>
      BY <1>2 DEF ReadPayloadShort, SInv, Rest, WireOK
    <2>2. mode \in {"handshake", "open"} /\ header \in Byte /\ wire \in Seq(Message)
      BY <2>1 DEF SInv, Inv, TypeOK, ControlOK, Message
    <2>3. ASSUME link = "up"
          PROVE  FALSE
      <3>1. Carries(<<header>>, wire, Unconsumed) /\ <<header>> \in Seq(Byte)
        <4>1. Stream = <<header>> \o <<>> /\ <<header>> \in Seq(Byte)
          BY <2>1, <2>2 DEF Stream
        <4>2. Stream = <<header>>
          BY <4>1, Concatenations
        <4>. QED  BY <2>3, <4>1, <4>2 DEF SInv, Rest, WireOK
      <3>2. Unconsumed \in Seq(Input)
        BY <2>3, InputsLeft DEF SInv, Inv, Rest, WireOK
      <3>3. <<header>> # <<>> /\ Head(<<header>>) = header /\ Tail(<<header>>) = <<>>
        BY OneElement
      <3>4. PICK m \in Message, x \in Seq(Input), c \in Seq(Byte), r \in Seq(Input) :
              /\ Means(m, x) /\ <<header>> = m \o c /\ Unconsumed = x \o r
              /\ Carries(c, wire, r)
        BY <2>2, <3>1, <3>2, <3>3, CarriesFirst
      <3>5. /\ header = m[1] /\ <<>> = Tail(m) \o c /\ Tail(m) \in Seq(Byte)
            /\ Len(Tail(m)) = Len(m) - 1 /\ Len(m) \in Nat
        BY <3>3, <3>4, MessageFirst
      <3>6. Len(m) = 1 + incoming_payload_lengths[header]
        BY <3>4, <3>5, MeaningsAreWhole DEF Whole
      <3>7. 0 < incoming_payload_lengths[header]
            /\ incoming_payload_lengths[header] \in Nat
        BY <2>1, <2>2, LengthsFit DEF SInv, Inv, PayloadFits, Rest, WireOK
      <3>8. Len(<<>>) >= Len(Tail(m))
        BY <3>4, <3>5, BytesBehind
      <3>. QED  BY <3>5, <3>6, <3>7, <3>8
    <2>4. link = "down"
      BY <2>3 DEF SInv, Inv, TypeOK
    <2>. QED  BY <2>1, <2>2, <2>4, ReturnStatusMeans
  <1>. QED  BY <1>1, <1>2, ReadHeaderMeans, ReadPayloadMeans DEF Reading

-----------------------------------------------------------------------------
(* The other steps of the host                                              *)

LEMMA OpeningMeans ==
    ASSUME SInv, OpenPlatformFails \/ OpenAsks
    PROVE  Rest' /\ SessionStep
  <1>. USE DEF openVars, sizeVars, readVars, lineVars, inputVars, eventVars
  <1>1. /\ mode = "new" /\ pc = "idle" /\ cause = "none" /\ got = 0 /\ ~retried
        /\ need = Facts /\ clock = 0 /\ \A f \in Facts : written[f] = 0
    BY DEF OpenPlatformFails, OpenAsks, SInv, Inv, Rest, ControlOK,
           DescriptorOwned, IdentityOK, RetryOK
  <1>2. CASE OpenPlatformFails
    <2>1. /\ mode' = "failed" /\ cause' = "platform"
          /\ UNCHANGED <<pc, got, sizeVars, lineVars, pressed, eventVars>>
      BY <1>2 DEF OpenPlatformFails
    <2>2. GivesUpOnlyAfterRetry'
      BY <2>1 DEF GivesUpOnlyAfterRetry
    <2>. QED  BY <1>1, <2>1, <2>2, SessionEnds
  <1>3. CASE Fail("write") /\ OpenAsks
    <2>1. /\ mode' = "failed" /\ cause' = "write" /\ pc' = "idle"
          /\ UNCHANGED <<got, sizeVars, lineVars, pressed, eventVars>>
      BY <1>3 DEF OpenAsks, Fail
    <2>2. GivesUpOnlyAfterRetry'
      BY <2>1 DEF GivesUpOnlyAfterRetry
    <2>. QED  BY <1>1, <2>1, <2>2, SessionEnds
  <1>4. CASE OpenAsks /\ QueriesWritten /\ mode' = "handshake" /\ pc' = "top"
             /\ UNCHANGED cause
    <2>1. UNCHANGED <<clock, retried, sizeVars, readVars, lineVars, inputVars,
                      eventVars>>
      BY <1>4 DEF OpenAsks
    <2>2. Consumed' = Consumed /\ Unconsumed' = Unconsumed /\ Stream' = Stream
      BY <1>1, <1>4, <2>1 DEF Consumed, Unconsumed, Stream
    <2>3. WireOK'
      BY <1>4, <2>1, <2>2 DEF WireOK, SInv, Rest
    <2>4. IdentityOK'
      BY <1>1, <1>4, <2>1 DEF IdentityOK, SInv, Rest
    <2>5. RetryOK'
      <3>1. \A f \in Facts : written'[f] = 1
        BY <1>1, <1>4 DEF QueriesWritten, Ask
      <3>. QED
        BY <1>1, <1>4, <2>1, <3>1, TimingAssumption DEF RetryOK
    <2>6. ErrorsOK' /\ GivesUpOnlyAfterRetry'
      BY <1>1, <1>4, <2>1
         DEF ErrorsOK, NegativeMeansDeviceError, HealthyDeviceIsRead,
             GivesUpOnlyAfterRetry, SInv, Rest
    <2>7. SessionStep
      <3>1. UNCHANGED <<Phase, Size, delivered>>
        BY <1>1, <1>4, <2>1 DEF Phase, Size
      <3>. QED  BY <2>2, <3>1, SessionSteps
    <2>. QED  BY <2>3, <2>4, <2>5, <2>6, <2>7 DEF Rest
  <1>. QED  BY <1>2, <1>3, <1>4 DEF OpenAsks

LEMMA HandshakeMeans ==
    ASSUME SInv, Handshake
    PROVE  Rest' /\ SessionStep
  <1>. USE DEF openVars, sizeVars, readVars, lineVars, askVars, inputVars, eventVars
  <1>1. CASE OpenAsks
    BY <1>1, OpeningMeans
  <1>2. ASSUME pc \in {"top", "wait"}
        PROVE  /\ mode = "handshake" /\ cause = "none" /\ got = 0
               /\ Stream = inbuf /\ clock \in Nat
    BY <1>2 DEF SInv, Inv, TypeOK, ControlOK, DescriptorOwned, Stream
  <1>3. CASE HandshakeDone
    <2>1. /\ pc = "top" /\ need = {} /\ mode' = "open" /\ pc' = "idle"
          /\ UNCHANGED <<openVars, sizeVars, readVars, lineVars, askVars, chatter,
                         pressed, eventVars>>
      BY <1>3 DEF HandshakeDone
    <2>2. mode = "handshake" /\ cause = "none" /\ cols = Cols /\ rows = Rows
      BY <1>2, <2>1 DEF SInv, Rest, IdentityOK
    <2>3. Consumed' = Consumed /\ Unconsumed' = Unconsumed /\ Stream' = Stream
      BY <2>1 DEF Consumed, Unconsumed, Stream
    <2>4. WireOK'
      BY <2>1, <2>3 DEF WireOK, SInv, Rest
    <2>5. IdentityOK' /\ RetryOK'
      BY <2>1, <2>2 DEF IdentityOK, RetryOK, SInv, Rest
    <2>6. ErrorsOK' /\ GivesUpOnlyAfterRetry'
      BY <2>1, <2>2
         DEF ErrorsOK, NegativeMeansDeviceError, HealthyDeviceIsRead,
             GivesUpOnlyAfterRetry, SInv, Rest
    <2>7. SessionStep
      <3>1. /\ Phase = "opening" /\ Phase' = "open" /\ Size = <<Cols, Rows>>
            /\ UNCHANGED <<Size, delivered>>
        BY <2>1, <2>2 DEF Phase, Size
      <3>. QED  BY <2>3, <3>1, SessionSteps
    <2>. QED  BY <2>4, <2>5, <2>6, <2>7 DEF Rest
  <1>4. CASE HandshakeTimesOut
    <2>1. /\ pc = "top" /\ need # {} /\ clock >= Timeout
          /\ mode' = "failed" /\ cause' = "timeout" /\ pc' = "idle"
          /\ UNCHANGED <<got, retried, sizeVars, lineVars, askVars, inputVars,
                         eventVars>>
      BY <1>4 DEF HandshakeTimesOut, Expired, Fail
    <2>2. GivesUpOnlyAfterRetry'
      <3>1. link = "up" /\ ~preempted => retried
        <4>1. clock \in Nat /\ RetryAt < Timeout /\ RetryAt \in Nat /\ Timeout \in Nat
          BY <1>2, <2>1, TimingAssumption, RetryAssumption
        <4>. QED  BY <1>2, <2>1, <4>1 DEF SInv, Rest, RetryOK
      <3>2. retried => \A f \in need : written[f] = 2
        BY <1>2, <2>1 DEF SInv, Rest, RetryOK
      <3>. QED  BY <2>1, <3>1, <3>2 DEF GivesUpOnlyAfterRetry
    <2>. QED  BY <1>2, <2>1, <2>2, SessionEnds
  <1>5. CASE WaitFails
    <2>1. /\ pc = "wait" /\ link = "down"
          /\ mode' = "failed" /\ cause' = "wait" /\ pc' = "idle"
          /\ UNCHANGED <<got, sizeVars, lineVars, pressed, eventVars>>
      BY <1>5 DEF WaitFails, Fail
    <2>2. GivesUpOnlyAfterRetry'
      BY <2>1 DEF GivesUpOnlyAfterRetry
    <2>. QED  BY <1>2, <2>1, <2>2, SessionEnds
  <1>6. CASE HandshakeWaits \/ WaitReady \/ WaitTimesOut
    <2>1. /\ pc \in {"top", "wait"} /\ pc' \in {"top", "wait", "header"}
          /\ UNCHANGED <<mode, clock, openVars, sizeVars, readVars, lineVars,
                         askVars, inputVars, eventVars>>
      BY <1>6 DEF HandshakeWaits, WaitReady, WaitTimesOut
    <2>2. Stream' = Stream
      BY <2>1 DEF Stream
    <2>. QED  BY <1>2, <2>1, <2>2, SameSession
  <1>7. CASE HandshakeRetries
    <2>1. /\ pc = "top" /\ ~retried
          /\ UNCHANGED <<clock, sizeVars, readVars, lineVars, inputVars, eventVars>>
      BY <1>7 DEF HandshakeRetries, RetryDue
    <2>2. CASE QueriesWritten /\ retried' = TRUE /\ pc' = "wait"
               /\ UNCHANGED <<mode, cause, fd>>
      <3>1. Consumed' = Consumed /\ Unconsumed' = Unconsumed /\ Stream' = Stream
        BY <2>1, <2>2 DEF Consumed, Unconsumed, Stream
      <3>2. WireOK'
        BY <2>1, <2>2, <3>1 DEF WireOK, SInv, Rest
      <3>3. IdentityOK'
        BY <2>1, <2>2 DEF IdentityOK, SInv, Rest
      <3>4. RetryOK'
        <4>1. need \in SUBSET Facts /\ \A f \in Facts : written[f] = 1
          BY <1>2, <2>1 DEF SInv, Inv, TypeOK, Rest, RetryOK
        <4>2. \A f \in need : written'[f] = 2
          BY <2>2, <4>1 DEF QueriesWritten, Ask
        <4>. QED  BY <1>2, <2>1, <2>2, <4>2 DEF RetryOK
      <3>5. ErrorsOK' /\ GivesUpOnlyAfterRetry'
        BY <1>2, <2>1, <2>2
           DEF ErrorsOK, NegativeMeansDeviceError, HealthyDeviceIsRead,
               GivesUpOnlyAfterRetry, SInv, Rest
      <3>6. SessionStep
        <4>1. UNCHANGED <<Phase, Size, delivered>>
          BY <2>1, <2>2 DEF Phase, Size
        <4>. QED  BY <3>1, <4>1, SessionSteps
      <3>. QED  BY <3>2, <3>3, <3>4, <3>5, <3>6 DEF Rest
    <2>3. CASE Fail("write")
      <3>1. mode' = "failed" /\ cause' = "write" /\ pc' = "idle"
        BY <2>3 DEF Fail
      <3>2. GivesUpOnlyAfterRetry'
        BY <3>1 DEF GivesUpOnlyAfterRetry
      <3>. QED  BY <1>2, <2>1, <3>1, <3>2, SessionEnds
    <2>. QED  BY <1>7, <2>2, <2>3 DEF HandshakeRetries
  <1>. QED  BY <1>1, <1>3, <1>4, <1>5, <1>6, <1>7 DEF Handshake

(* The application asks for an event, or closes the device. *)
LEMMA ApplicationMeans ==
    ASSUME SInv, NextEvent \/ Close
    PROVE  Rest' /\ SessionStep
  <1>. USE DEF openVars, sizeVars, readVars, lineVars, askVars, inputVars, eventVars
  <1>1. mode = "open" /\ pc = "idle" /\ cause = "none" /\ got = 0
    BY DEF NextEvent, Close, SInv, Inv, ControlOK, DescriptorOwned
  <1>2. CASE NextEvent
    <2>1. /\ pc' = "header"
          /\ UNCHANGED <<mode, clock, openVars, sizeVars, readVars, lineVars,
                         askVars, inputVars, eventVars>>
      BY <1>2 DEF NextEvent
    <2>2. Stream' = Stream
      BY <1>1, <2>1 DEF Stream
    <2>. QED  BY <1>1, <2>1, <2>2, SameSession
  <1>3. CASE Close
    <2>1. /\ mode' = "closed"
          /\ UNCHANGED <<pc, cause, got, sizeVars, lineVars, pressed, eventVars>>
      BY <1>3 DEF Close
    <2>2. GivesUpOnlyAfterRetry'
      BY <1>1, <2>1 DEF GivesUpOnlyAfterRetry
    <2>. QED  BY <1>1, <2>1, <2>2, SessionEnds
  <1>. QED  BY <1>2, <1>3

-----------------------------------------------------------------------------
(* The device, the line and time                                            *)

(* What they leave alone is nearly everything.                              *)
LEMMA HostUntouched ==
    ASSUME SInv, fd = "open", UNCHANGED hostVars, UNCHANGED <<written, preempted>>,
           clock' = clock, link' \in {link, "down"}
    PROVE  /\ IdentityOK' /\ RetryOK' /\ ErrorsOK' /\ GivesUpOnlyAfterRetry'
           /\ UNCHANGED <<Phase, Size, delivered, Consumed>>
  <1>. USE DEF hostVars, openVars, sizeVars, readVars, eventVars
  <1>1. mode \in {"handshake", "open"} /\ cause = "none"
    BY DEF SInv, Inv, DescriptorOwned
  <1>2. IdentityOK' /\ RetryOK'
    BY <1>1 DEF SInv, Rest, IdentityOK, RetryOK
  <1>3. ErrorsOK' /\ GivesUpOnlyAfterRetry'
    BY <1>1 DEF SInv, Rest, ErrorsOK, NegativeMeansDeviceError,
         HealthyDeviceIsRead, GivesUpOnlyAfterRetry
  <1>4. UNCHANGED <<Phase, Size, delivered, Consumed>>
    BY DEF Phase, Size, Consumed
  <1>. QED  BY <1>2, <1>3, <1>4

(* The device sends a message. *)
LEMMA DeviceSends ==
    ASSUME SInv, fd = "open", link = "up", UNCHANGED hostVars,
           UNCHANGED <<written, preempted, clock, link, inbuf>>,
           NEW m, NEW x, Means(m, x), wire' = Append(wire, m),
           \/ x = <<>> /\ pressed' = pressed
           \/ \E i \in Input : x = <<i>> /\ pressed' = Append(pressed, i)
    PROVE  Rest' /\ SessionStep
  <1>. USE DEF hostVars, openVars, readVars
  <1>1. /\ IdentityOK' /\ RetryOK' /\ ErrorsOK' /\ GivesUpOnlyAfterRetry'
        /\ UNCHANGED <<Phase, Size, delivered, Consumed>>
    BY HostUntouched
  <1>2. /\ wire \in Seq(Message) /\ header \in Byte /\ inbuf \in Seq(Byte)
        /\ pressed \in Seq(Input)
        /\ Carries(Stream, wire, Unconsumed) /\ pc # "more" /\ got = 0
    BY DEF SInv, Inv, TypeOK, Message, Rest, WireOK
  <1>3. /\ Unconsumed \in Seq(Input) /\ Consumed \in 0..Len(pressed)
        /\ Unconsumed = SubSeq(pressed, Consumed + 1, Len(pressed))
    BY InputsLeft DEF SInv, Inv, Rest, WireOK
  <1>4. Stream \in Seq(Byte) /\ Stream' = Stream
    <2>1. <<header>> \in Seq(Byte)
      BY <1>2
    <2>2. <<header>> \o inbuf \in Seq(Byte)
      BY <1>2, <2>1, Concatenations
    <2>. QED  BY <1>2, <2>2 DEF Stream
  <1>5. m \in Message /\ x \in Seq(Input)
    BY MeaningsAreWhole
  <1>6. Carries(Stream, wire \o <<m>>, Unconsumed \o x)
    BY <1>2, <1>3, <1>4, CarriesOneMore
  <1>7. wire' = wire \o <<m>>
    BY <1>2, <1>5, AppendIsConcat
  <1>8. Unconsumed' = SubSeq(pressed', Consumed + 1, Len(pressed'))
    BY <1>1 DEF Unconsumed, Consumed
  <1>9. CASE x = <<>> /\ pressed' = pressed
    <2>1. Unconsumed' = Unconsumed /\ Unconsumed \o x = Unconsumed
      BY <1>3, <1>8, <1>9, Concatenations
    <2>2. WireOK'
      BY <1>1, <1>2, <1>3, <1>4, <1>6, <1>7, <1>9, <2>1 DEF WireOK
    <2>3. SessionStep
      BY <1>1, <2>1, SessionSteps
    <2>. QED  BY <1>1, <2>2, <2>3 DEF Rest
  <1>10. ASSUME NEW i \in Input, x = <<i>>, pressed' = Append(pressed, i)
         PROVE  Rest' /\ SessionStep
    <2>1. Unconsumed' = Unconsumed \o <<i>>
      BY <1>2, <1>3, <1>8, <1>10, LeftGrows
    <2>2. Unconsumed' = Append(Unconsumed, i)
      BY <1>3, <2>1, AppendIsConcat
    <2>3. Consumed' <= Len(pressed')
      <3>1. Len(pressed') = Len(pressed) + 1 /\ Len(pressed) \in Nat
        BY <1>2, <1>10, AppendProperties, LenProperties
      <3>. QED  BY <1>1, <1>3, <3>1
    <2>4. WireOK'
      BY <1>1, <1>2, <1>4, <1>6, <1>7, <1>10, <2>1, <2>3 DEF WireOK
    <2>5. SessionStep
      BY <1>1, <2>2, SessionSteps
    <2>. QED  BY <1>1, <2>4, <2>5 DEF Rest
  <1>. QED  BY <1>9, <1>10

LEMMA DeviceMeans ==
    ASSUME SInv, Device
    PROVE  Rest' /\ SessionStep
  <1>. USE DEF askVars, inputVars, lineVars
  <1>1. CASE DeviceAnswers
    <2>1. /\ link = "up" /\ fd = "open" /\ asked # <<>>
          /\ wire' = Append(wire, Answer(Head(asked)))
          /\ UNCHANGED <<hostVars, clock, link, inbuf, written, inputVars>>
      BY <1>1 DEF DeviceAnswers
    <2>2. Head(asked) \in Facts
      BY <2>1, HeadTailProperties DEF SInv, Inv, TypeOK
    <2>3. Means(Answer(Head(asked)), <<>>)
      BY <2>2 DEF Means
    <2>. QED  BY <2>1, <2>3, DeviceSends
  <1>2. CASE DeviceIgnores
    <2>1. /\ fd = "open" /\ UNCHANGED <<hostVars, clock, lineVars, written, inputVars>>
      BY <1>2 DEF DeviceIgnores
    <2>2. /\ got = 0 /\ pc # "more" /\ Stream' = Stream
      BY <2>1 DEF SInv, Rest, WireOK, Stream, hostVars, readVars
    <2>. QED
      BY <2>1, <2>2, SameSession DEF hostVars, openVars, readVars, eventVars
  <1>3. ASSUME NEW i \in Input, DeviceInput(i)
        PROVE  Rest' /\ SessionStep
    <2>1. /\ link = "up" /\ fd = "open" /\ pressed' = Append(pressed, i)
          /\ wire' = Append(wire, EncodeInput(i))
          /\ UNCHANGED <<hostVars, clock, link, inbuf, askVars, preempted, chatter>>
      BY <1>3 DEF DeviceInput
    <2>2. Means(EncodeInput(i), <<i>>)
      BY DEF Means
    <2>. QED  BY <2>1, <2>2, DeviceSends
  <1>4. ASSUME NEW m \in Chatter, DeviceChatters(m)
        PROVE  Rest' /\ SessionStep
    <2>1. /\ link = "up" /\ fd = "open" /\ wire' = Append(wire, m)
          /\ UNCHANGED <<hostVars, clock, link, inbuf, askVars, preempted, pressed>>
      BY <1>4 DEF DeviceChatters
    <2>2. Means(m, <<>>)
      BY DEF Means
    <2>. QED  BY <2>1, <2>2, DeviceSends
  <1>5. CASE Unplug
    <2>1. /\ fd = "open" /\ link' = "down" /\ wire' = <<>> /\ inbuf' = <<>>
          /\ UNCHANGED <<hostVars, clock, askVars, inputVars>>
      BY <1>5 DEF Unplug
    <2>2. /\ IdentityOK' /\ RetryOK' /\ ErrorsOK' /\ GivesUpOnlyAfterRetry'
          /\ UNCHANGED <<Phase, Size, delivered, Consumed>>
      BY <2>1, HostUntouched
    <2>3. WireOK'
      BY <2>1, <2>2 DEF SInv, Rest, WireOK, hostVars, readVars
    <2>4. Unconsumed' = <<>>
      BY <2>1 DEF Unconsumed
    <2>5. SessionStep
      BY <2>2, <2>4, SessionSteps
    <2>. QED  BY <2>2, <2>3, <2>5 DEF Rest
  <1>. QED  BY <1>1, <1>2, <1>3, <1>4, <1>5 DEF Device

(* The line delivers a whole message. *)
LEMMA ArriveMeans ==
    ASSUME SInv, ~Fragmenting, Arrive
    PROVE  Rest' /\ SessionStep
  <1>. USE DEF hostVars, openVars, readVars
  <1>. DEFINE m == Head(wire)
  <1>1. /\ fd = "open" /\ wire # <<>>
        /\ inbuf' = inbuf \o SubSeq(m, 1, Len(m))
        /\ wire' = <<>> \o Tail(wire)
        /\ UNCHANGED <<hostVars, clock, link, askVars, inputVars>>
    BY DEF Arrive
  <1>2. /\ wire \in Seq(Message) /\ header \in Byte /\ inbuf \in Seq(Byte)
        /\ pc # "more" /\ got = 0 /\ link = "up"
        /\ Carries(Stream, wire, Unconsumed)
    BY <1>1 DEF SInv, Inv, TypeOK, Message, Rest, WireOK
  <1>3. /\ m \in Message /\ m \in Seq(Byte) /\ Tail(wire) \in Seq(Message)
        /\ wire = <<m>> \o Tail(wire)
    <2>1. m \in Message /\ Tail(wire) \in Seq(Message)
      BY <1>1, <1>2, HeadTailProperties
    <2>2. wire = <<m>> \o Tail(wire)
      BY <1>1, <1>2, FirstIsHead
    <2>. QED  BY <2>1, <2>2 DEF Message
  <1>. HIDE DEF m
  <1>4. inbuf' = inbuf \o m /\ wire' = Tail(wire)
    <2>1. SubSeq(m, 1, Len(m)) = m
      BY <1>3, SubSeqFull
    <2>2. <<>> \o Tail(wire) = Tail(wire)
      BY <1>3, Concatenations
    <2>. QED  BY <1>1, <2>1, <2>2
  <1>5. Unconsumed \in Seq(Input) /\ Unconsumed' = Unconsumed
    <2>1. Unconsumed \in Seq(Input)
      BY <1>2, InputsLeft DEF SInv, Inv, Rest, WireOK
    <2>. QED  BY <1>1, <2>1 DEF Unconsumed, eventVars, inputVars
  <1>6. Stream \in Seq(Byte) /\ Stream' = Stream \o m
    <2>1. <<header>> \in Seq(Byte)
      BY <1>2
    <2>2. /\ <<header>> \o inbuf \in Seq(Byte)
          /\ (<<header>> \o inbuf) \o m = <<header>> \o (inbuf \o m)
      BY <1>2, <1>3, <2>1, Concatenations, BytesAssociate
    <2>. QED  BY <1>1, <1>2, <1>4, <2>2 DEF Stream
  <1>7. Carries(Stream', wire', Unconsumed')
    BY <1>2, <1>3, <1>4, <1>5, <1>6, CarriesArrived
  <1>8. /\ IdentityOK' /\ RetryOK' /\ ErrorsOK' /\ GivesUpOnlyAfterRetry'
        /\ UNCHANGED <<Phase, Size, delivered, Consumed>>
    BY <1>1, HostUntouched DEF askVars, inputVars
  <1>9. WireOK'
    BY <1>1, <1>2, <1>7, <1>8 DEF SInv, Rest, WireOK, inputVars
  <1>10. SessionStep
    BY <1>5, <1>8, SessionSteps
  <1>. QED  BY <1>8, <1>9, <1>10 DEF Rest

(* Time passes: no later than the end of the wait the host is blocked in,   *)
(* if it is not kept off the processor.                                     *)
LEMMA TickMeans ==
    ASSUME SInv, Tick
    PROVE  Rest' /\ SessionStep
  <1>. USE DEF hostVars, openVars, sizeVars, readVars, eventVars, lineVars, askVars
  <1>1. /\ fd = "open" /\ clock' = clock + 1
        /\ UNCHANGED <<hostVars, lineVars, askVars, chatter, pressed>>
    BY DEF Tick
  <1>2. /\ mode \in {"handshake", "open"} /\ cause = "none"
        /\ pc # "more" /\ clock \in Nat /\ wake \in Nat
        /\ preempted \in BOOLEAN /\ link \in {"up", "down"}
    BY <1>1 DEF SInv, Inv, TypeOK, DescriptorOwned, Rest, WireOK
  <1>3. ASSUME mode = "handshake", link = "up", ~preempted', ~retried
        PROVE  clock' <= RetryAt
    <2>1. pc = "wait" /\ clock < wake
      BY <1>2, <1>3 DEF Tick
    <2>2. wake <= RetryAt
      BY <1>3, <2>1 DEF SInv, Inv, WaitsEndInTime
    <2>. QED  BY <1>1, <1>2, <2>1, <2>2, TimingAssumption
  <1>4. RetryOK'
    BY <1>1, <1>2, <1>3 DEF SInv, Rest, RetryOK
  <1>5. UNCHANGED <<Phase, Size, delivered, Consumed, Unconsumed, Stream>>
    BY <1>1 DEF Phase, Size, Consumed, Unconsumed, Stream
  <1>6. WireOK' /\ IdentityOK'
    BY <1>1, <1>5 DEF SInv, Rest, WireOK, IdentityOK
  <1>7. ErrorsOK' /\ GivesUpOnlyAfterRetry'
    BY <1>1, <1>2 DEF SInv, Rest, ErrorsOK, NegativeMeansDeviceError,
         HealthyDeviceIsRead, GivesUpOnlyAfterRetry
  <1>8. SessionStep
    BY <1>5, SessionSteps
  <1>. QED  BY <1>4, <1>6, <1>7, <1>8 DEF Rest

-----------------------------------------------------------------------------
(* The theorems                                                             *)

LEMMA InitMeans == Init => SInv /\ Session!Init
  <1>. SUFFICES ASSUME Init PROVE SInv /\ Session!Init
    OBVIOUS
  <1>1. Inv
    BY InitEstablishesInv
  <1>2. Len(delivered) = 0 /\ Len(pressed) = 0 /\ dropped = 0 /\ link = "up"
    BY EmptySeq DEF Init
  <1>3. Unconsumed = <<>> /\ Consumed = 0
    <2>1. Consumed = 0
      BY <1>2 DEF Consumed
    <2>2. Unconsumed = SubSeq(pressed, 1, 0)
      BY <1>2 DEF Unconsumed
    <2>3. SubSeq(pressed, 1, 0) = <<>>
      BY SubSeqEmpty
    <2>. QED  BY <2>1, <2>2, <2>3
  <1>4. WireOK
    <2>1. Stream = <<>> /\ wire = <<>>
      BY DEF Init, Stream
    <2>2. Carries(Stream, wire, Unconsumed)
      BY <1>3, <2>1, CarriesNothing
    <2>. QED  BY <1>2, <1>3, <2>2 DEF Init, WireOK
  <1>5. IdentityOK /\ RetryOK
    BY DEF Init, IdentityOK, RetryOK, Facts
  <1>6. ErrorsOK /\ GivesUpOnlyAfterRetry
    BY DEF Init, ErrorsOK, NegativeMeansDeviceError, HealthyDeviceIsRead,
           GivesUpOnlyAfterRetry
  <1>7. Session!Init
    BY <1>3 DEF Init, Session!Init
  <1>. QED  BY <1>1, <1>4, <1>5, <1>6, <1>7 DEF SInv, Rest

LEMMA StepMeans ==
    ASSUME ~Fragmenting, SInv, [Next]_vars
    PROVE  SInv' /\ SessionStep
  <1>1. Inv'
    BY StepPreservesInv DEF SInv
  <1>2. CASE UNCHANGED vars
    <2>. USE <1>2 DEF vars, openVars, sizeVars, readVars, lineVars, askVars,
                      inputVars, eventVars
    <2>1. Stream' = Stream
      BY DEF Stream
    <2>2. got = 0 /\ pc # "more"
      BY DEF SInv, Rest, WireOK
    <2>. QED  BY <1>1, <2>1, <2>2, SameSession DEF SInv
  <1>3. CASE Next
    <2>1. CASE Over
      BY <1>2, <2>1 DEF Over
    <2>2. CASE ~Over
      <3>1. Rest' /\ SessionStep
        BY <1>3, <2>2, OpeningMeans, HandshakeMeans, ApplicationMeans,
           ReadingMeans, DeviceMeans, ArriveMeans, TickMeans DEF Next
      <3>. QED  BY <1>1, <3>1 DEF SInv
    <2>. QED  BY <2>1, <2>2
  <1>. QED  BY <1>2, <1>3

(* As long as messages arrive whole, the host never loses its place in the  *)
(* stream and never takes for an answer what is not one.                    *)
THEOREM WholeMessagesInvariance ==
    ASSUME ~Fragmenting
    PROVE  Spec => []SInv
  <1>1. Init => SInv
    BY InitMeans
  <1>2. SInv /\ [Next]_vars => SInv'
    BY StepMeans
  <1>. QED  BY <1>1, <1>2, PTL DEF Spec

(* mext_open() succeeds only with the size and the name of the device it    *)
(* talks to, whatever was lost, late, repeated or mixed with inputs.        *)
THEOREM OpenedDeviceIsIdentified ==
    ASSUME ~Fragmenting
    PROVE  Spec => []IdentityIsTheDevices
  <1>1. SInv => IdentityIsTheDevices
    BY DEF SInv, Rest, IdentityOK, IdentityIsTheDevices
  <1>. QED  BY <1>1, WholeMessagesInvariance, PTL

(* The application sees a negative status only of a device that is gone.    *)
THEOREM NegativeStatusIsAnError ==
    ASSUME ~Fragmenting
    PROVE  Spec => []NegativeMeansDeviceError
  <1>1. SInv => NegativeMeansDeviceError
    BY DEF SInv, Rest, ErrorsOK
  <1>. QED  BY <1>1, WholeMessagesInvariance, PTL

(* Nothing a device that is there may send makes mext_open() fail in a read *)
(* or a wait.                                                               *)
THEOREM HealthyDeviceIsOpened ==
    ASSUME ~Fragmenting
    PROVE  Spec => []HealthyDeviceIsRead
  <1>1. SInv => HealthyDeviceIsRead
    BY DEF SInv, Rest, ErrorsOK
  <1>. QED  BY <1>1, WholeMessagesInvariance, PTL

(* For all deadlines and retry times, the retry has been made for every     *)
(* missing fact before the handshake times out.                             *)
THEOREM TimeoutFollowsRetry ==
    ASSUME ~Fragmenting
    PROVE  Spec => []GivesUpOnlyAfterRetry
  <1>1. SInv => GivesUpOnlyAfterRetry
    BY DEF SInv, Rest
  <1>. QED  BY <1>1, WholeMessagesInvariance, PTL

(* The protocol implements the session the application is promised: inputs  *)
(* are delivered in order, once and unchanged, none is invented, and none   *)
(* is lost but those of the handshake and of an unplugged device.           *)
THEOREM MextRefinesSession ==
    ASSUME ~Fragmenting
    PROVE  Spec => MextImplementsSession
  <1>1. Init => Session!Init
    BY InitMeans
  <1>2. SInv /\ [Next]_vars => [Session!Next]_(Session!vars)
    BY StepMeans DEF SessionStep
  <1>. QED
    BY <1>1, <1>2, WholeMessagesInvariance, PTL
       DEF Spec, MextImplementsSession, Session!Spec

=============================================================================
