------------------------------- MODULE Mext --------------------------------
(***************************************************************************)
(* The mext protocol of libmonome (src/proto/mext.c) over the POSIX serial *)
(* line (src/platform/posix.c, linux.c): opening a device with a handshake *)
(* that asks for three facts, gives up after a deadline and repeats the    *)
(* missing questions once; reading messages off a byte stream; handing     *)
(* input events to the application.                                        *)
(*                                                                         *)
(* Three parties interleave.                                               *)
(*   The host runs mext_open(), then mext_next_event() whenever the        *)
(*   application asks, then mext_close().  pc says which system call or    *)
(*   which line it is about to execute.                                    *)
(*   The device (external) answers questions in its own time, may ignore   *)
(*   them, reports inputs, and may be unplugged at any moment.             *)
(*   The line (external) delivers the device's bytes in order, whole       *)
(*   messages at a time or, if Fragmenting, in arbitrary pieces; and the   *)
(*   clock advances while all this happens.                                *)
(*                                                                         *)
(* The device is opened with rotation 0, which maps coordinates to         *)
(* themselves; module Rotation is about the other three.                   *)
(***************************************************************************)
EXTENDS MextWire, FiniteSets, FiniteSetsExt, SequencesExt

CONSTANTS
    Timeout,       \* MONOME_MEXT_HANDSHAKE_TIMEOUT_MS, 1000
    RetryAt,       \* MEXT_HANDSHAKE_RETRY_MS, 250
    Slice,         \* MEXT_HANDSHAKE_WAIT_SLICE_MS, 25
    ReadTimeout,   \* READ_TIMEOUT of posix.c, 25
    Fragmenting,   \* TRUE if a message may reach the host in pieces
    Cols, Rows,    \* the grid size of the hardware
    Input,         \* inputs the user may make
    Chatter,       \* messages without an input the device may send unasked
    MaxUnasked,    \* bound: inputs and unasked messages in a behaviour
    MaxWire,       \* bound: messages on the line at once; as they arrive
                   \* in order, a later one may as well be sent later
    MaxClock       \* bound: the clock only passes it to end a wait

ASSUME TimingAssumption ==
    /\ Timeout \in Nat \ {0} /\ RetryAt \in Nat \ {0}
    /\ Slice \in Nat \ {0} /\ ReadTimeout \in Nat \ {0}
    /\ MaxClock \in Nat

ASSUME RetryAssumption == RetryAt < Timeout

ASSUME DeviceAssumption ==
    /\ Cols \in Byte /\ Rows \in Byte
    /\ Chatter \subseteq Seq(Byte) \ {<<>>}
    /\ MaxUnasked \in Nat /\ MaxWire \in Nat
    /\ Fragmenting \in BOOLEAN

(* Keys, encoders and sensors have numbers of one byte, an encoder turns by *)
(* a signed byte and each axis of a tilt sensor reads a signed word.        *)
ASSUME InputAssumption ==
    Input \subseteq
             [type : {"BUTTON_DOWN", "BUTTON_UP"}, args : Byte \X Byte]
        \cup [type : {"ENCODER_DELTA"}, args : Byte \X SignedByte]
        \cup [type : {"ENCODER_KEY_DOWN", "ENCODER_KEY_UP"}, args : Byte \X {0}]
        \cup [type : {"TILT"},
              args : Byte \X Word \X Word \X Word]

(* A message nobody asked for is as long as the table says, and neither an  *)
(* answer nor an input.                                                     *)
ASSUME ChatterAssumption ==
    \A m \in Chatter :
        /\ Len(m) = 1 + incoming_payload_lengths[m[1]]
        /\ Addr(m[1]) = SS_SYSTEM =>
              Cmd(m[1]) \notin {CMD_SYSTEM_QUERY_RESPONSE, CMD_SYSTEM_ID,
                               CMD_SYSTEM_GRIDSZ}
        /\ Addr(m[1]) = SS_ENCODER =>
              Cmd(m[1]) \notin {CMD_ENCODER_DELTA, CMD_ENCODER_SWITCH_UP,
                               CMD_ENCODER_SWITCH_DOWN}
        /\ Addr(m[1]) = SS_TILT => Cmd(m[1]) # CMD_TILT
        /\ Addr(m[1]) # SS_KEY_GRID

(* The three facts, in the order in which mext_query_pending() asks. *)
Facts == {"QUERY", "ID", "GRID_SIZE"}
Rank == [f \in Facts |-> CASE f = "QUERY" -> 1 [] f = "ID" -> 2
                           [] f = "GRID_SIZE" -> 3]

VARIABLES
    mode,       \* "new", "handshake", "open", "closed", "failed"
    pc,         \* where the host is, see Pcs
    cause,      \* why mext_open() failed
    fd,         \* the file descriptor: "none", "open", "closed"
    need,       \* need_responses: the facts still missing
    retried,    \* mext_open()'s local of that name
    wake,       \* when the wait the host is blocked in times out
    cols, rows, \* what the library believes the grid size to be
    friendly,   \* "devmap" or "device": where the friendly name came from
    header,     \* msg.header of the message being read
    got,        \* payload bytes of it read so far
    payload,    \* msg.payload
    status,     \* what mext_next_event() returned last
    clock,      \* time; see StartWait
    link,       \* "up" or "down" (unplugged)
    wire,       \* messages on their way to the host
    inbuf,      \* bytes in the tty's input buffer
    asked,      \* questions the device has not dealt with, oldest first
    written,    \* how often each question was written (history)
    preempted,  \* the host was kept off the processor during the
                \* handshake (history)
    chatter,    \* unasked messages sent so far (history)
    pressed,    \* inputs made so far (history)
    dropped,    \* how many of them mext_open() threw away (history)
    delivered   \* events handed to the application (history)

openVars == <<cause, fd, retried>>
sizeVars == <<need, cols, rows, friendly>>
readVars == <<header, got, payload>>
lineVars == <<link, wire, inbuf>>
askVars  == <<asked, written>>
inputVars == <<preempted, chatter, pressed>>
eventVars == <<status, dropped, delivered>>

vars == <<mode, pc, wake, clock, openVars, sizeVars, readVars, lineVars,
          askVars, inputVars, eventVars>>

Pcs == {"top",      \* the head of mext_open()'s loop
        "wait",     \* blocked in the loop's wait_for_input()
        "header",   \* about to read a header byte
        "payload",  \* about to read a payload, no byte of it read yet
        "more",     \* blocked in platform_read()'s wait for more payload
        "idle"}     \* outside the library

Causes == {"none", "platform", "write", "timeout", "wait", "read"}

TypeOK ==
    /\ mode \in {"new", "handshake", "open", "closed", "failed"}
    /\ pc \in Pcs
    /\ cause \in Causes
    /\ fd \in {"none", "open", "closed"}
    /\ need \in SUBSET Facts
    /\ retried \in BOOLEAN
    /\ wake \in Nat
    /\ cols \in Byte /\ rows \in Byte
    /\ friendly \in {"devmap", "device"}
    /\ header \in Byte
    /\ got \in Nat
    /\ payload \in [1..PayloadSize -> Byte]
    /\ status \in {-1, 0, 1}
    /\ clock \in Nat
    /\ link \in {"up", "down"}
    /\ wire \in Seq(Seq(Byte) \ {<<>>})
    /\ inbuf \in Seq(Byte)
    /\ asked \in Seq(Facts)
    /\ written \in [Facts -> Nat]
    /\ preempted \in BOOLEAN
    /\ chatter \in Nat
    /\ pressed \in Seq(Input)
    /\ dropped \in Nat
    /\ delivered \in Seq(Event)

NoPayload == [i \in 1..PayloadSize |-> 0]

Init ==
    /\ mode = "new" /\ pc = "idle" /\ cause = "none" /\ fd = "none"
    /\ need = Facts /\ retried = FALSE
    /\ wake = 0 /\ clock = 0
    /\ cols = 0 /\ rows = 0 /\ friendly = "devmap"
    /\ header = 0 /\ got = 0 /\ payload = NoPayload
    /\ status = 0
    /\ link = "up" /\ wire = <<>> /\ inbuf = <<>>
    /\ asked = <<>> /\ written = [f \in Facts |-> 0]
    /\ preempted = FALSE /\ chatter = 0 /\ pressed = <<>>
    /\ dropped = 0 /\ delivered = <<>>

-----------------------------------------------------------------------------
(* Helpers of the host.                                                     *)

(* Waits are relative.  During the handshake the clock counts from the      *)
(* start of mext_open(); afterwards only the length of a wait matters and   *)
(* the clock starts again with each of them.                                *)
StartWait(ms) ==
    IF mode = "open" THEN /\ clock' = 0
                          /\ wake' = ms
                     ELSE /\ wake' = clock + ms
                          /\ UNCHANGED clock

(* Seeded fault: the descriptor stays open. *)
FaultyFail(why) ==
    /\ mode' = "failed" /\ pc' = "idle" /\ cause' = why
    /\ UNCHANGED fd

(* err_close: the descriptor is closed and mext_open() returns -1. *)
Fail(why) ==
    /\ mode' = "failed" /\ pc' = "idle" /\ cause' = why
    /\ fd' = "closed"

(* The questions in set, in the order in which they are written. *)
Questions(set) ==
    LET If(f) == IF f \in set THEN <<f>> ELSE <<>>
    IN If("QUERY") \o If("ID") \o If("GRID_SIZE")

(* The questions in set are on their way to the device. *)
Ask(set) ==
    /\ asked' = asked \o Questions(set)
    /\ written' = [f \in Facts |-> written[f] + (IF f \in set THEN 1 ELSE 0)]

(* mext_query_pending() asks for every missing fact in turn and stops at    *)
(* the first write that fails; what it wrote before that is on the line.    *)
(* Seeded fault: the retry repeats all questions. *)
FaultyQueriesWritten == Ask(Facts)
QueriesWritten == Ask(need)
QueryFailed ==
    \E f \in need : Ask({g \in need : Rank[g] < Rank[f]})

(* Seeded fault: the slice is not cut at the deadline. *)
FaultyWaitMs(now, hasRetried) ==
    Min({Slice} \cup (IF ~hasRetried /\ RetryAt > now THEN {RetryAt - now}
                                                      ELSE {}))

(* The length of the next wait of mext_open(), computed at time now. *)
WaitMs(now, hasRetried) ==
    Min({Slice, Timeout - now}
          \cup (IF ~hasRetried /\ RetryAt > now THEN {RetryAt - now} ELSE {}))

-----------------------------------------------------------------------------
(* mext_open()                                                              *)

(* monome_platform_open() fails and has cleaned up after itself. *)
OpenPlatformFails ==
    /\ mode = "new"
    /\ mode' = "failed" /\ cause' = "platform"
    /\ UNCHANGED <<pc, wake, clock, fd, retried, sizeVars, readVars, lineVars,
                   askVars, inputVars, eventVars>>

(* Seeded faults: no deadline; no retry; a retry in every round. *)
FaultyExpired == FALSE
FaultyNoRetry == FALSE
FaultyManyRetries == clock >= RetryAt

(* The deadline has passed; the one retry is due. *)
Expired == clock >= Timeout
RetryDue == ~retried /\ clock >= RetryAt

(* The line is open; all three questions are asked. *)
OpenAsks ==
    /\ mode = "new"
    /\ \/ /\ QueriesWritten
          /\ mode' = "handshake" /\ pc' = "top" /\ fd' = "open"
          /\ UNCHANGED cause
       \/ /\ QueryFailed
          /\ Fail("write")
    /\ UNCHANGED <<wake, clock, retried, sizeVars, readVars, lineVars,
                   inputVars, eventVars>>

(* The loop ends: mext_open() returns 0 and monome_open() hands the device  *)
(* to the application.                                                      *)
HandshakeDone ==
    /\ pc = "top" /\ need = {}
    /\ mode' = "open" /\ pc' = "idle"
    /\ clock' = 0 /\ wake' = 0 /\ preempted' = FALSE
    /\ UNCHANGED <<openVars, sizeVars, readVars, lineVars, askVars, chatter,
                   pressed, eventVars>>

HandshakeTimesOut ==
    /\ pc = "top" /\ need # {}
    /\ Expired
    /\ Fail("timeout")
    /\ UNCHANGED <<wake, clock, retried, sizeVars, readVars, lineVars, askVars,
                   inputVars, eventVars>>

(* Before the deadline, and not yet or no longer time for the retry. *)
HandshakeWaits ==
    /\ pc = "top" /\ need # {}
    /\ ~Expired /\ ~RetryDue
    /\ pc' = "wait"
    /\ wake' = clock + WaitMs(clock, retried)
    /\ UNCHANGED <<mode, clock, openVars, sizeVars, readVars, lineVars,
                   askVars, inputVars, eventVars>>

(* Once, the missing questions are asked again before the wait. *)
HandshakeRetries ==
    /\ pc = "top" /\ need # {}
    /\ ~Expired /\ RetryDue
    /\ \/ /\ QueriesWritten
          /\ retried' = TRUE
          /\ pc' = "wait"
          /\ wake' = clock + WaitMs(clock, TRUE)
          /\ UNCHANGED <<mode, cause, fd>>
       \/ /\ QueryFailed
          /\ Fail("write")
          /\ UNCHANGED <<retried, wake>>
    /\ UNCHANGED <<clock, sizeVars, readVars, lineVars, inputVars, eventVars>>

(* wait_for_input() returns 0: there is input, or a hang-up. *)
WaitReady ==
    /\ pc = "wait"
    /\ inbuf # <<>> \/ link = "down"
    /\ pc' = "header" /\ wake' = 0
    /\ UNCHANGED <<mode, clock, openVars, sizeVars, readVars, lineVars,
                   askVars, inputVars, eventVars>>

(* wait_for_input() returns 1 and the loop goes round. *)
WaitTimesOut ==
    /\ pc = "wait"
    /\ inbuf = <<>> /\ link = "up" /\ clock >= wake
    /\ pc' = "top" /\ wake' = 0
    /\ UNCHANGED <<mode, clock, openVars, sizeVars, readVars, lineVars,
                   askVars, inputVars, eventVars>>

(* wait_for_input() returns -1. *)
WaitFails ==
    /\ pc = "wait" /\ link = "down"
    /\ Fail("wait") /\ wake' = 0
    /\ UNCHANGED <<clock, retried, sizeVars, readVars, lineVars, askVars,
                   inputVars, eventVars>>

-----------------------------------------------------------------------------
(* mext_next_event(), called by mext_open() and by the application          *)

NextEvent ==
    /\ mode = "open" /\ pc = "idle"
    /\ pc' = "header"
    /\ UNCHANGED <<mode, wake, clock, openVars, sizeVars, readVars, lineVars,
                   askVars, inputVars, eventVars>>

(* msg is a local of mext_next_event(), all zero when it is entered. *)
ForgetMsg == header' = 0 /\ got' = 0 /\ payload' = NoPayload

(* Returning s without an event: an error ends the handshake, no data       *)
(* sends it back to the head of its loop.                                   *)
ReturnStatus(s) ==
    /\ ForgetMsg
    /\ IF mode = "open"
       THEN /\ pc' = "idle" /\ status' = s
            /\ UNCHANGED <<mode, cause, fd, dropped, delivered>>
       ELSE /\ IF s < 0 THEN Fail("read")
                        ELSE pc' = "top" /\ UNCHANGED <<mode, cause, fd>>
            /\ UNCHANGED eventVars

(* Returning 1 with event e: mext_open() ignores it. *)
ReturnEvent(e) ==
    /\ ForgetMsg
    /\ IF mode = "open"
       THEN /\ pc' = "idle" /\ status' = 1
            /\ delivered' = Append(delivered, e)
            /\ UNCHANGED dropped
       ELSE /\ pc' = "top"
            /\ dropped' = dropped + 1
            /\ UNCHANGED <<status, delivered>>
    /\ UNCHANGED <<mode, cause, fd>>

(* Seeded fault: columns and rows are exchanged. *)
FaultyGridSize(cmd, p) ==
    /\ need' = need \ (CASE cmd = CMD_SYSTEM_QUERY_RESPONSE -> {"QUERY"}
                         [] cmd = CMD_SYSTEM_ID             -> {"ID"}
                         [] cmd = CMD_SYSTEM_GRIDSZ         -> {"GRID_SIZE"}
                         [] OTHER                           -> {})
    /\ friendly' = IF cmd = CMD_SYSTEM_ID THEN "device" ELSE friendly
    /\ cols' = IF cmd = CMD_SYSTEM_GRIDSZ THEN p[2] ELSE cols
    /\ rows' = IF cmd = CMD_SYSTEM_GRIDSZ THEN p[1] ELSE rows

(* mext_handler_system(): the three answers, everything else is ignored. *)
mext_handler_system(cmd, p) ==
    /\ need' = need \ (CASE cmd = CMD_SYSTEM_QUERY_RESPONSE -> {"QUERY"}
                         [] cmd = CMD_SYSTEM_ID             -> {"ID"}
                         [] cmd = CMD_SYSTEM_GRIDSZ         -> {"GRID_SIZE"}
                         [] OTHER                           -> {})
    /\ friendly' = IF cmd = CMD_SYSTEM_ID THEN "device" ELSE friendly
    /\ cols' = IF cmd = CMD_SYSTEM_GRIDSZ THEN p[1] ELSE cols
    /\ rows' = IF cmd = CMD_SYSTEM_GRIDSZ THEN p[2] ELSE rows

(* The message had no event for the application: on to the next one, whose  *)
(* payload will overlay this one's.                                         *)
NextMsg(p) ==
    /\ pc' = "header"
    /\ header' = 0 /\ got' = 0 /\ payload' = p
    /\ UNCHANGED <<mode, cause, fd, eventVars>>

(* A complete message with header h and payload memory p is in hand: the    *)
(* body of mext_next_event()'s loop.                                        *)
Handle(h, p) ==
    IF Addr(h) = SS_SYSTEM
    THEN mext_handler_system(Cmd(h), p) /\ NextMsg(p)
    ELSE /\ LET e == subsystem_event_handlers(h, p)
            IN IF e = NoEvent THEN NextMsg(p) ELSE ReturnEvent(e)
         /\ UNCHANGED sizeVars

(* platform_read() of the header: one byte, no wait. *)
ReadHeader ==
    /\ pc = "header"
    /\ inbuf # <<>>
    /\ inbuf' = Tail(inbuf)
    /\ IF incoming_payload_lengths[Head(inbuf)] = 0
       THEN Handle(Head(inbuf), payload)
       ELSE /\ pc' = "payload" /\ header' = Head(inbuf)
            /\ UNCHANGED <<mode, cause, fd, got, payload, sizeVars, eventVars>>
    /\ UNCHANGED <<wake, clock, retried, link, wire, askVars, inputVars>>

(* Seeded fault: no data counts as an error. *)
FaultyNoHeader ==
    /\ pc = "header"
    /\ inbuf = <<>>
    /\ ReturnStatus(-1)
    /\ UNCHANGED <<wake, clock, retried, sizeVars, lineVars, askVars,
                   inputVars>>

(* Nothing there, or the device is gone: mext_next_event() returns what     *)
(* platform_read() returned.                                                *)
ReadNoHeader ==
    /\ pc = "header"
    /\ inbuf = <<>>
    /\ \E s \in (IF link = "up" THEN {0} ELSE {0, -1}) : ReturnStatus(s)
    /\ UNCHANGED <<wake, clock, retried, sizeVars, lineVars, askVars,
                   inputVars>>

(* Seeded faults: every read() is for the whole payload; the end of the     *)
(* payload is missed.                                                       *)
FaultyReadCount(len) == Min({Len(inbuf), len})
FaultyComplete(total, len) == total > len

(* How many bytes the next read() of a payload of len bytes yields, and     *)
(* whether total of them are all.                                           *)
ReadCount(len) == Min({Len(inbuf), len - got})
Complete(total, len) == total = len

(* platform_read() of the payload.  Its first read() is not preceded by a   *)
(* wait; the later ones are.                                                *)
ReadPayload ==
    /\ pc \in {"payload", "more"}
    /\ inbuf # <<>>
    /\ LET len == incoming_payload_lengths[header]
           n   == ReadCount(len)
           p   == [i \in 1..PayloadSize |->
                     IF i \in got + 1 .. got + n THEN inbuf[i - got]
                                                 ELSE payload[i]]
       IN /\ inbuf' = SubSeq(inbuf, n + 1, Len(inbuf))
          /\ IF Complete(got + n, len)
             THEN Handle(header, p) /\ wake' = 0 /\ UNCHANGED clock
             ELSE /\ pc' = "more" /\ StartWait(ReadTimeout)
                  /\ got' = got + n /\ payload' = p
                  /\ UNCHANGED <<mode, cause, fd, header, sizeVars, eventVars>>
    /\ UNCHANGED <<retried, link, wire, askVars, inputVars>>

(* Seeded fault: the wait for more has no timeout. *)
FaultyPayloadShort ==
    /\ pc \in {"payload", "more"}
    /\ inbuf = <<>>
    /\ pc = "more" => link = "down"
    /\ ReturnStatus(-1)
    /\ wake' = 0
    /\ UNCHANGED <<clock, retried, sizeVars, lineVars, askVars, inputVars>>

(* Too few payload bytes: at once if none has arrived with the header, else *)
(* after READ_TIMEOUT, or because the device is gone.  mext_read_msg()      *)
(* returns -1 and forgets the bytes it consumed.                            *)
ReadPayloadShort ==
    /\ pc \in {"payload", "more"}
    /\ inbuf = <<>>
    /\ pc = "more" => clock >= wake \/ link = "down"
    /\ ReturnStatus(-1)
    /\ wake' = 0
    /\ UNCHANGED <<clock, retried, sizeVars, lineVars, askVars, inputVars>>

(* mext_close() *)
Close ==
    /\ mode = "open" /\ pc = "idle"
    /\ mode' = "closed" /\ fd' = "closed"
    /\ UNCHANGED <<pc, wake, clock, cause, retried, sizeVars, readVars,
                   lineVars, askVars, inputVars, eventVars>>

-----------------------------------------------------------------------------
(* The device, the line and time (external)                                 *)

Answer(f) ==
    CASE f = "QUERY" -> <<Header(SS_SYSTEM, CMD_SYSTEM_QUERY_RESPONSE), 1, 1>>
      [] f = "ID" -> <<Header(SS_SYSTEM, CMD_SYSTEM_ID)>>
                       \o [i \in 1..IdLength |-> 109]
      [] f = "GRID_SIZE" ->
            <<Header(SS_SYSTEM, CMD_SYSTEM_GRIDSZ), Cols, Rows>>

hostVars == <<mode, pc, wake, openVars, sizeVars, readVars, eventVars>>

(* Questions reach the device in order; it answers in that order. *)
DeviceAnswers ==
    /\ link = "up" /\ fd = "open" /\ asked # <<>> /\ Len(wire) < MaxWire
    /\ asked' = Tail(asked)
    /\ wire' = Append(wire, Answer(Head(asked)))
    /\ UNCHANGED <<hostVars, clock, link, inbuf, written, inputVars>>

(* The question was garbled, or the device was still starting up. *)
DeviceIgnores ==
    /\ link = "up" /\ fd = "open" /\ asked # <<>>
    /\ asked' = Tail(asked)
    /\ UNCHANGED <<hostVars, clock, lineVars, written, inputVars>>

(* tcflush() in platform_open() discards what was sent before. *)
DeviceInput(i) ==
    /\ link = "up" /\ fd = "open"
    /\ Len(pressed) + chatter < MaxUnasked /\ Len(wire) < MaxWire
    /\ pressed' = Append(pressed, i)
    /\ wire' = Append(wire, EncodeInput(i))
    /\ UNCHANGED <<hostVars, clock, link, inbuf, askVars, preempted, chatter>>

DeviceChatters(m) ==
    /\ link = "up" /\ fd = "open"
    /\ Len(pressed) + chatter < MaxUnasked /\ Len(wire) < MaxWire
    /\ chatter' = chatter + 1
    /\ wire' = Append(wire, m)
    /\ UNCHANGED <<hostVars, clock, link, inbuf, askVars, preempted, pressed>>

Unplug ==
    /\ link = "up" /\ fd = "open"
    /\ link' = "down" /\ wire' = <<>> /\ inbuf' = <<>>
    /\ UNCHANGED <<hostVars, clock, askVars, inputVars>>

Arrive ==
    /\ fd = "open" /\ wire # <<>>
    /\ \E k \in (IF Fragmenting THEN 1..Len(Head(wire)) ELSE {Len(Head(wire))}) :
          /\ inbuf' = inbuf \o SubSeq(Head(wire), 1, k)
          /\ wire' = (IF k = Len(Head(wire)) THEN <<>>
                      ELSE <<SubSeq(Head(wire), k + 1, Len(Head(wire)))>>)
                        \o Tail(wire)
    /\ UNCHANGED <<hostVars, clock, link, askVars, inputVars>>

(* Time passes while the host is blocked; or, as it may lose the processor   *)
(* anywhere, at any point of the handshake.  Kept off the processor it is   *)
(* unless it is blocked and has nothing to wake it, or spins on a line that *)
(* was hung up.                                                             *)
Tick ==
    /\ fd = "open"
    /\ LET blocked == pc \in {"wait", "more"} /\ clock < wake
           idle == (blocked /\ inbuf = <<>>) \/ link = "down"
       IN /\ blocked \/ (mode = "handshake" /\ clock < MaxClock)
          /\ preempted' = (preempted \/ (mode = "handshake" /\ ~idle))
    /\ clock' = clock + 1
    /\ UNCHANGED <<hostVars, lineVars, askVars, chatter, pressed>>

(* A closed device is never touched again. *)
Over == mode \in {"closed", "failed"} /\ UNCHANGED vars

-----------------------------------------------------------------------------

Handshake == OpenAsks \/ HandshakeDone \/ HandshakeTimesOut \/ HandshakeWaits
               \/ HandshakeRetries \/ WaitReady \/ WaitTimesOut \/ WaitFails

Reading == ReadHeader \/ ReadNoHeader \/ ReadPayload \/ ReadPayloadShort

Device == \/ DeviceAnswers \/ DeviceIgnores
          \/ \E i \in Input : DeviceInput(i)
          \/ \E m \in Chatter : DeviceChatters(m)
          \/ Unplug

Next == \/ OpenPlatformFails \/ Handshake \/ NextEvent \/ Reading \/ Close
        \/ Device \/ Arrive \/ Tick \/ Over

(* The host keeps executing, and time keeps passing.  Nothing is assumed of *)
(* the device, of the line or of the application.                           *)
Fairness == WF_vars(Handshake) /\ WF_vars(Reading) /\ WF_vars(Tick)

Spec == Init /\ [][Next]_vars /\ Fairness

-----------------------------------------------------------------------------
(* Properties                                                               *)

(* monome_open() succeeds only with the identity of this very device: the   *)
(* size mext_handler_system() stored is the hardware's and the friendly     *)
(* name is the one it sent, although answers may be lost, late, repeated by *)
(* the retry and mixed with inputs.                                         *)
IdentityIsTheDevices ==
    mode = "open" => /\ need = {}
                     /\ <<cols, rows>> = <<Cols, Rows>>
                     /\ friendly = "device"

(* No question is written more than twice however often the loop of         *)
(* mext_open() goes round, nor twice before the retry.                      *)
AskedAtMostTwice ==
    \A f \in Facts :
        /\ written[f] <= 2
        /\ written[f] = 2 => retried \/ cause = "write"

(* The retry asks for missing facts only (the test                          *)
(* test_partial_response_retries_only_missing_query).                       *)
AnsweredNotAskedAgain ==
    [][\A f \in Facts : written'[f] # written[f] => f \in need]_vars

(* The wait slices are cut so that none of them sleeps past the deadline,   *)
(* nor past the moment of a retry that is still to come.                    *)
WaitsEndInTime ==
    pc = "wait" => /\ wake <= Timeout
                   /\ ~retried => wake <= RetryAt

(* A handshake that runs out of time on a device that is still there has    *)
(* asked twice for what it misses, if the host is not kept off the          *)
(* processor.                                                               *)
GivesUpOnlyAfterRetry ==
    cause = "timeout" /\ link = "up" /\ ~preempted =>
        \A f \in need : written[f] = 2

(* The descriptor is open exactly while the device is: every failure of     *)
(* mext_open() after monome_platform_open() closes it, none closes a        *)
(* descriptor that was never opened.                                        *)
DescriptorOwned ==
    /\ fd = "open" <=> mode \in {"handshake", "open"}
    /\ fd = "none" <=> mode = "new" \/ cause = "platform"
    /\ mode = "failed" <=> cause # "none"

(* The payload read never writes past the message's payload, and a message  *)
(* is handled only when it is complete.                                     *)
PayloadFits ==
    /\ got <= PayloadSize
    /\ pc \in {"payload", "more"} => got < incoming_payload_lengths[header]

(* Which lines the host can be at in which phase of the device's life. *)
ControlOK ==
    /\ mode = "new" => pc = "idle" /\ ~retried /\ \A f \in Facts : written[f] = 0
    /\ mode = "handshake" => pc # "idle"
    /\ mode = "open" => pc \notin {"top", "wait"}
    /\ mode \in {"closed", "failed"} => pc = "idle"
    /\ pc \notin {"payload", "more"} => got = 0

(* The inductive invariant behind the five of them. *)
Inv == /\ TypeOK
       /\ ControlOK
       /\ DescriptorOwned
       /\ AskedAtMostTwice
       /\ WaitsEndInTime
       /\ PayloadFits

(* The claim of Monome.hpp about nativeStatus: "zero for no data, and       *)
(* negative for a device error".  mext_next_event() gives the application a *)
(* negative status only when the device is gone.                            *)
NegativeMeansDeviceError == status < 0 => link = "down"

(* mext_open() gives up on a read or a wait only when the device is gone:   *)
(* late, repeated and unasked messages never look like an error.            *)
HealthyDeviceIsRead == cause \in {"read", "wait"} => link = "down"

(* mext_open() returns, whatever the device does. *)
HandshakeEnds == mode = "handshake" ~> mode # "handshake"

(* mext_next_event() returns to the application: with whole messages there  *)
(* is nothing it can be blocked on, with pieces at most READ_TIMEOUT.       *)
NextEventReturns == (mode = "open" /\ pc # "idle") ~> pc = "idle"

(* The protocol keeps the promises of DeviceSession.  The inputs not yet    *)
(* consumed are those made minus those thrown away and those delivered.     *)
Unconsumed ==
    IF link = "down" THEN <<>>
    ELSE SubSeq(pressed, dropped + Len(delivered) + 1, Len(pressed))

Session == INSTANCE DeviceSession WITH
    DeviceSize <- <<Cols, Rows>>,
    phase <- CASE mode \in {"new", "handshake"} -> "opening"
               [] mode = "open" -> "open"
               [] OTHER -> "over",
    size <- <<cols, rows>>,
    queue <- Unconsumed

MextImplementsSession == Session!Spec

============================================================================
