---------------------------- MODULE MonomeSerial ----------------------------
(***************************************************************************)
(* monomeserial (src/monomeserial.c), the daemon that puts a serial device *)
(* on the network: key presses go out as OSC messages, OSC messages come   *)
(* in as LED calls.  One thread waits for both in poll() and takes one     *)
(* input and one message in each round.                                    *)
(*                                                                         *)
(* External: the device and its user, the applications that send requests, *)
(* liblo, which drops requests no method is registered for.  Inputs are    *)
(* whole messages here; SerialEvents cuts them into bytes.                 *)
(***************************************************************************)
EXTENDS SerialGrid

CONSTANTS
    Served,        \* the devices of Grids that the daemon is used with
    Keys,          \* keys the user presses
    Requests,      \* OSC messages that arrive: [path, args]
    MaxInputs,     \* bound: inputs of the device
    MaxRequests,   \* bound: requests
    MaxFailedPolls \* bound: polls that fail

ASSUME DaemonAssumption ==
    /\ Keys \subseteq Nat \X Nat
    /\ MaxInputs \in Nat /\ MaxRequests \in Nat /\ MaxFailedPolls \in Nat

(* The arguments of a message are a sequence, of which "intensity" takes a  *)
(* number.                                                                  *)
ASSUME RequestsAssumption ==
    \A r \in Requests :
        /\ Len(r.args) \in Nat
        /\ r.args = [i \in 1 .. Len(r.args) |-> r.args[i]]
        /\ r.path = "intensity" /\ r.args # <<>> => r.args[1] \in Int

VARIABLES
    client,      \* who uses the library: "program" or "monomeserial"
    pc,          \* "away" (no daemon), "start", "clear", "poll", "check",
                 \* "device", "osc", "done", "failed"
    revents,     \* what poll() reported last of the device and the socket
    link,        \* "up" or "down"
    inputs,      \* inputs of the device that were not read yet
    requests,    \* messages at the socket
    presses,     \* messages sent to the application (history)
    made,        \* the inputs the user made (history)
    before,      \* how many presses had been sent at the unplugging (history)
    arrived,     \* number of requests so far (history)
    failedPolls  \* number of polls that failed (history)

daemonVars == <<client, pc, revents, presses, failedPolls>>
worldVars == <<link, inputs, requests, made, before, arrived>>
vars == <<gridVars, daemonVars, worldVars>>

Ready == [device : SUBSET {"POLLIN", "POLLHUP"}, osc : SUBSET {"POLLIN"}]
Input == [type : {"DOWN", "UP", "TILT"}, at : Keys]

TypeOK ==
    /\ GridTypeOK
    /\ client \in {"program", "monomeserial"}
    /\ pc \in {"away", "start", "clear", "poll", "check", "device", "osc",
               "done", "failed"}
    /\ revents \in Ready /\ link \in {"up", "down"}
    /\ inputs \in Seq(Input) /\ requests \in Seq(Requests)
    /\ presses \in Seq([type : {"DOWN", "UP"}, at : Nat \X Nat])
    /\ made \in Seq(Input) /\ Len(made) <= MaxInputs
    /\ before \in 0..Len(presses)
    /\ arrived \in 0..MaxRequests /\ failedPolls \in 0..MaxFailedPolls

Init ==
    /\ GridInit
    /\ \/ client = "program" /\ pc = "away"
       \/ client = "monomeserial" /\ pc = "start" /\ grid \in Served
    /\ revents = [device |-> {}, osc |-> {}]
    /\ link = "up" /\ inputs = <<>> /\ requests = <<>>
    /\ presses = <<>> /\ made = <<>> /\ before = 0
    /\ arrived = 0 /\ failedPolls = 0

-----------------------------------------------------------------------------
(* Requests                                                                 *)

(* Out of range: -1, and nothing is sent. *)
osc_led_handler(args) ==
    IF args[1] \in 0..15 /\ args[2] \in 0..15 /\ args[3] \in {0, 1}
    THEN monome_led_set(args[1], args[2], args[3])
    ELSE UNCHANGED outputVars

osc_led_all_handler(args) == monome_led_all(IF args = <<>> THEN 0 ELSE args[1])

(* Offsets are not part of the protocol. *)
osc_led_col_row_handler(path, args) ==
    IF path = "led_col" THEN monome_led_col(args[1], Tail(args))
                        ELSE monome_led_row(args[1], Tail(args))

(* Seeded fault: the offsets are exchanged. *)
Faulty_osc_led_map_handler(args) ==
    LET at == IF Len(args) = Section THEN <<0, 0>> ELSE <<args[2], args[1]>>
        rows == SubSeq(args, Len(args) - Section + 1, Len(args))
    IN monome_led_map(at[1], at[2], {p \in Points : p[1] \in rows[p[2] + 1]})

(* The rows of a map are the last arguments, Section of them; offsets may   *)
(* precede them.                                                            *)
osc_led_map_handler(args) ==
    LET at == IF Len(args) = Section THEN <<0, 0>> ELSE <<args[1], args[2]>>
        rows == SubSeq(args, Len(args) - Section + 1, Len(args))
    IN monome_led_map(at[1], at[2], {p \in Points : p[1] \in rows[p[2] + 1]})

osc_intensity_handler(args) ==
    monome_led_intensity(IF args = <<>> THEN 15 ELSE args[1])

(* How many arguments the methods take that are registered with liblo. *)
register_osc_methods == [led |-> {3}, clear |-> {0, 1},
    frame |-> {Section, Section + 2},
    led_row |-> {2, 3}, led_col |-> {2, 3}, intensity |-> {0, 1}]

Handled(r) == /\ r.path \in DOMAIN register_osc_methods
              /\ Len(r.args) \in register_osc_methods[r.path]

Serve(r) ==
    IF ~Handled(r) THEN UNCHANGED outputVars
    ELSE CASE r.path = "led"       -> osc_led_handler(r.args)
           [] r.path = "clear"     -> osc_led_all_handler(r.args)
           [] r.path = "frame"     -> osc_led_map_handler(r.args)
           [] r.path = "intensity" -> osc_intensity_handler(r.args)
           [] OTHER -> osc_led_col_row_handler(r.path, r.args)

-----------------------------------------------------------------------------
(* The daemon                                                               *)

(* monome_open() or lo_server_new() fails; or handlers and methods are      *)
(* registered and the rotation of the command line is set.                  *)
Start ==
    /\ pc = "start"
    /\ \/ pc' = "failed" /\ UNCHANGED rotation
       \/ /\ pc' = "clear"
          /\ \E arg \in Rotated : rotation' = RotationOf(arg)
    /\ UNCHANGED <<grid, outputVars, calls, client, revents, presses,
                   failedPolls, worldVars>>

Clear ==
    /\ pc = "clear" /\ pc' = "poll"
    /\ monome_led_all(0)
    /\ UNCHANGED <<grid, rotation, calls, client, revents, presses,
                   failedPolls, worldVars>>

Reported ==
    [device |-> {e \in {"POLLIN", "POLLHUP"} :
                    \/ e = "POLLIN" /\ inputs # <<>>
                    \/ e = "POLLHUP" /\ link = "down"},
     osc |-> {e \in {"POLLIN"} : requests # <<>>}]

(* poll() waits until there is something to report. *)
Poll ==
    /\ pc = "poll" /\ pc' = "check"
    /\ Reported # [device |-> {}, osc |-> {}]
    /\ revents' = Reported
    /\ UNCHANGED <<gridVars, client, presses, failedPolls, worldVars>>

(* It fails, which goes unnoticed: the report is that of the round before.  *)
(* At the first round it would be whatever the memory holds; the first      *)
(* poll() is taken to succeed.                                              *)
PollFails ==
    /\ pc = "poll" /\ pc' = "check"
    /\ revents # [device |-> {}, osc |-> {}]
    /\ failedPolls < MaxFailedPolls /\ failedPolls' = failedPolls + 1
    /\ UNCHANGED <<gridVars, client, revents, presses, worldVars>>

(* Seeded fault: a poll() that fails ends the daemon. *)
FaultyCheck ==
    /\ pc = "check"
    /\ pc' = IF "POLLHUP" \in revents.device \/ failedPolls > 0
             THEN "done" ELSE "device"
    /\ UNCHANGED <<gridVars, client, revents, presses, failedPolls, worldVars>>

(* Seeded fault: the hangup is looked for among the input. *)
FaultyHangup ==
    /\ pc = "check"
    /\ pc' = IF {"POLLIN", "POLLHUP"} \subseteq revents.device
             THEN "done" ELSE "device"
    /\ UNCHANGED <<gridVars, client, revents, presses, failedPolls, worldVars>>

(* Is the monome still connected? *)
Check ==
    /\ pc = "check"
    /\ pc' = IF "POLLHUP" \in revents.device THEN "done" ELSE "device"
    /\ UNCHANGED <<gridVars, client, revents, presses, failedPolls, worldVars>>

(* Seeded fault: coordinates go out as the hardware has them. *)
Faulty_monome_handle_press(e) == [type |-> e.type, at |-> e.at]

monome_handle_press(e) ==
    [type |-> e.type, at |-> input_cb(rotation, grid.cols, grid.rows, e.at)]

(* Seeded fault: one handler for everything. *)
FaultyRegistered == {"DOWN", "UP", "TILT"}

(* main() registers it for keys only. *)
Registered == {"DOWN", "UP"}

(* A read that fails, as it may once the device is gone, leaves an empty    *)
(* message, which the protocols decode as a key at <<0, 0>>; see            *)
(* SerialEvents.                                                            *)
EmptyMessage == [type |-> IF Series THEN "DOWN" ELSE "UP", at |-> <<0, 0>>]

(* Seeded fault: whatever there is is read at once, and the last is kept. *)
FaultyReadDevice ==
    /\ pc = "device" /\ pc' = "osc"
    /\ IF "POLLIN" \notin revents.device \/ inputs = <<>>
       THEN UNCHANGED <<inputs, presses>>
       ELSE /\ presses' = Append(presses, monome_handle_press(Last(inputs)))
            /\ inputs' = <<>>
    /\ UNCHANGED <<gridVars, client, revents, failedPolls, link, requests, made,
                   before, arrived>>

(* monome_event_handle_next().  There may be nothing to read, after a       *)
(* report that is out of date.                                              *)
ReadDevice ==
    /\ pc = "device" /\ pc' = "osc"
    /\ IF "POLLIN" \notin revents.device THEN UNCHANGED <<inputs, presses>>
       ELSE IF inputs # <<>>
       THEN /\ inputs' = Tail(inputs)
            /\ presses' = IF Head(inputs).type \notin Registered THEN presses
                          ELSE Append(presses, monome_handle_press(Head(inputs)))
       ELSE /\ UNCHANGED inputs
            /\ \/ UNCHANGED presses
               \/ /\ link = "down"
                  /\ presses' = Append(presses, monome_handle_press(EmptyMessage))
    /\ UNCHANGED <<gridVars, client, revents, failedPolls, link, requests, made,
                   before, arrived>>

(* Seeded fault: the socket is looked after when the device has something. *)
FaultyReceive ==
    /\ pc = "osc" /\ pc' = "poll"
    /\ IF "POLLIN" \in revents.device /\ requests # <<>>
       THEN Serve(Head(requests)) /\ requests' = Tail(requests)
       ELSE UNCHANGED <<outputVars, requests>>
    /\ UNCHANGED <<grid, rotation, calls, client, revents, presses, failedPolls,
                   link, inputs, made, before, arrived>>

(* lo_server_recv_noblock() takes one message, if there is any. *)
Receive ==
    /\ pc = "osc" /\ pc' = "poll"
    /\ IF "POLLIN" \in revents.osc /\ requests # <<>>
       THEN Serve(Head(requests)) /\ requests' = Tail(requests)
       ELSE UNCHANGED <<outputVars, requests>>
    /\ UNCHANGED <<grid, rotation, calls, client, revents, presses, failedPolls,
                   link, inputs, made, before, arrived>>

-----------------------------------------------------------------------------
(* The world (external)                                                     *)

Running == pc \notin {"away", "start", "done", "failed"}

DeviceInput ==
    /\ Running /\ link = "up" /\ Len(made) < MaxInputs
    /\ \E i \in Input :
         /\ i.at \in Hardware
         /\ inputs' = Append(inputs, i)
         /\ made' = Append(made, i)
    /\ UNCHANGED <<gridVars, daemonVars, link, requests, before, arrived>>

RequestArrives ==
    /\ Running /\ arrived < MaxRequests /\ arrived' = arrived + 1
    /\ \E r \in Requests : requests' = Append(requests, r)
    /\ UNCHANGED <<gridVars, daemonVars, link, inputs, made, before>>

(* What was not read is lost. *)
Unplug ==
    /\ Running /\ link = "up" /\ link' = "down"
    /\ inputs' = <<>> /\ before' = Len(presses)
    /\ UNCHANGED <<gridVars, daemonVars, requests, made, arrived>>

Daemon == \/ Start \/ Clear \/ Poll \/ PollFails \/ Check
          \/ ReadDevice \/ Receive

Next == \/ client = "program" /\ ProgramCalls /\ UNCHANGED <<daemonVars, worldVars>>
        \/ Daemon
        \/ DeviceInput \/ RequestArrives \/ Unplug

(* The daemon keeps running. *)
Spec == Init /\ [][Next]_vars /\ WF_vars(Daemon)

-----------------------------------------------------------------------------
(* Properties                                                               *)

(* What applications draw, for which GridFrame has a picture on every       *)
(* device: rows and columns at least as long as the device, maps at corners *)
(* of sections, levels the device has; and what the source has, numbers of  *)
(* 32 bits with eight LEDs a section. Its functions for level maps that are *)
(* turned, and those of big-endian machines, draw something else.           *)
DrawingAssumption ==
    /\ ~BigEndian /\ ~TurnedMaps /\ UintRange % (4 * Section) = 0
    /\ MaxLevel <= 15 /\ Intensities \subseteq Level
    /\ 0 \in Offsets /\ Offsets \subseteq {0, Section}
    /\ Bitmaps \subseteq SUBSET Points /\ LevelMaps \subseteq [Points -> Level]
    /\ ByteRows # {}
    /\ \A g \in Grids : \A n \in {g.cols, g.rows} :
         /\ \A bytes \in ByteRows : n \div Section <= Len(bytes)
         /\ \A levels \in LevelRows : n \div Section <= Len(levels) \div Section
    /\ (\E g \in Served : g.proto = "40h") => Bitmaps = SUBSET Points

(* How many of the first n of these inputs are keys. *)
KeysAmong(n, all) == Cardinality({i \in 1..n : all[i].type # "TILT"})

(* Applications get every press and release once and in order, and from     *)
(* its coordinates the library finds the LED under that key, as long as the *)
(* device is connected, however long its inputs wait and however often      *)
(* poll() fails.                                                            *)
PressesAreForwarded ==
    LET sure == IF link = "up" THEN Len(presses) ELSE before
    IN /\ \A n \in 1..sure : \E i \in DOMAIN made :
            /\ made[i].type # "TILT" /\ KeysAmong(i, made) = n
            /\ presses[n].type = made[i].type
            /\ output_cb(rotation, grid.cols, grid.rows, presses[n].at) = made[i].at
       /\ link = "up" => Len(presses) = KeysAmong(Len(made) - Len(inputs), made)

(* What a request asks for is what it changes, in the application's         *)
(* coordinates and whichever way the daemon was told the grid lies;         *)
(* messages that are none, or name a place beyond the fifteenth row or      *)
(* column, change nothing.                                                  *)
RequestsDrawTheirArguments ==
    [][\A g \in Grids :
          g = grid /\ Len(requests') < Len(requests) /\ ~torn' =>
             LET path == Head(requests).path
                 args == Head(requests).args
                 rows == SubSeq(args, Len(args) - Section + 1, Len(args))
                 bits == {p \in Points : p[1] \in rows[p[2] + 1]}
             IN CASE path = "led" /\ args[1] <= 15 ->
                       Promise(g)!SetTo(<<args[1], args[2]>>, OnOff(args[3] = 1))
                  [] path = "clear" -> Promise(g)!AllTo(0)
                  [] path = "led_row" ->
                       Promise(g)!DrawRow(0, args[1], Promise(g)!OfBytes(Tail(args)))
                  [] path = "led_col" ->
                       Promise(g)!DrawCol(args[1], 0, Promise(g)!OfBytes(Tail(args)))
                  [] path = "frame" /\ Len(args) = Section ->
                       Promise(g)!DrawMap(0, 0, Promise(g)!OfBits(bits))
                  [] path = "frame" /\ Len(args) # Section ->
                       Promise(g)!DrawMap(args[1], args[2], Promise(g)!OfBits(bits))
                  [] path = "intensity" -> Promise(g)!DimTo(args[1])
                  [] OTHER -> UNCHANGED <<lit, brightness>>]_vars

(* "main_loop() returns 1 if the monome was disconnected": the daemon ends  *)
(* for no other reason once it runs, not even after polls that failed.      *)
EndsWhenUnplugged == pc = "done" => link = "down"

(* A request is served whatever the device does, unless the daemon ends,    *)
(* and the daemon ends when the device is unplugged.                        *)
RequestsAreServed ==
    /\ requests # <<>> ~> requests = <<>> \/ pc = "done"
    /\ link = "down" ~> pc = "done"

=============================================================================
