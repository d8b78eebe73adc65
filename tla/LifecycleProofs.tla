-------------------------- MODULE LifecycleProofs ---------------------------
(***************************************************************************)
(* For any number of devices: if every server of liblo has a socket,       *)
(* everything monome_open() acquires is given back exactly once.           *)
(***************************************************************************)
EXTENDS Lifecycle, TLAPS

(* What device d holds at each step of monome_open(), and that nothing is   *)
(* gone which a later step still uses.                                      *)
Own(d) == IF proto[d] = "osc" THEN {} ELSE {"serial"}
Line(d) == IF proto[d] = "osc" THEN OscParts ELSE {"fd"}
Module == {"handle", "monome"}

Holds(d) ==
    /\ pc[d] \in {"none", "failed", "closed", "serial"} => held[d] = {}
    /\ pc[d] \in {"map", "load"} => held[d] = Own(d)
    /\ pc[d] = "open" => held[d] = Own(d) \cup Module
    /\ pc[d] \in {"device", "err_nomem"} =>
          held[d] = Own(d) \cup Module \cup Line(d)
    /\ pc[d] = "opened" => held[d] = Own(d) \cup Module \cup Line(d) \cup {"device"}
    /\ pc[d] = "err_protocol" =>
          /\ Own(d) \cup Module \subseteq held[d]
          /\ held[d] \subseteq Own(d) \cup Module
                                \cup (IF proto[d] = "osc" THEN OscParts ELSE {})
    /\ pc[d] = "err_init" => held[d] = Own(d)

Lost(d) ==
    /\ pc[d] \in {"serial", "map", "load", "open", "device", "opened",
                  "err_nomem"} => gone[d] = {}
    /\ pc[d] = "err_protocol" => gone[d] \subseteq {"fd"}
    /\ pc[d] = "err_init" => "serial" \notin gone[d]
    /\ pc[d] \in {"serial", "map"} => proto[d] # "osc"
    /\ misused[d] = {}

DeviceInv(d) == Holds(d) /\ Lost(d)

LifeInv == TypeOK /\ \A d \in Devices : DeviceInv(d)

-----------------------------------------------------------------------------
LEMMA InitEstablishesLifeInv == Init => LifeInv
  BY DEF Init, LifeInv, TypeOK, DeviceInv, Holds, Lost, Pcs, Resources

(* A step of one device leaves the others alone. *)
LEMMA OthersKeepTheirs ==
    ASSUME LifeInv, NEW d \in Devices, Step(d), NEW c \in Devices \ {d}
    PROVE  DeviceInv(c)'
  <1>1. /\ pc'[c] = pc[c] /\ proto'[c] = proto[c] /\ held'[c] = held[c]
        /\ gone'[c] = gone[c] /\ misused'[c] = misused[c]
    BY DEF Step, LifeInv, TypeOK, Begin, monome_platform_get_dev_serial,
           map_serial_to_device, monome_platform_load_protocol, SerialOpen,
           proto_osc_open, NoSocket, CopyName, err_nomem, err_protocol,
           err_init, monome_close, Goto, Take, Give, Keep
  <1>2. DeviceInv(c)
    BY DEF LifeInv
  <1>. QED  BY <1>1, <1>2 DEF DeviceInv, Holds, Lost, Own, Line

(* A step keeps the types. *)
LEMMA StepKeepsTypes ==
    ASSUME LifeInv, NEW d \in Devices, Step(d)
    PROVE  TypeOK'
  <1>. USE DEF LifeInv, TypeOK, Goto, Take, Give, Keep, Pcs, Resources, Freed,
               Closed, OscParts
  <1>1. CASE Begin(d)
    BY <1>1 DEF Begin
  <1>2. CASE monome_platform_get_dev_serial(d)
    BY <1>2 DEF monome_platform_get_dev_serial
  <1>3. CASE map_serial_to_device(d)
    BY <1>3 DEF map_serial_to_device
  <1>4. CASE monome_platform_load_protocol(d)
    BY <1>4 DEF monome_platform_load_protocol
  <1>5. CASE SerialOpen(d)
    BY <1>5 DEF SerialOpen
  <1>6. CASE proto_osc_open(d)
    BY <1>6 DEF proto_osc_open, NoSocket
  <1>7. CASE CopyName(d)
    BY <1>7 DEF CopyName
  <1>8. CASE err_nomem(d)
    BY <1>8 DEF err_nomem
  <1>9. CASE err_protocol(d)
    BY <1>9 DEF err_protocol
  <1>10. CASE err_init(d)
    BY <1>10 DEF err_init
  <1>11. CASE monome_close(d)
    BY <1>11 DEF monome_close
  <1>. QED  BY <1>1, <1>2, <1>3, <1>4, <1>5, <1>6, <1>7, <1>8, <1>9, <1>10,
               <1>11 DEF Step

(* The device that takes the step. *)
LEMMA StepKeepsOwn ==
    ASSUME ~SocketMissing, LifeInv, NEW d \in Devices, Step(d)
    PROVE  DeviceInv(d)'
  <1>1. DeviceInv(d)
    BY DEF LifeInv
  <1>. USE <1>1 DEF LifeInv, TypeOK, Goto, Take, Give, Keep, Freed,
               Closed, OscParts, DeviceInv, Holds, Lost, Own, Line, Module
  <1>2. CASE Begin(d)
    BY <1>2 DEF Begin
  <1>3. CASE monome_platform_get_dev_serial(d)
    BY <1>3 DEF monome_platform_get_dev_serial
  <1>4. CASE map_serial_to_device(d)
    BY <1>4 DEF map_serial_to_device
  <1>5. CASE monome_platform_load_protocol(d)
    <2>1. pc[d] = "load" /\ held[d] = Own(d) /\ gone[d] = {} /\ proto' = proto
      BY <1>5 DEF monome_platform_load_protocol
    <2>2. CASE Keep /\ Goto(d, "err_init")
      BY <2>1, <2>2
    <2>3. CASE Take(d, Module) /\ Goto(d, "open")
      <3>1. held'[d] = Own(d) \cup Module /\ gone'[d] = {} /\ pc'[d] = "open"
        BY <2>1, <2>3
      <3>. QED  BY <2>1, <2>3, <3>1
    <2>. QED  BY <1>5, <2>2, <2>3 DEF monome_platform_load_protocol
  <1>6. CASE SerialOpen(d)
    BY <1>6 DEF SerialOpen
  <1>7. CASE proto_osc_open(d)
    BY <1>7 DEF proto_osc_open, NoSocket
  <1>8. CASE CopyName(d)
    BY <1>8 DEF CopyName
  <1>9. CASE err_nomem(d)
    BY <1>9 DEF err_nomem
  <1>10. CASE err_protocol(d)
    BY <1>10 DEF err_protocol
  <1>11. CASE err_init(d)
    BY <1>11 DEF err_init
  <1>12. CASE monome_close(d)
    BY <1>12 DEF monome_close
  <1>. QED  BY <1>2, <1>3, <1>4, <1>5, <1>6, <1>7, <1>8, <1>9, <1>10, <1>11,
               <1>12 DEF Step

LEMMA StepPreservesLifeInv ==
    ASSUME ~SocketMissing
    PROVE  LifeInv /\ [Next]_vars => LifeInv'
  <1>1. SUFFICES ASSUME LifeInv, [Next]_vars PROVE LifeInv'
    OBVIOUS
  <1>2. CASE UNCHANGED vars
    BY <1>1, <1>2 DEF vars, LifeInv, TypeOK, DeviceInv, Holds, Lost, Own, Line
  <1>3. CASE Next
    <2>1. PICK d \in Devices : Step(d)
      BY <1>3 DEF Next
    <2>2. TypeOK'
      BY <1>1, <2>1, StepKeepsTypes
    <2>3. ASSUME NEW c \in Devices PROVE DeviceInv(c)'
      <3>1. CASE c = d
        BY <1>1, <2>1, <3>1, StepKeepsOwn
      <3>2. CASE c # d
        BY <1>1, <2>1, <3>2, OthersKeepTheirs
      <3>. QED  BY <3>1, <3>2
    <2>. QED  BY <2>2, <2>3 DEF LifeInv
  <1>. QED  BY <1>1, <1>2, <1>3

LEMMA LifeInvariance ==
    ASSUME ~SocketMissing
    PROVE  Spec => []LifeInv
  BY InitEstablishesLifeInv, StepPreservesLifeInv, PTL DEF Spec

-----------------------------------------------------------------------------
(* Nothing is given back twice or used after it was given back. *)
THEOREM EverythingCleanedUpOnce ==
    ASSUME ~SocketMissing
    PROVE  Spec => []CleanedUpOnce
  <1>1. LifeInv => CleanedUpOnce
    BY DEF LifeInv, DeviceInv, Lost, CleanedUpOnce
  <1>. QED  BY <1>1, LifeInvariance, PTL

(* A failed monome_open() and monome_close() give everything back. *)
THEOREM FailureLeaksNothing ==
    ASSUME ~SocketMissing
    PROVE  Spec => []NothingLeaks
  <1>1. LifeInv => NothingLeaks
    BY DEF LifeInv, DeviceInv, Holds, NothingLeaks
  <1>. QED  BY <1>1, LifeInvariance, PTL

(* A device that monome_open() returned has all that its functions use. *)
THEOREM OpenedLacksNothing ==
    ASSUME ~SocketMissing
    PROVE  Spec => []OpenedIsComplete
  <1>1. LifeInv => OpenedIsComplete
    BY DEF LifeInv, DeviceInv, Holds, Own, Line, Module, OpenedIsComplete
  <1>. QED  BY <1>1, LifeInvariance, PTL

=============================================================================
