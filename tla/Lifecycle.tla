----------------------------- MODULE Lifecycle ------------------------------
(***************************************************************************)
(* What monome_open() acquires and who gives it back (src/libmonome.c, the *)
(* protocols' open, close and free, src/platform/posix.c).  Ownership is   *)
(* spread over three layers: the library owns the strings, the platform    *)
(* the protocol module's handle and the descriptor, the protocol its own   *)
(* structure, which every later step of the clean-up goes through.         *)
(*                                                                         *)
(* An application opens and closes any number of devices, in any order and *)
(* again after a failure.                                                  *)
(***************************************************************************)
EXTENDS FiniteSets

CONSTANTS
    Devices,       \* the places an application keeps its devices in
    Protos,        \* protocols of the devices it opens
    SocketMissing  \* TRUE if a server of liblo may be without a socket

ASSUME ProtosAssumption ==
    /\ Protos \subseteq {"mext", "series", "40h", "osc"}
    /\ SocketMissing \in BOOLEAN

VARIABLES
    pc,       \* per device: the step monome_open() is about to take
    proto,    \* per device: its protocol
    held,     \* per device: the resources that are allocated
    gone,     \* per device: those that were given back
    misused   \* per device: those used or given back after that (history)

vars == <<pc, proto, held, gone, misused>>

(* The OSC protocol's server, prefix, address and paths. *)
OscParts == {"server", "prefix", "outgoing", "paths"}

Resources == {"serial", "handle", "monome", "fd", "device"} \cup OscParts

Pcs == {"none", "serial", "map", "load", "open", "device", "opened",
        "err_nomem", "err_protocol", "err_init", "failed", "closed"}

TypeOK ==
    /\ pc \in [Devices -> Pcs]
    /\ proto \in [Devices -> Protos]
    /\ held \in [Devices -> SUBSET Resources]
    /\ gone \in [Devices -> SUBSET Resources]
    /\ misused \in [Devices -> SUBSET Resources]

Init ==
    /\ pc = [d \in Devices |-> "none"]
    /\ proto \in [Devices -> Protos]
    /\ held = [d \in Devices |-> {}]
    /\ gone = [d \in Devices |-> {}]
    /\ misused = [d \in Devices |-> {}]

-----------------------------------------------------------------------------
(* Steps of device d, each ending at next.                                  *)

Goto(d, next) == pc' = [pc EXCEPT ![d] = next]

Take(d, rs) ==
    /\ held' = [held EXCEPT ![d] = @ \cup rs]
    /\ gone' = [gone EXCEPT ![d] = @ \ rs]
    /\ UNCHANGED misused

(* Resources rs are given back, and those of use are needed for it; giving  *)
(* back what was never acquired does nothing.                               *)
Give(d, rs, use) ==
    /\ held' = [held EXCEPT ![d] = @ \ rs]
    /\ gone' = [gone EXCEPT ![d] = @ \cup (rs \cap held[d])]
    /\ misused' = [misused EXCEPT ![d] = @ \cup ((rs \cup use) \cap gone[d])]

Keep == UNCHANGED <<held, gone, misused>>

(* Everything a protocol's free() gives back. *)
Freed(d) == {"monome"} \cup (IF proto[d] = "osc" THEN OscParts ELSE {})

(* What its close() gives back: liblo's server owns the socket. *)
Closed(d) == IF proto[d] = "osc" THEN {} ELSE {"fd"}

-----------------------------------------------------------------------------
(* monome_open()                                                            *)

(* A device is named by a path, whose serial number is looked up, or by an  *)
(* OSC URL.  Nothing is left of an earlier use of the place.                *)
Begin(d) ==
    /\ pc[d] \in {"none", "failed", "closed"}
    /\ \E p \in Protos :
         /\ proto' = [proto EXCEPT ![d] = p]
         /\ Goto(d, IF p = "osc" THEN "load" ELSE "serial")
    /\ gone' = [gone EXCEPT ![d] = {}]
    /\ UNCHANGED <<held, misused>>

monome_platform_get_dev_serial(d) ==
    /\ pc[d] = "serial"
    /\ \/ Take(d, {"serial"}) /\ Goto(d, "map")
       \/ Keep /\ Goto(d, "failed")
    /\ UNCHANGED proto

(* Seeded fault: the serial number of an unknown device is kept. *)
FaultyMapSerial(d) ==
    /\ pc[d] = "map"
    /\ Keep
    /\ Goto(d, "load") \/ Goto(d, "failed")
    /\ UNCHANGED proto

map_serial_to_device(d) ==
    /\ pc[d] = "map"
    /\ \/ Keep /\ Goto(d, "load")
       \/ Give(d, {"serial"}, {}) /\ Goto(d, "failed")
    /\ UNCHANGED proto

(* It gives the handle back itself when it cannot find or call the          *)
(* module's constructor.                                                    *)
monome_platform_load_protocol(d) ==
    /\ pc[d] = "load"
    /\ \/ Take(d, {"handle", "monome"}) /\ Goto(d, "open")
       \/ Keep /\ Goto(d, "err_init")
    /\ UNCHANGED proto

(* proto_series_open(), proto_40h_open() and mext_open(): a descriptor that *)
(* was opened is closed again before an error is returned.                  *)
SerialOpen(d) ==
    /\ pc[d] = "open" /\ proto[d] # "osc"
    /\ \/ Take(d, {"fd"}) /\ Goto(d, "device")
       \/ Keep /\ Goto(d, "err_protocol")
    /\ UNCHANGED proto

(* The server has no socket: proto_osc_open() frees what it has taken, the  *)
(* protocol's own structure included, and returns an error all the same.    *)
NoSocket(d) ==
    /\ SocketMissing
    /\ held' = [held EXCEPT ![d] = @ \ Freed(d)]
    /\ gone' = [gone EXCEPT ![d] = @ \cup (Freed(d) \ {"paths"})]
    /\ UNCHANGED misused

(* proto_osc_open(): no server, no memory for the first or for the last of  *)
(* the paths, or success.                                                   *)
proto_osc_open(d) ==
    /\ pc[d] = "open" /\ proto[d] = "osc"
    /\ \/ Keep /\ Goto(d, "err_protocol")
       \/ NoSocket(d) /\ Goto(d, "err_protocol")
       \/ Take(d, OscParts \ {"paths"}) /\ Goto(d, "err_protocol")
       \/ Take(d, OscParts) /\ Goto(d, "err_protocol")
       \/ Take(d, OscParts) /\ Goto(d, "device")
    /\ UNCHANGED proto

(* Seeded fault: nobody looks whether there was memory for the name. *)
FaultyCopyName(d) ==
    /\ pc[d] = "device"
    /\ Take(d, {"device"}) \/ Keep
    /\ Goto(d, "opened")
    /\ UNCHANGED proto

(* The name is copied. *)
CopyName(d) ==
    /\ pc[d] = "device"
    /\ \/ Take(d, {"device"}) /\ Goto(d, "opened")
       \/ Keep /\ Goto(d, "err_nomem")
    /\ UNCHANGED proto

(* Seeded fault: the protocol is freed here already. *)
FaultyNoMem(d) ==
    /\ pc[d] = "err_nomem"
    /\ Give(d, Closed(d) \cup Freed(d), {}) /\ Goto(d, "err_protocol")
    /\ UNCHANGED proto

err_nomem(d) ==
    /\ pc[d] = "err_nomem"
    /\ Give(d, Closed(d), {"monome"}) /\ Goto(d, "err_protocol")
    /\ UNCHANGED proto

(* monome_platform_free() calls the protocol's free() through the structure *)
(* and closes the module.                                                   *)
err_protocol(d) ==
    /\ pc[d] = "err_protocol"
    /\ Give(d, Freed(d) \cup {"handle"}, {"monome"})
    /\ Goto(d, "err_init")
    /\ UNCHANGED proto

err_init(d) ==
    /\ pc[d] = "err_init"
    /\ Give(d, {"serial"}, {}) /\ Goto(d, "failed")
    /\ UNCHANGED proto

monome_close(d) ==
    /\ pc[d] = "opened"
    /\ Give(d, {"serial", "device", "handle"} \cup Closed(d) \cup Freed(d),
            {"monome"})
    /\ Goto(d, "closed")
    /\ UNCHANGED proto

Step(d) == \/ Begin(d)
           \/ monome_platform_get_dev_serial(d)
           \/ map_serial_to_device(d)
           \/ monome_platform_load_protocol(d)
           \/ SerialOpen(d) \/ proto_osc_open(d)
           \/ CopyName(d)
           \/ err_nomem(d) \/ err_protocol(d) \/ err_init(d)
           \/ monome_close(d)

Next == \E d \in Devices : Step(d)

Spec == Init /\ [][Next]_vars

-----------------------------------------------------------------------------
(* Properties                                                               *)

(* Nothing is given back twice, nor used after it was given back, on any    *)
(* path through the errors (the test test_failures_clean_up_exactly_once).  *)
CleanedUpOnce == \A d \in Devices : misused[d] = {}

(* monome_open() that returns NULL and monome_close() leave nothing behind  *)
(* (the tests' fake_monome_outstanding_allocations() == 0).                 *)
NothingLeaks ==
    \A d \in Devices :
        pc[d] \in {"none", "failed", "closed"} => held[d] = {}

(* A device that was opened has everything its functions use. *)
OpenedIsComplete ==
    \A d \in Devices :
        pc[d] = "opened" =>
            held[d] = {"handle", "monome", "device"}
                        \cup (IF proto[d] = "osc" THEN OscParts
                                                  ELSE {"serial", "fd"})

=============================================================================
