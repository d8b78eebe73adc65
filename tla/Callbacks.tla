----------------------------- MODULE Callbacks ------------------------------
(***************************************************************************)
(* What class Monome promises of its callbacks                             *)
(* (src/include/monomepp/Monome.hpp): a device has one owner, to whose     *)
(* callbacks its events go, one callback for each event, the one that was  *)
(* set last, whether the event was taken by the wrapper, by the C library  *)
(* or by its loop; an owner may be moved, and callbacks and the count of   *)
(* those that failed move with it.  Monomepp implements this.              *)
(***************************************************************************)
EXTENDS Naturals, Sequences

CONSTANTS Wrappers, Devices, Types, Fns, None

VARIABLES
    device,    \* of each open device its owner, callbacks and failures
    pending,   \* events that were not taken yet
    active,    \* the callback that runs, with its device
    report     \* what the last function returned

vars == <<device, pending, active, report>>

Owns(w, d) == device[d] # None /\ device[d].owner = w
Idle == active = None

Init ==
    /\ device = [d \in Devices |-> None]
    /\ pending = [d \in Devices |-> <<>>]
    /\ active = None /\ report = "Success"

(* Devices of the owner that are closed lose their events. *)
Becomes(states) ==
    /\ device' = states
    /\ pending' = [d \in Devices |-> IF states[d] = None THEN <<>> ELSE pending[d]]
    /\ UNCHANGED <<active, report>>

Open(w, d) ==
    /\ device[d] = None /\ \A e \in Devices : ~Owns(w, e)
    /\ Becomes([device EXCEPT ![d] =
                  [owner |-> w, table |-> [t \in Types |-> None], failures |-> 0]])

(* v takes what w owns, and gives up what it owned. *)
Move(v, w) ==
    Becomes([d \in Devices |->
               IF Owns(w, d) THEN [device[d] EXCEPT !.owner = v]
               ELSE IF Owns(v, d) THEN None ELSE device[d]])

Close(w) == Becomes([d \in Devices |-> IF Owns(w, d) THEN None ELSE device[d]])

On(w, t, c) ==
    /\ \E d \in Devices : Owns(w, d) /\ device' = [device EXCEPT ![d].table[t] = c]
    /\ UNCHANGED <<pending, active, report>>

Arrive(d, t) ==
    /\ device[d] # None /\ pending' = [pending EXCEPT ![d] = Append(@, t)]
    /\ UNCHANGED <<device, active, report>>

(* The event goes to its callback, if there is one. *)
Handle(d) ==
    /\ Idle /\ device[d] # None /\ pending[d] # <<>>
    /\ pending' = [pending EXCEPT ![d] = Tail(@)]
    /\ LET t == Head(pending[d])
           c == device[d].table[t]
       IN active' = IF c = None THEN None ELSE [device |-> d, type |-> t, fn |-> c]
    /\ report' \in {report, "Event"}
    /\ UNCHANGED device

(* The event goes to whoever asked for it. *)
Take(w) ==
    /\ \E d \in Devices :
         /\ Owns(w, d) /\ pending[d] # <<>>
         /\ pending' = [pending EXCEPT ![d] = Tail(@)]
    /\ report' = "Event"
    /\ UNCHANGED <<device, active>>

(* Without a device every function fails. *)
Report(w) ==
    /\ report' \in IF \E d \in Devices : Owns(w, d)
                   THEN {"Success", "NoData", "DeviceError"} ELSE {"DeviceError"}
    /\ UNCHANGED <<device, pending, active>>

Returns == active # None /\ active' = None /\ UNCHANGED <<device, pending, report>>

Throws ==
    /\ active # None /\ active' = None
    /\ device' = [device EXCEPT ![active.device].failures = @ + 1]
    /\ UNCHANGED <<pending, report>>

Next ==
    \/ \E w \in Wrappers, d \in Devices : Open(w, d)
    \/ \E v, w \in Wrappers : Move(v, w)
    \/ \E w \in Wrappers : Close(w) \/ Take(w) \/ Report(w)
    \/ \E w \in Wrappers, t \in Types, c \in Fns \cup {None} : On(w, t, c)
    \/ \E d \in Devices, t \in Types : Arrive(d, t)
    \/ \E d \in Devices : Handle(d)
    \/ Returns \/ Throws

Spec == Init /\ [][Next]_vars

=============================================================================
