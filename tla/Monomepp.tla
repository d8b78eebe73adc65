------------------------------ MODULE Monomepp ------------------------------
(***************************************************************************)
(* Event dispatch (src/libmonome.c, the loop of src/platform/posix.c) and  *)
(* the C++ wrapper above it (src/cpp/Monome.cpp).  There are two tables of *)
(* callbacks: the device has one, of C handlers with their data, and each  *)
(* wrapper has one, of functions, in a CallbackState on the heap, to which *)
(* the data of the handlers point.  Events are dispatched through either.  *)
(*                                                                         *)
(* One thread runs everything, as Monome.hpp demands.  A running callback  *)
(* may call whatever the application may, except that it takes no events   *)
(* itself, nor ends the device it is called for.                           *)
(***************************************************************************)
EXTENDS Integers, Sequences

CONSTANTS
    Wrappers,           \* the Monome objects of the application
    Devices,            \* devices it opens, each once
    Types,              \* the event types
    Fns,                \* callbacks
    None,               \* nullptr, or an empty std::function
    RegistrationFails,  \* may monome_register_handler() refuse, as that of
                        \* the tests does?
    MaxEvents           \* bound: events of a device

ASSUME MonomeppAssumption ==
    /\ None \notin Wrappers \cup Devices \cup Types \cup Fns
    /\ RegistrationFails \in BOOLEAN /\ MaxEvents \in Nat

(* What is none is not a callback that runs, nor the owner of a device.     *)
ASSUME NoneAssumption ==
    /\ None \notin [by : Wrappers \cup {None}, state : Devices, type : Types, fn : Fns]
    /\ None \notin [device : Devices, type : Types, fn : Fns]
    /\ None \notin [owner : Wrappers, table : [Types -> Fns \cup {None}],
                    failures : Nat]

VARIABLES
    phase,          \* of a device: "new", "open", "closed"
    handlers,       \* monome->handlers: the data of the handlers that are set
    pending,        \* events next_event() has not returned yet
    events,         \* number of events so far (history)
    loop,           \* the device whose monome_event_loop() is running
    alive,          \* wrappers that are constructed and not destroyed
    monome_,        \* of a wrapper: the device it owns
    callbackState_, \* of a wrapper: its CallbackState
    callbacks,      \* of a CallbackState, named for the device it was made for
    failureCount,   \* of a CallbackState
    running,        \* the callback that runs, and who called it
    report          \* the status the last function returned

libraryVars == <<phase, handlers, pending, events, loop>>
wrapperVars == <<alive, monome_, callbackState_>>
stateVars == <<callbacks, failureCount>>
vars == <<libraryVars, wrapperVars, stateVars, running, report>>

Empty == [t \in Types |-> None]
Statuses == {"Success", "Event", "NoData", "DeviceError"}
Running == [by : Wrappers \cup {None}, state : Devices, type : Types, fn : Fns]

TypeOK ==
    /\ phase \in [Devices -> {"new", "open", "closed"}]
    /\ handlers \in [Devices -> [Types -> Devices \cup {None}]]
    /\ pending \in [Devices -> Seq(Types)]
    /\ events \in [Devices -> 0..MaxEvents]
    /\ loop \in Devices \cup {None}
    /\ alive \subseteq Wrappers
    /\ monome_ \in [Wrappers -> Devices \cup {None}]
    /\ callbackState_ \in [Wrappers -> Devices \cup {None}]
    /\ callbacks \in [Devices -> [Types -> Fns \cup {None}]]
    /\ failureCount \in [Devices -> Nat]
    /\ running \in Running \cup {None}
    /\ report \in Statuses

Init ==
    /\ phase = [d \in Devices |-> "new"]
    /\ handlers = [d \in Devices |-> Empty]
    /\ pending = [d \in Devices |-> <<>>] /\ events = [d \in Devices |-> 0]
    /\ loop = None
    /\ alive = {}
    /\ monome_ = [w \in Wrappers |-> None]
    /\ callbackState_ = [w \in Wrappers |-> None]
    /\ callbacks = [d \in Devices |-> Empty]
    /\ failureCount = [d \in Devices |-> 0]
    /\ running = None /\ report = "Success"

(* The application, or one of its callbacks, has the thread. *)
Control == loop = None \/ running # None

(* The device has code running that will come back to it. *)
InUse(d) == loop = d \/ (running # None /\ running.state = d)

-----------------------------------------------------------------------------
(* Owners of devices                                                        *)

(* The constructor, when monome_open() succeeds.  When it fails nothing is  *)
(* left of the wrapper.                                                     *)
Construct(w, d) ==
    /\ Control /\ w \notin alive /\ phase[d] = "new"
    /\ alive' = alive \cup {w}
    /\ callbackState_' = [callbackState_ EXCEPT ![w] = d]
    /\ monome_' = [monome_ EXCEPT ![w] = d]
    /\ phase' = [phase EXCEPT ![d] = "open"]
    /\ UNCHANGED <<handlers, pending, events, loop, stateVars, running, report>>

(* v gets what w has; std::move and std::exchange leave null pointers. *)
Transfer(v, w) ==
    /\ callbackState_' = [callbackState_ EXCEPT ![v] = callbackState_[w], ![w] = None]
    /\ monome_' = [monome_ EXCEPT ![v] = monome_[w], ![w] = None]

(* Seeded fault: close() is left to the destructor of the handle. *)
Faulty_close(w) == UNCHANGED <<phase, handlers, pending>>

(* close() and unregisterCallbacks(): all handlers are unset, then the      *)
(* device is closed.                                                        *)
close(w) ==
    IF monome_[w] = None THEN UNCHANGED <<phase, handlers, pending>>
    ELSE /\ handlers' = [handlers EXCEPT ![monome_[w]] = Empty]
         /\ phase' = [phase EXCEPT ![monome_[w]] = "closed"]
         /\ pending' = [pending EXCEPT ![monome_[w]] = <<>>]

MoveConstruct(v, w) ==
    /\ Control /\ v \notin alive /\ w \in alive
    /\ alive' = alive \cup {v}
    /\ Transfer(v, w)
    /\ UNCHANGED <<libraryVars, stateVars, running, report>>

(* A wrapper assigned to itself keeps what it has. *)
MoveAssign(v, w) ==
    /\ Control /\ v \in alive /\ w \in alive \ {v}
    /\ monome_[v] # None => ~InUse(monome_[v])
    /\ close(v)
    /\ Transfer(v, w)
    /\ UNCHANGED <<events, loop, alive, stateVars, running, report>>

Destroy(w) ==
    /\ Control /\ w \in alive
    /\ monome_[w] # None => ~InUse(monome_[w])
    /\ close(w)
    /\ alive' = alive \ {w}
    /\ callbackState_' = [callbackState_ EXCEPT ![w] = None]
    /\ monome_' = [monome_ EXCEPT ![w] = None]
    /\ UNCHANGED <<events, loop, stateVars, running, report>>

-----------------------------------------------------------------------------
(* Callbacks                                                                *)

(* Seeded fault: a registration forgets those of other events. *)
Faulty_monome_register_handler(d, t, data) ==
    handlers' = [handlers EXCEPT ![d] = [Empty EXCEPT ![t] = data]]

(* monome_register_handler() and monome_unregister_handler(). *)
monome_register_handler(d, t, data) == handlers' = [handlers EXCEPT ![d][t] = data]

(* Seeded fault: the function is stored first and registered afterwards. *)
FaultyOn(w, t, c) ==
    /\ Control /\ w \in alive /\ monome_[w] # None
    /\ callbacks' = [callbacks EXCEPT ![callbackState_[w]][t] = c]
    /\ \/ RegistrationFails /\ UNCHANGED handlers
       \/ monome_register_handler(monome_[w], t,
                                  IF c = None THEN None ELSE callbackState_[w])
    /\ UNCHANGED <<phase, pending, events, loop, wrapperVars, failureCount,
                   running, report>>

(* on(), which throws if the wrapper is closed or the registration fails. *)
On(w, t, c) ==
    /\ Control /\ w \in alive /\ monome_[w] # None
    /\ \/ RegistrationFails /\ UNCHANGED <<handlers, callbacks>>
       \/ /\ monome_register_handler(monome_[w], t,
                                     IF c = None THEN None ELSE callbackState_[w])
          /\ callbacks' = [callbacks EXCEPT ![callbackState_[w]][t] = c]
    /\ UNCHANGED <<phase, pending, events, loop, wrapperVars, failureCount,
                   running, report>>

-----------------------------------------------------------------------------
(* Events                                                                   *)

(* An event arrives (external). *)
Arrive(d, t) ==
    /\ phase[d] = "open" /\ events[d] < MaxEvents
    /\ events' = [events EXCEPT ![d] = @ + 1]
    /\ pending' = [pending EXCEPT ![d] = Append(@, t)]
    /\ UNCHANGED <<phase, handlers, loop, wrapperVars, stateVars, running, report>>

(* monome->next_event() returns 1 and the oldest event. *)
monome_event_next(d) ==
    /\ phase[d] = "open" /\ pending[d] # <<>>
    /\ pending' = [pending EXCEPT ![d] = Tail(@)]

(* Seeded fault: an empty function is called. *)
FaultyCall(by, state, t) ==
    running' = [by |-> by, state |-> state, type |-> t, fn |-> callbacks[state][t]]

(* The function of state for event t is called by a wrapper or by C code. *)
Call(by, state, t) ==
    running' = IF callbacks[state][t] = None THEN None
               ELSE [by |-> by, state |-> state, type |-> t,
                     fn |-> callbacks[state][t]]

(* eventNext(), and the first lines of eventHandleNext(): nothing, or an    *)
(* error, also when a moved-from wrapper is asked.                          *)
EventNextFails(w) ==
    /\ Control /\ running = None /\ w \in alive
    /\ \/ monome_[w] = None /\ report' = "DeviceError"
       \/ monome_[w] # None /\ report' \in {"NoData", "DeviceError"}
    /\ UNCHANGED <<libraryVars, wrapperVars, stateVars, running>>

EventNext(w) ==
    /\ Control /\ running = None /\ w \in alive /\ monome_[w] # None
    /\ monome_event_next(monome_[w]) /\ report' = "Event"
    /\ UNCHANGED <<phase, handlers, events, loop, wrapperVars, stateVars, running>>

EventHandleNext(w) ==
    /\ Control /\ running = None /\ w \in alive /\ monome_[w] # None
    /\ monome_event_next(monome_[w]) /\ report' = "Event"
    /\ Call(w, callbackState_[w], Head(pending[monome_[w]]))
    /\ UNCHANGED <<phase, handlers, events, loop, wrapperVars, stateVars>>

(* monome_event_handle_next(), and a round of the loop: the handler is      *)
(* handleEvent() with a CallbackState, or there is none.                    *)
monome_event_handle_next(d) ==
    LET data == handlers[d][Head(pending[d])]
    IN /\ monome_event_next(d)
       /\ IF data = None THEN running' = None
          ELSE Call(None, data, Head(pending[d]))

(* By the borrowed C handle of some wrapper, or by the loop. *)
NativeHandleNext(d) ==
    /\ running = None /\ phase[d] = "open" /\ loop \in {None, d}
    /\ monome_event_handle_next(d)
    /\ UNCHANGED <<phase, handlers, events, loop, wrapperVars, stateVars, report>>

(* monome_event_loop() goes on after next_event() failed, and ends when     *)
(* select() fails.                                                          *)
EventLoop(w) ==
    /\ Control /\ running = None /\ w \in alive /\ monome_[w] # None
    /\ loop' = monome_[w]
    /\ UNCHANGED <<phase, handlers, pending, events, wrapperVars, stateVars,
                   running, report>>

LoopEnds ==
    /\ loop # None /\ running = None
    /\ loop' = None
    /\ UNCHANGED <<phase, handlers, pending, events, wrapperVars, stateVars,
                   running, report>>

CallbackReturns ==
    /\ running # None
    /\ running' = None
    /\ UNCHANGED <<libraryVars, wrapperVars, stateVars, report>>

(* eventHandleNext() counts in the wrapper's CallbackState, handleEvent() in *)
(* that of its data.                                                        *)
Counter == IF running.by = None THEN running.state ELSE callbackState_[running.by]

(* A callback that moved the wrapper it is called by does not throw: the    *)
(* wrapper would have no CallbackState, or another one.                     *)
CallbackThrows ==
    /\ running # None
    /\ running.by # None => callbackState_[running.by] = running.state
    /\ failureCount' = [failureCount EXCEPT ![Counter] = @ + 1]
    /\ running' = None
    /\ UNCHANGED <<libraryVars, wrapperVars, callbacks, report>>

-----------------------------------------------------------------------------
(* Output                                                                   *)

makeIoResult(native) == IF native < 0 THEN "DeviceError" ELSE "Success"

(* The LED, ring and tilt functions: EBADF without a device, EINVAL without *)
(* data, else what the C function says.                                     *)
LedCall(w) ==
    /\ Control /\ w \in alive
    /\ \/ monome_[w] = None /\ report' = "DeviceError"
       \/ monome_[w] # None /\ \E native \in {-1, 0, 1} : report' = makeIoResult(native)
    /\ UNCHANGED <<libraryVars, wrapperVars, stateVars, running>>

-----------------------------------------------------------------------------
Next ==
    \/ \E w \in Wrappers, d \in Devices : Construct(w, d)
    \/ \E v, w \in Wrappers : MoveConstruct(v, w) \/ MoveAssign(v, w)
    \/ \E w \in Wrappers : Destroy(w) \/ LedCall(w)
    \/ \E w \in Wrappers, t \in Types, c \in Fns \cup {None} : On(w, t, c)
    \/ \E d \in Devices, t \in Types : Arrive(d, t)
    \/ \E w \in Wrappers :
         EventNext(w) \/ EventNextFails(w) \/ EventHandleNext(w) \/ EventLoop(w)
    \/ \E d \in Devices : NativeHandleNext(d)
    \/ LoopEnds \/ CallbackReturns \/ CallbackThrows

Spec == Init /\ [][Next]_vars

-----------------------------------------------------------------------------
(* Properties                                                               *)

(* No device is owned twice, none is left open without an owner, and none   *)
(* is owned that is closed, whatever is moved, assigned over or destroyed,  *)
(* in callbacks or out of them.                                             *)
OneOwner ==
    /\ \A v, w \in Wrappers :
         v # w /\ monome_[v] = monome_[w] => monome_[v] = None
    /\ \A d \in Devices :
         phase[d] = "open" <=> \E w \in alive : monome_[w] = d
    /\ \A w \in Wrappers \ alive : monome_[w] = None

(* "C and C++ callback state cannot diverge" (the comment in on()): the     *)
(* handlers of a device are those of the functions its owner has, and their *)
(* data are its owner's CallbackState, wherever that has moved.             *)
TablesAgree ==
    \A w \in Wrappers : monome_[w] # None =>
        /\ callbackState_[w] # None
        /\ \A t \in Types :
             handlers[monome_[w]][t] =
                 IF callbacks[callbackState_[w]][t] = None THEN None
                 ELSE callbackState_[w]

(* What Callbacks has of each device, and of the callback that runs. *)
Owners(d) == {w \in Wrappers : monome_[w] = d}
Owned == [d \in Devices |->
            IF Owners(d) = {} THEN None
            ELSE LET w == CHOOSE v \in Owners(d) : TRUE
                 IN [owner |-> w, table |-> callbacks[callbackState_[w]],
                     failures |-> failureCount[callbackState_[w]]]]
Active == IF running = None THEN None
          ELSE [device |-> running.state, type |-> running.type, fn |-> running.fn]

(* Events go to the callback that was set last, however they are            *)
(* dispatched, none is run for an event that did not happen, failures are   *)
(* counted for the device whose callback failed, and wrappers without a     *)
(* device say so.                                                           *)
Promise == INSTANCE Callbacks WITH device <- Owned, active <- Active
MonomeppImplementsCallbacks == Promise!Spec

=============================================================================
