--------------------------- MODULE MonomeppProofs ---------------------------
(***************************************************************************)
(* What Monomepp promises for any number of wrappers, devices and events,  *)
(* and that it implements Callbacks: every step of the two tables, the     *)
(* handles and the loop is a step of the one table of each owner, or none. *)
(***************************************************************************)
EXTENDS Monomepp, TLAPS

(* A wrapper and its CallbackState are never parted, and nothing is         *)
(* registered with a device, nor kept for it, before it is opened: the      *)
(* constructor relies on both.                                              *)
StateIsOwned == callbackState_ = monome_
Fresh == \A d \in Devices :
           phase[d] = "new" => handlers[d] = Empty /\ callbacks[d] = Empty

(* TablesAgree, said of devices. *)
Agreed(d) == \A t \in Types :
               handlers[d][t] = IF callbacks[d][t] = None THEN None ELSE d
OwnedAgree == \A w \in Wrappers : monome_[w] # None => Agreed(monome_[w])

IInv == TypeOK /\ OneOwner /\ StateIsOwned /\ Fresh /\ OwnedAgree

-----------------------------------------------------------------------------
LEMMA InitIInv == Init => IInv
  BY MonomeppAssumption DEF Init, IInv, TypeOK, OneOwner, StateIsOwned, Fresh,
     OwnedAgree, Empty, Statuses

LEMMA CloseKeepsTypes ==
    ASSUME TypeOK, NEW w \in Wrappers, close(w)
    PROVE  /\ phase' \in [Devices -> {"new", "open", "closed"}]
           /\ handlers' \in [Devices -> [Types -> Devices \cup {None}]]
           /\ pending' \in [Devices -> Seq(Types)]
  <1>1. CASE monome_[w] = None
    BY <1>1 DEF close, TypeOK
  <1>2. CASE monome_[w] # None
    <2>1. monome_[w] \in Devices
      BY <1>2 DEF TypeOK
    <2>2. Empty \in [Types -> Devices \cup {None}] /\ <<>> \in Seq(Types)
      BY DEF Empty
    <2>. QED  BY <1>2, <2>1, <2>2 DEF close, TypeOK
  <1>. QED  BY <1>1, <1>2

LEMMA RegisterKeepsTypes ==
    ASSUME TypeOK, NEW d \in Devices, NEW t \in Types,
           NEW data \in Devices \cup {None}, monome_register_handler(d, t, data)
    PROVE  handlers' \in [Devices -> [Types -> Devices \cup {None}]]
  <1>1. [handlers[d] EXCEPT ![t] = data] \in [Types -> Devices \cup {None}]
    BY DEF TypeOK
  <1>. QED  BY <1>1 DEF TypeOK, monome_register_handler

LEMMA StepKeepsTypes == IInv /\ [Next]_vars => TypeOK'
  <1>. SUFFICES ASSUME IInv, [Next]_vars PROVE TypeOK'
    OBVIOUS
  <1>. USE MonomeppAssumption DEF IInv, TypeOK, libraryVars, wrapperVars, stateVars
  <1>1. ASSUME NEW w \in Wrappers, NEW d \in Devices, Construct(w, d) PROVE TypeOK'
    BY <1>1 DEF Construct
  <1>2. ASSUME NEW v \in Wrappers, NEW w \in Wrappers, MoveConstruct(v, w) PROVE TypeOK'
    BY <1>2 DEF MoveConstruct, Transfer
  <1>3. ASSUME NEW v \in Wrappers, NEW w \in Wrappers, MoveAssign(v, w) PROVE TypeOK'
    BY <1>3, CloseKeepsTypes DEF MoveAssign, Transfer
  <1>4. ASSUME NEW w \in Wrappers, Destroy(w) PROVE TypeOK'
    BY <1>4, CloseKeepsTypes DEF Destroy
  <1>5. ASSUME NEW w \in Wrappers, LedCall(w) PROVE TypeOK'
    BY <1>5 DEF LedCall, makeIoResult, Statuses
  <1>6. ASSUME NEW w \in Wrappers, NEW t \in Types, NEW c \in Fns \cup {None}, On(w, t, c) PROVE TypeOK'
    <2>1. callbackState_[w] = monome_[w] /\ monome_[w] \in Devices
      BY <1>6 DEF On, StateIsOwned
    <2>2. handlers' \in [Devices -> [Types -> Devices \cup {None}]]
      <3>. DEFINE data == IF c = None THEN None ELSE callbackState_[w]
      <3>1. CASE monome_register_handler(monome_[w], t, data)
        BY <2>1, <3>1, RegisterKeepsTypes
      <3>. QED  BY <1>6, <3>1 DEF On
    <2>3. callbacks' \in [Devices -> [Types -> Fns \cup {None}]]
      <3>1. [callbacks[callbackState_[w]] EXCEPT ![t] = c] \in [Types -> Fns \cup {None}]
        BY <2>1
      <3>. QED  BY <1>6, <2>1, <3>1 DEF On
    <2>. QED  BY <1>6, <2>2, <2>3 DEF On
  <1>7. ASSUME NEW d \in Devices, NEW t \in Types, Arrive(d, t) PROVE TypeOK'
    BY <1>7 DEF Arrive
  <1>8. ASSUME NEW w \in Wrappers, EventNext(w) PROVE TypeOK'
    BY <1>8 DEF EventNext, monome_event_next, Statuses
  <1>9. ASSUME NEW w \in Wrappers, EventNextFails(w) PROVE TypeOK'
    BY <1>9 DEF EventNextFails, Statuses
  <1>10. ASSUME NEW w \in Wrappers, EventHandleNext(w) PROVE TypeOK'
    BY <1>10 DEF EventHandleNext, monome_event_next, Call, Statuses, Running, StateIsOwned
  <1>11. ASSUME NEW w \in Wrappers, EventLoop(w) PROVE TypeOK'
    BY <1>11 DEF EventLoop
  <1>12. ASSUME NEW d \in Devices, NativeHandleNext(d) PROVE TypeOK'
    BY <1>12 DEF NativeHandleNext, monome_event_handle_next, monome_event_next, Call, Statuses, Running, StateIsOwned
  <1>13. ASSUME LoopEnds PROVE TypeOK'
    BY <1>13 DEF LoopEnds
  <1>14. ASSUME CallbackReturns PROVE TypeOK'
    BY <1>14 DEF CallbackReturns
  <1>15. ASSUME CallbackThrows PROVE TypeOK'
    BY <1>15 DEF CallbackThrows, Counter, Running
  <1>16. CASE UNCHANGED vars
    BY <1>16 DEF vars
  <1>. QED  BY <1>1, <1>2, <1>3, <1>4, <1>5, <1>6, <1>7, <1>8, <1>9, <1>10, <1>11, <1>12, <1>13, <1>14, <1>15, <1>16 DEF Next

(* Owners and tables; Others are the steps that touch neither.              *)
OwnerInv == OneOwner /\ StateIsOwned /\ Fresh /\ OwnedAgree

LEMMA OthersKeepOwnerInv ==
    ASSUME IInv, UNCHANGED <<phase, handlers, wrapperVars, callbacks>>
    PROVE  OwnerInv'
  BY DEF IInv, OwnerInv, OneOwner, StateIsOwned, Fresh, OwnedAgree, Agreed,
     Empty, wrapperVars

LEMMA ConstructKeepsOwnerInv ==
    ASSUME IInv, NEW w \in Wrappers, NEW d \in Devices, Construct(w, d)
    PROVE  OwnerInv'
  <1>. USE DEF IInv, TypeOK
  <1>1. monome_[w] = None /\ \A v \in Wrappers : monome_[v] # d
    BY MonomeppAssumption DEF Construct, OneOwner
  <1>2. OneOwner'
    BY <1>1, MonomeppAssumption DEF Construct, OneOwner
  <1>3. StateIsOwned' /\ Fresh'
    BY DEF Construct, StateIsOwned, Fresh, Empty, stateVars
  <1>4. OwnedAgree'
    <2>1. Agreed(d)'
      BY DEF Construct, Fresh, Empty, Agreed, stateVars
    <2>. QED  BY <2>1, <1>1 DEF Construct, OwnedAgree, Agreed, stateVars
  <1>. QED  BY <1>2, <1>3, <1>4 DEF OwnerInv

(* What the parts of the steps do, a wrapper or device at a time.           *)
LEMMA TransferMoves ==
    ASSUME IInv, NEW v \in Wrappers, NEW w \in Wrappers, v # w, Transfer(v, w)
    PROVE  /\ callbackState_' = monome_'
           /\ monome_'[w] = None /\ monome_'[v] = monome_[w]
           /\ \A u \in Wrappers \ {v, w} : monome_'[u] = monome_[u]
  BY DEF IInv, TypeOK, StateIsOwned, Transfer

LEMMA CloseCloses ==
    ASSUME IInv, NEW w \in Wrappers, close(w)
    PROVE  \A d \in Devices :
             /\ d = monome_[w] => phase'[d] = "closed" /\ handlers'[d] = Empty
             /\ d # monome_[w] => phase'[d] = phase[d] /\ handlers'[d] = handlers[d]
  BY MonomeppAssumption DEF IInv, TypeOK, close

LEMMA OwnersDiffer ==
    ASSUME IInv
    PROVE  /\ alive \subseteq Wrappers
           /\ \A u \in Wrappers : monome_[u] \in Devices \cup {None}
           /\ \A u, x \in Wrappers : monome_[u] = monome_[x] /\ u # x => monome_[u] = None
           /\ \A u \in Wrappers : u \notin alive => monome_[u] = None
           /\ \A d \in Devices : phase[d] = "open" <=> \E u \in alive : monome_[u] = d
           /\ None \notin Devices
  BY MonomeppAssumption DEF IInv, TypeOK, OneOwner

(* v has what it or, if it moves, w had: no other wrapper is concerned.     *)
LEMMA OwnersStayDifferent ==
    ASSUME IInv, NEW v \in Wrappers, NEW w \in Wrappers, v # w,
           monome_'[w] = None, monome_'[v] = monome_[w],
           \A u \in Wrappers \ {v, w} : monome_'[u] = monome_[u]
    PROVE  \A u, x \in Wrappers : u # x /\ monome_'[u] = monome_'[x] => monome_'[u] = None
  <1>. SUFFICES ASSUME NEW u \in Wrappers, NEW x \in Wrappers, u # x,
                       monome_'[u] = monome_'[x], monome_'[u] # None
                PROVE  FALSE
    OBVIOUS
  <1>1. u # w /\ x # w
    OBVIOUS
  <1>2. CASE u = v
    BY <1>1, <1>2, OwnersDiffer
  <1>3. CASE x = v
    BY <1>1, <1>3, OwnersDiffer
  <1>4. CASE u # v /\ x # v
    BY <1>1, <1>4, OwnersDiffer
  <1>. QED  BY <1>2, <1>3, <1>4

LEMMA MoveConstructKeepsOwnerInv ==
    ASSUME IInv, NEW v \in Wrappers, NEW w \in Wrappers, MoveConstruct(v, w)
    PROVE  OwnerInv'
  <1>1. /\ v # w /\ monome_[v] = None /\ w \in alive /\ alive' = alive \cup {v}
        /\ phase' = phase /\ handlers' = handlers /\ callbacks' = callbacks
    BY OwnersDiffer DEF MoveConstruct, libraryVars, stateVars
  <1>2. /\ callbackState_' = monome_'
        /\ monome_'[w] = None /\ monome_'[v] = monome_[w]
        /\ \A u \in Wrappers \ {v, w} : monome_'[u] = monome_[u]
    BY <1>1, TransferMoves DEF MoveConstruct
  <1>3. OneOwner'
    <2>1. \A d \in Devices : phase'[d] = "open" <=> \E u \in alive' : monome_'[u] = d
      <3>. TAKE d \in Devices
      <3>1. (\E u \in alive' : monome_'[u] = d) <=> (\E u \in alive : monome_[u] = d)
        BY <1>1, <1>2, OwnersDiffer
      <3>. QED  BY <1>1, <3>1, OwnersDiffer
    <2>2. \A u \in Wrappers \ alive' : monome_'[u] = None
      BY <1>1, <1>2, OwnersDiffer
    <2>. QED  BY <1>1, <1>2, <2>1, <2>2, OwnersStayDifferent DEF OneOwner
  <1>4. StateIsOwned' /\ Fresh'
    BY <1>1, <1>2 DEF IInv, StateIsOwned, Fresh, Empty
  <1>5. OwnedAgree'
    <2>. SUFFICES ASSUME NEW u \in Wrappers, monome_'[u] # None
                  PROVE  Agreed(monome_[u])'
      BY DEF OwnedAgree
    <2>1. PICK x \in Wrappers : monome_'[u] = monome_[x]
      BY <1>1, <1>2
    <2>. QED  BY <1>1, <2>1 DEF IInv, OwnedAgree, Agreed
  <1>. QED  BY <1>3, <1>4, <1>5 DEF OwnerInv

LEMMA MoveAssignKeepsOwnerInv ==
    ASSUME IInv, NEW v \in Wrappers, NEW w \in Wrappers, MoveAssign(v, w)
    PROVE  OwnerInv'
  <1>1. v \in alive /\ w \in alive /\ v # w /\ alive' = alive /\ callbacks' = callbacks
    BY DEF MoveAssign, stateVars
  <1>2. /\ callbackState_' = monome_'
        /\ monome_'[w] = None /\ monome_'[v] = monome_[w]
        /\ \A u \in Wrappers \ {v, w} : monome_'[u] = monome_[u]
    BY <1>1, TransferMoves DEF MoveAssign
  <1>3. \A d \in Devices :
          /\ d = monome_[v] => phase'[d] = "closed" /\ handlers'[d] = Empty
          /\ d # monome_[v] => phase'[d] = phase[d] /\ handlers'[d] = handlers[d]
    BY CloseCloses DEF MoveAssign
  <1>4. OneOwner'
    <2>1. ASSUME NEW d \in Devices
          PROVE  phase'[d] = "open" <=> \E u \in alive' : monome_'[u] = d
      <3>1. CASE d = monome_[v]
        <4>1. \A u \in alive : monome_'[u] # d
          <5>. SUFFICES ASSUME NEW u \in alive, monome_'[u] = d PROVE FALSE
            OBVIOUS
          <5>1. u \in Wrappers /\ d # None
            BY OwnersDiffer
          <5>2. CASE u = w
            BY <1>2, <5>1, <5>2
          <5>3. CASE u = v
            BY <1>1, <1>2, <3>1, <5>1, <5>3, OwnersDiffer
          <5>4. CASE u \notin {v, w}
            BY <1>2, <3>1, <5>1, <5>4, OwnersDiffer
          <5>. QED  BY <5>2, <5>3, <5>4
        <4>. QED  BY <1>1, <1>3, <3>1, <4>1
      <3>2. CASE d # monome_[v]
        <4>1. (\E u \in alive : monome_'[u] = d) <=> (\E u \in alive : monome_[u] = d)
          BY <1>1, <1>2, <3>2, OwnersDiffer
        <4>. QED  BY <1>1, <1>3, <3>2, <4>1, OwnersDiffer
      <3>. QED  BY <3>1, <3>2
    <2>2. \A u \in Wrappers \ alive' : monome_'[u] = None
      BY <1>1, <1>2, OwnersDiffer
    <2>. QED  BY <1>1, <1>2, <2>1, <2>2, OwnersStayDifferent DEF OneOwner
  <1>5. StateIsOwned' /\ Fresh'
    BY <1>1, <1>2, <1>3 DEF IInv, StateIsOwned, Fresh, Empty
  <1>6. OwnedAgree'
    <2>. SUFFICES ASSUME NEW u \in Wrappers, monome_'[u] # None
                  PROVE  Agreed(monome_[u])'
      BY DEF OwnedAgree
    <2>1. PICK x \in Wrappers : x # v /\ monome_'[u] = monome_[x]
      BY <1>1, <1>2
    <2>2. monome_[x] # monome_[v] /\ monome_[x] \in Devices
      BY <2>1, OwnersDiffer
    <2>3. Agreed(monome_[x])
      BY <2>1 DEF IInv, OwnedAgree
    <2>. QED  BY <1>1, <1>3, <2>1, <2>2, <2>3 DEF Agreed
  <1>. QED  BY <1>4, <1>5, <1>6 DEF OwnerInv

LEMMA DestroyKeepsOwnerInv ==
    ASSUME IInv, NEW w \in Wrappers, Destroy(w)
    PROVE  OwnerInv'
  <1>1. /\ w \in alive /\ alive' = alive \ {w} /\ callbacks' = callbacks
        /\ monome_'[w] = None /\ callbackState_' = monome_'
        /\ \A u \in Wrappers \ {w} : monome_'[u] = monome_[u]
    BY DEF Destroy, IInv, TypeOK, StateIsOwned, stateVars
  <1>2. \A d \in Devices :
          /\ d = monome_[w] => phase'[d] = "closed" /\ handlers'[d] = Empty
          /\ d # monome_[w] => phase'[d] = phase[d] /\ handlers'[d] = handlers[d]
    BY CloseCloses DEF Destroy
  <1>3. OneOwner'
    <2>1. ASSUME NEW d \in Devices
          PROVE  phase'[d] = "open" <=> \E u \in alive' : monome_'[u] = d
      <3>1. (\E u \in alive' : monome_'[u] = d)
              <=> d # monome_[w] /\ (\E u \in alive : monome_[u] = d)
        BY <1>1, OwnersDiffer
      <3>. QED  BY <1>2, <3>1, OwnersDiffer
    <2>2. \A u, x \in Wrappers : u # x /\ monome_'[u] = monome_'[x] => monome_'[u] = None
      BY <1>1, OwnersDiffer
    <2>3. \A u \in Wrappers \ alive' : monome_'[u] = None
      BY <1>1, OwnersDiffer
    <2>. QED  BY <2>1, <2>2, <2>3 DEF OneOwner
  <1>4. StateIsOwned' /\ Fresh'
    BY <1>1, <1>2 DEF IInv, StateIsOwned, Fresh, Empty
  <1>5. OwnedAgree'
    <2>. SUFFICES ASSUME NEW u \in Wrappers, monome_'[u] # None
                  PROVE  Agreed(monome_[u])'
      BY DEF OwnedAgree
    <2>1. u # w /\ monome_'[u] = monome_[u] /\ monome_[u] # monome_[w] /\ monome_[u] \in Devices
      BY <1>1, OwnersDiffer
    <2>2. Agreed(monome_[u])
      BY <2>1 DEF IInv, OwnedAgree
    <2>. QED  BY <1>1, <1>2, <2>1, <2>2 DEF Agreed
  <1>. QED  BY <1>3, <1>4, <1>5 DEF OwnerInv

LEMMA OnKeepsOwnerInv ==
    ASSUME IInv, NEW w \in Wrappers, NEW t \in Types, NEW c \in Fns \cup {None},
           On(w, t, c)
    PROVE  OwnerInv'
  <1>. USE DEF IInv, TypeOK
  <1>1. callbackState_[w] = monome_[w] /\ monome_[w] \in Devices
    BY DEF On, StateIsOwned
  <1>2. phase[monome_[w]] = "open"
    BY <1>1, MonomeppAssumption DEF On, OneOwner
  <1>3. OneOwner' /\ StateIsOwned'
    BY DEF On, OneOwner, StateIsOwned, wrapperVars
  <1>4. CASE UNCHANGED <<handlers, callbacks>>
    BY <1>4, OthersKeepOwnerInv DEF On
  <1>5. CASE /\ monome_register_handler(monome_[w], t,
                                        IF c = None THEN None ELSE callbackState_[w])
             /\ callbacks' = [callbacks EXCEPT ![callbackState_[w]][t] = c]
    <2>1. Fresh'
      BY <1>1, <1>2, <1>5 DEF On, monome_register_handler, Fresh, Empty
    <2>2. OwnedAgree'
      BY <1>1, <1>5 DEF On, monome_register_handler, OwnedAgree, Agreed, wrapperVars
    <2>. QED  BY <1>3, <2>1, <2>2 DEF OwnerInv
  <1>. QED  BY <1>4, <1>5 DEF On

LEMMA StepKeepsIInv == IInv /\ [Next]_vars => IInv'
  <1>. SUFFICES ASSUME IInv, [Next]_vars PROVE OwnerInv'
    BY StepKeepsTypes DEF IInv, OwnerInv
  <1>1. ASSUME NEW w \in Wrappers, NEW d \in Devices, Construct(w, d)
        PROVE  OwnerInv'
    BY <1>1, ConstructKeepsOwnerInv
  <1>2. ASSUME NEW v \in Wrappers, NEW w \in Wrappers,
               MoveConstruct(v, w) \/ MoveAssign(v, w)
        PROVE  OwnerInv'
    BY <1>2, MoveConstructKeepsOwnerInv, MoveAssignKeepsOwnerInv
  <1>3. ASSUME NEW w \in Wrappers, Destroy(w) PROVE OwnerInv'
    BY <1>3, DestroyKeepsOwnerInv
  <1>4. ASSUME NEW w \in Wrappers, NEW t \in Types, NEW c \in Fns \cup {None},
               On(w, t, c)
        PROVE  OwnerInv'
    BY <1>4, OnKeepsOwnerInv
  <1>5. ASSUME \/ \E w \in Wrappers : LedCall(w)
               \/ \E d \in Devices, t \in Types : Arrive(d, t)
               \/ \E w \in Wrappers :
                    EventNext(w) \/ EventNextFails(w) \/ EventHandleNext(w) \/ EventLoop(w)
               \/ \E d \in Devices : NativeHandleNext(d)
               \/ LoopEnds \/ CallbackReturns \/ CallbackThrows
               \/ UNCHANGED vars
        PROVE  OwnerInv'
    <2>1. UNCHANGED <<phase, handlers, wrapperVars, callbacks>>
      BY <1>5 DEF LedCall, Arrive, EventNext, EventNextFails, EventHandleNext,
         EventLoop, NativeHandleNext, LoopEnds, CallbackReturns, CallbackThrows,
         vars, libraryVars, wrapperVars, stateVars
    <2>. QED  BY <2>1, OthersKeepOwnerInv
  <1>. QED  BY <1>1, <1>2, <1>3, <1>4, <1>5 DEF Next

LEMMA AlwaysIInv == Spec => []IInv
  <1>. QED  BY InitIInv, StepKeepsIInv, PTL DEF Spec

-----------------------------------------------------------------------------
(* The state stays of its types: callbacks that run are functions that were *)
(* set, and failures are counted in a CallbackState that exists.            *)
THEOREM TypeCorrect == Spec => []TypeOK
  BY AlwaysIInv, PTL DEF IInv

(* Every open device has exactly one owner, who is alive, through moves,    *)
(* assignments and destruction (close() and the special members of Monome). *)
THEOREM DevicesHaveOneOwner == Spec => []OneOwner
  BY AlwaysIInv, PTL DEF IInv

(* The handlers of the device and the functions of its owner agree at every *)
(* moment, also after registrations that failed and moves of the owner      *)
(* (Monome::on() and the comment in it).                                    *)
THEOREM TablesNeverDiverge == Spec => []TablesAgree
  <1>1. IInv => TablesAgree
    BY DEF IInv, StateIsOwned, OwnedAgree, Agreed, TablesAgree, TypeOK
  <1>. QED  BY <1>1, AlwaysIInv, PTL

-----------------------------------------------------------------------------
(* The refinement of Callbacks                                              *)

(* Three facts beside IInv that single steps rely on: nothing is counted    *)
(* for a device before it is opened, nothing is pending of one that is not  *)
(* open, and one whose callback runs is not closed.                         *)
FreshCounts == \A d \in Devices : phase[d] = "new" => failureCount[d] = 0
ClosedAreQuiet == \A d \in Devices : phase[d] # "open" => pending[d] = <<>>
RunningIsOpen == running # None => phase[running.state] = "open"

RInv == IInv /\ FreshCounts /\ ClosedAreQuiet /\ RunningIsOpen

LEMMA InitRInv == Init => RInv
  BY InitIInv DEF Init, RInv, FreshCounts, ClosedAreQuiet, RunningIsOpen

-----------------------------------------------------------------------------
(* The facts about each step from which everything else follows.            *)
LEMMA CallbackFacts ==
    ASSUME IInv
    PROVE  /\ running # None => /\ running.state \in Devices /\ running.type \in Types
                                /\ running.fn \in Fns
                                /\ running.by \in Wrappers \cup {None}
           /\ \A w \in Wrappers : callbackState_[w] = monome_[w]
           /\ \A w \in Wrappers : monome_[w] # None =>
                monome_[w] \in Devices /\ phase[monome_[w]] = "open"
           /\ \A d \in Devices : phase[d] = "open" => \E w \in alive : monome_[w] = d
  BY OwnersDiffer DEF IInv, TypeOK, Running, StateIsOwned, OneOwner

(* The handlers of an open device lead to its own CallbackState.            *)
LEMMA HandlersAreOwners ==
    ASSUME IInv, NEW d \in Devices, phase[d] = "open", NEW t \in Types
    PROVE  handlers[d][t] = IF callbacks[d][t] = None THEN None ELSE d
  <1>1. PICK w \in Wrappers : monome_[w] = d
    BY OwnersDiffer
  <1>. QED  BY <1>1, OwnersDiffer DEF IInv, OwnedAgree, Agreed

LEMMA CloseQuiets ==
    ASSUME RInv, NEW w \in Wrappers, close(w),
           monome_[w] # None => ~InUse(monome_[w])
    PROVE  /\ \A d \in Devices :
                /\ phase'[d] = IF d = monome_[w] THEN "closed" ELSE phase[d]
                /\ pending'[d] = IF d = monome_[w] THEN <<>> ELSE pending[d]
           /\ running # None => phase'[running.state] = phase[running.state]
  <1>. USE DEF RInv, IInv, TypeOK
  <1>1. \A d \in Devices :
          /\ phase'[d] = IF d = monome_[w] THEN "closed" ELSE phase[d]
          /\ pending'[d] = IF d = monome_[w] THEN <<>> ELSE pending[d]
    BY MonomeppAssumption DEF close
  <1>2. running # None => running.state \in Devices /\ running.state # monome_[w]
    BY CallbackFacts, MonomeppAssumption DEF InUse
  <1>. QED  BY <1>1, <1>2

(* The three facts, together. *)
Besides == FreshCounts /\ ClosedAreQuiet /\ RunningIsOpen

LEMMA StepKeepsRInv == RInv /\ [Next]_vars => RInv'
  <1>. SUFFICES ASSUME RInv, [Next]_vars PROVE Besides'
    BY StepKeepsIInv DEF RInv, Besides
  <1>. USE DEF RInv, IInv, TypeOK, Besides, FreshCounts, ClosedAreQuiet, RunningIsOpen,
           libraryVars, wrapperVars, stateVars
  <1>1. ASSUME NEW w \in Wrappers, NEW d \in Devices, Construct(w, d) PROVE Besides'
    BY <1>1, CallbackFacts DEF Construct
  <1>2. ASSUME NEW v \in Wrappers, NEW w \in Wrappers, MoveConstruct(v, w) PROVE Besides'
    BY <1>2 DEF MoveConstruct
  <1>3. ASSUME NEW v \in Wrappers, NEW w \in Wrappers, MoveAssign(v, w) PROVE Besides'
    BY <1>3, CloseQuiets DEF MoveAssign
  <1>4. ASSUME NEW w \in Wrappers, Destroy(w) PROVE Besides'
    BY <1>4, CloseQuiets DEF Destroy
  <1>5. ASSUME NEW w \in Wrappers, NEW t \in Types, NEW c \in Fns \cup {None},
               On(w, t, c)
        PROVE  Besides'
    BY <1>5 DEF On
  <1>6. ASSUME NEW d \in Devices, NEW t \in Types, Arrive(d, t) PROVE Besides'
    BY <1>6 DEF Arrive
  <1>7. ASSUME NEW w \in Wrappers, EventNext(w) PROVE Besides'
    BY <1>7, CallbackFacts DEF EventNext, monome_event_next
  <1>8. ASSUME NEW w \in Wrappers, EventHandleNext(w) PROVE Besides'
    <2>1. RunningIsOpen'
      BY <1>8, CallbackFacts DEF EventHandleNext, monome_event_next, Call
    <2>. QED  BY <1>8, <2>1, CallbackFacts DEF EventHandleNext, monome_event_next
  <1>9. ASSUME NEW d \in Devices, NativeHandleNext(d) PROVE Besides'
    <2>1. RunningIsOpen'
      BY <1>9, HandlersAreOwners, CallbackFacts, SMTT(20)
      DEF NativeHandleNext, monome_event_handle_next, monome_event_next, Call
    <2>. QED  BY <1>9, <2>1
         DEF NativeHandleNext, monome_event_handle_next, monome_event_next
  <1>10. ASSUME CallbackThrows PROVE Besides'
    BY <1>10, CallbackFacts DEF CallbackThrows, Counter
  <1>11. ASSUME \/ \E w \in Wrappers : LedCall(w) \/ EventNextFails(w) \/ EventLoop(w)
                \/ LoopEnds \/ CallbackReturns \/ UNCHANGED vars
         PROVE  Besides'
    BY <1>11 DEF LedCall, EventNextFails, EventLoop, LoopEnds, CallbackReturns, vars
  <1>. QED  BY <1>1, <1>2, <1>3, <1>4, <1>5, <1>6, <1>7, <1>8, <1>9, <1>10, <1>11
            DEF Next

LEMMA AlwaysRInv == Spec => []RInv
  <1>. QED  BY InitRInv, StepKeepsRInv, PTL DEF Spec

-----------------------------------------------------------------------------
(* What Callbacks sees of the devices, one at a time.                       *)
Known(w, d) == [owner |-> w, table |-> callbacks[d], failures |-> failureCount[d]]
Seen ==
    /\ Owned = [d \in Devices |-> Owned[d]]
    /\ \A d \in Devices : phase[d] # "open" => Owned[d] = None
    /\ \A d \in Devices, w \in Wrappers : monome_[w] = d => Owned[d] = Known(w, d)
    /\ \A d \in Devices, w \in Wrappers :
         Owned[d] # None /\ Owned[d].owner = w <=> monome_[w] = d
    /\ \A d \in Devices : phase[d] = "open" => Owned[d] # None

LEMMA SeenIsSo == IInv => Seen
  <1>. SUFFICES ASSUME IInv PROVE Seen
    OBVIOUS
  <1>1. ASSUME NEW d \in Devices, NEW w \in Wrappers, monome_[w] = d
        PROVE  Owned[d] = Known(w, d) /\ Owned[d] # None /\ phase[d] = "open"
    <2>1. Owners(d) = {w}
      BY <1>1, OwnersDiffer DEF Owners
    <2>2. (CHOOSE v \in Owners(d) : TRUE) = w
      BY <2>1
    <2>3. Owned[d] = Known(w, d)
      BY <1>1, <2>1, <2>2, CallbackFacts DEF Owned, Known
    <2>4. Known(w, d) \in [owner : Wrappers, table : [Types -> Fns \cup {None}],
                           failures : Nat]
      BY DEF Known, IInv, TypeOK
    <2>. QED  BY <1>1, <2>3, <2>4, NoneAssumption, CallbackFacts, OwnersDiffer
  <1>2. ASSUME NEW d \in Devices, phase[d] # "open" PROVE Owned[d] = None
    <2>1. Owners(d) = {}
      BY <1>1, <1>2 DEF Owners
    <2>. QED  BY <2>1 DEF Owned
  <1>3. ASSUME NEW d \in Devices, phase[d] = "open"
        PROVE  \E w \in Wrappers : monome_[w] = d
    BY <1>3, OwnersDiffer
  <1>4. Owned = [d \in Devices |-> Owned[d]]
    BY DEF Owned
  <1>5. ASSUME NEW d \in Devices, NEW w \in Wrappers
        PROVE  Owned[d] # None /\ Owned[d].owner = w <=> monome_[w] = d
    <2>1. CASE phase[d] # "open"
      BY <2>1, <1>1, <1>2
    <2>2. CASE phase[d] = "open"
      <3>1. PICK v \in Wrappers : monome_[v] = d
        BY <2>2, <1>3
      <3>2. Owned[d] = Known(v, d) /\ Owned[d] # None
        BY <3>1, <1>1
      <3>3. Known(v, d).owner = v
        BY DEF Known
      <3>. QED  BY <3>1, <3>2, <3>3, OwnersDiffer
    <2>. QED  BY <2>1, <2>2
  <1>. QED  BY <1>1, <1>2, <1>3, <1>4, <1>5 DEF Seen

LEMMA SeenBeforeAndAfter ==
    ASSUME RInv, [Next]_vars
    PROVE  Seen /\ Seen' /\ RInv'
  <1>1. RInv' /\ IInv /\ IInv'
    BY StepKeepsRInv DEF RInv
  <1>2. (IInv => Seen)'
    BY SeenIsSo, PTL
  <1>. QED  BY <1>1, <1>2, SeenIsSo

-----------------------------------------------------------------------------
(* A device of which nothing changes is seen as before.                     *)
LEMMA SeenAsBefore ==
    ASSUME RInv, [Next]_vars, NEW d \in Devices, phase'[d] = phase[d],
           callbacks'[d] = callbacks[d], failureCount'[d] = failureCount[d],
           \A w \in Wrappers : monome_[w] = d => monome_'[w] = d
    PROVE  Owned'[d] = Owned[d]
  <1>1. CASE phase[d] = "open"
    <2>1. PICK w \in Wrappers : monome_[w] = d
      BY <1>1, OwnersDiffer DEF RInv
    <2>2. Owned[d] = Known(w, d) /\ Owned'[d] = Known(w, d)'
      BY <2>1, SeenBeforeAndAfter DEF Seen
    <2>. QED  BY <2>2 DEF Known
  <1>2. CASE phase[d] # "open"
    BY <1>2, SeenBeforeAndAfter DEF Seen
  <1>. QED  BY <1>1, <1>2

LEMMA OwnersUnchanged ==
    ASSUME UNCHANGED <<wrapperVars, stateVars>>
    PROVE  Owned' = Owned
  BY DEF Owned, Owners, wrapperVars, stateVars

LEMMA RunningUnchanged ==
    ASSUME UNCHANGED running
    PROVE  Active' = Active
  BY DEF Active

(* Devices that are closed lose their events, others keep them.             *)
LEMMA PendingFollows ==
    ASSUME RInv, [Next]_vars, \A d \in Devices : phase'[d] = "open" => pending'[d] = pending[d]
    PROVE  pending' = [d \in Devices |-> IF Owned'[d] = None THEN <<>> ELSE pending[d]]
  <1>1. pending' = [d \in Devices |-> pending'[d]]
    BY SeenBeforeAndAfter DEF RInv, IInv, TypeOK
  <1>2. \A d \in Devices : pending'[d] = IF Owned'[d] = None THEN <<>> ELSE pending[d]
    BY SeenBeforeAndAfter DEF Seen, RInv, ClosedAreQuiet
  <1>. QED  BY <1>1, <1>2

-----------------------------------------------------------------------------
(* The steps, one by one.                                                   *)
LEMMA ConstructOpens ==
    ASSUME RInv, [Next]_vars, NEW w \in Wrappers, NEW d \in Devices, Construct(w, d)
    PROVE  Promise!Open(w, d)
  <1>. DEFINE states == [Owned EXCEPT ![d] =
                  [owner |-> w, table |-> [t \in Types |-> None], failures |-> 0]]
  <1>1. /\ phase[d] = "new" /\ monome_[w] = None
        /\ phase' = [phase EXCEPT ![d] = "open"]
        /\ monome_' = [monome_ EXCEPT ![w] = d]
        /\ callbacks' = callbacks /\ failureCount' = failureCount
        /\ pending' = pending /\ UNCHANGED <<running, report>>
    BY OwnersDiffer DEF Construct, stateVars, RInv
  <1>2. Owned[d] = None /\ \A e \in Devices : ~(Owned[e] # None /\ Owned[e].owner = w)
    BY <1>1, SeenBeforeAndAfter, MonomeppAssumption DEF Seen
  <1>3. Owned'[d] = [owner |-> w, table |-> [t \in Types |-> None], failures |-> 0]
    <2>1. monome_'[w] = d
      BY <1>1 DEF RInv, IInv, TypeOK
    <2>2. Owned'[d] = Known(w, d)'
      BY <2>1, SeenBeforeAndAfter DEF Seen
    <2>3. callbacks[d] = [t \in Types |-> None] /\ failureCount[d] = 0
      BY <1>1 DEF RInv, IInv, Fresh, FreshCounts, Empty
    <2>. QED  BY <1>1, <2>2, <2>3 DEF Known
  <1>4. \A e \in Devices \ {d} : Owned'[e] = Owned[e]
    <2>1. \A e \in Devices \ {d} :
            /\ phase'[e] = phase[e]
            /\ \A u \in Wrappers : monome_[u] = e => monome_'[u] = e
      BY <1>1, MonomeppAssumption DEF RInv, IInv, TypeOK
    <2>. QED  BY <1>1, <2>1, SeenAsBefore
  <1>5. Owned' = states
    <2>1. Owned' = [e \in Devices |-> Owned'[e]] /\ Owned = [e \in Devices |-> Owned[e]]
      BY SeenBeforeAndAfter DEF Seen
    <2>2. states = [e \in Devices |-> IF e = d
            THEN [owner |-> w, table |-> [t \in Types |-> None], failures |-> 0]
            ELSE Owned[e]]
      BY <2>1
    <2>3. \A e \in Devices : Owned'[e] = states[e]
      BY <1>3, <1>4, <2>2
    <2>. QED  BY <2>1, <2>2, <2>3
  <1>6. pending' = [e \in Devices |-> IF Owned'[e] = None THEN <<>> ELSE pending[e]]
    BY <1>1, PendingFollows
  <1>. QED  BY <1>1, <1>2, <1>5, <1>6, RunningUnchanged
            DEF Promise!Open, Promise!Becomes, Promise!Owns

(* v takes what w has, after it has closed what it had itself, if any.      *)
LEMMA TransferIsMove ==
    ASSUME RInv, [Next]_vars, NEW v \in Wrappers, NEW w \in Wrappers, v # w,
           monome_'[w] = None, monome_'[v] = monome_[w],
           \A u \in Wrappers \ {v, w} : monome_'[u] = monome_[u],
           \A d \in Devices :
             /\ phase'[d] = IF d = monome_[v] THEN "closed" ELSE phase[d]
             /\ pending'[d] = IF d = monome_[v] THEN <<>> ELSE pending[d],
           UNCHANGED <<callbacks, failureCount, running, report>>
    PROVE  Promise!Move(v, w)
  <1>. DEFINE moved(d) == IF Owned[d] # None /\ Owned[d].owner = w
                          THEN [Owned[d] EXCEPT !.owner = v]
                          ELSE IF Owned[d] # None /\ Owned[d].owner = v THEN None
                          ELSE Owned[d]
  <1>1. ASSUME NEW d \in Devices PROVE Owned'[d] = moved(d)
    <2>1. CASE monome_[w] = d
      <3>1. Owned[d] = Known(w, d) /\ Owned'[d] = Known(v, d)'
        BY <2>1, SeenBeforeAndAfter DEF Seen
      <3>2. moved(d) = [Owned[d] EXCEPT !.owner = v]
        BY <2>1, SeenBeforeAndAfter DEF Seen
      <3>. QED  BY <3>1, <3>2 DEF Known
    <2>2. CASE monome_[w] # d /\ monome_[v] = d
      <3>1. Owned'[d] = None
        BY <2>2, SeenBeforeAndAfter DEF Seen
      <3>2. moved(d) = None
        BY <2>2, SeenBeforeAndAfter DEF Seen
      <3>. QED  BY <3>1, <3>2
    <2>3. CASE monome_[w] # d /\ monome_[v] # d
      <3>1. Owned'[d] = Owned[d]
        BY <2>3, SeenAsBefore
      <3>2. moved(d) = Owned[d]
        BY <2>3, SeenBeforeAndAfter DEF Seen
      <3>. QED  BY <3>1, <3>2
    <2>. QED  BY <2>1, <2>2, <2>3
  <1>2. Owned' = [d \in Devices |-> moved(d)]
    <2>1. Owned' = [d \in Devices |-> Owned'[d]]
      BY SeenBeforeAndAfter DEF Seen
    <2>. HIDE DEF moved
    <2>. QED  BY <2>1, <1>1
  <1>3. pending' = [d \in Devices |-> IF Owned'[d] = None THEN <<>> ELSE pending[d]]
    BY PendingFollows
  <1>. QED  BY <1>2, <1>3, RunningUnchanged
            DEF Promise!Move, Promise!Becomes, Promise!Owns

LEMMA MoveConstructMoves ==
    ASSUME RInv, [Next]_vars, NEW v \in Wrappers, NEW w \in Wrappers, MoveConstruct(v, w)
    PROVE  Promise!Move(v, w)
  <1>1. /\ v # w /\ monome_[v] = None
        /\ UNCHANGED <<phase, pending, callbacks, failureCount, running, report>>
    BY OwnersDiffer DEF MoveConstruct, libraryVars, stateVars, RInv
  <1>2. /\ monome_'[w] = None /\ monome_'[v] = monome_[w]
        /\ \A u \in Wrappers \ {v, w} : monome_'[u] = monome_[u]
    BY <1>1, TransferMoves DEF MoveConstruct, RInv
  <1>. QED  BY <1>1, <1>2, TransferIsMove, MonomeppAssumption

LEMMA MoveAssignMoves ==
    ASSUME RInv, [Next]_vars, NEW v \in Wrappers, NEW w \in Wrappers, MoveAssign(v, w)
    PROVE  Promise!Move(v, w)
  <1>1. v # w /\ UNCHANGED <<callbacks, failureCount, running, report>>
    BY DEF MoveAssign, stateVars
  <1>2. /\ monome_'[w] = None /\ monome_'[v] = monome_[w]
        /\ \A u \in Wrappers \ {v, w} : monome_'[u] = monome_[u]
    BY <1>1, TransferMoves DEF MoveAssign, RInv
  <1>3. \A d \in Devices :
          /\ phase'[d] = IF d = monome_[v] THEN "closed" ELSE phase[d]
          /\ pending'[d] = IF d = monome_[v] THEN <<>> ELSE pending[d]
    BY CloseQuiets DEF MoveAssign
  <1>. QED  BY <1>1, <1>2, <1>3, TransferIsMove

LEMMA DestroyCloses ==
    ASSUME RInv, [Next]_vars, NEW w \in Wrappers, Destroy(w)
    PROVE  Promise!Close(w)
  <1>. DEFINE left(d) == IF Owned[d] # None /\ Owned[d].owner = w THEN None ELSE Owned[d]
  <1>1. /\ \A u \in Wrappers \ {w} : monome_'[u] = monome_[u]
        /\ UNCHANGED <<callbacks, failureCount, running, report>>
    BY DEF Destroy, stateVars, RInv, IInv, TypeOK
  <1>2. \A d \in Devices :
          /\ phase'[d] = IF d = monome_[w] THEN "closed" ELSE phase[d]
          /\ pending'[d] = IF d = monome_[w] THEN <<>> ELSE pending[d]
    BY CloseQuiets DEF Destroy
  <1>3. ASSUME NEW d \in Devices PROVE Owned'[d] = left(d)
    <2>1. CASE monome_[w] = d
      BY <1>2, <2>1, SeenBeforeAndAfter DEF Seen
    <2>2. CASE monome_[w] # d
      <3>1. Owned'[d] = Owned[d]
        BY <1>1, <1>2, <2>2, SeenAsBefore
      <3>. QED  BY <2>2, <3>1, SeenBeforeAndAfter DEF Seen
    <2>. QED  BY <2>1, <2>2
  <1>4. Owned' = [d \in Devices |-> left(d)]
    <2>1. Owned' = [d \in Devices |-> Owned'[d]]
      BY SeenBeforeAndAfter DEF Seen
    <2>. HIDE DEF left
    <2>. QED  BY <2>1, <1>3
  <1>5. pending' = [d \in Devices |-> IF Owned'[d] = None THEN <<>> ELSE pending[d]]
    BY <1>2, PendingFollows
  <1>. QED  BY <1>1, <1>4, <1>5, RunningUnchanged
            DEF Promise!Close, Promise!Becomes, Promise!Owns

LEMMA OnSets ==
    ASSUME RInv, [Next]_vars, NEW w \in Wrappers, NEW t \in Types,
           NEW c \in Fns \cup {None}, On(w, t, c)
    PROVE  Promise!On(w, t, c) \/ UNCHANGED Promise!vars
  <1>0. PICK d \in Devices : d = monome_[w]
    BY CallbackFacts DEF On, RInv
  <1>1. /\ d \in Devices /\ callbackState_[w] = d
        /\ UNCHANGED <<phase, pending, failureCount, wrapperVars, running, report>>
    BY <1>0, CallbackFacts DEF On, RInv
  <1>2. CASE UNCHANGED callbacks
    <2>1. Owned' = Owned
      BY <1>1, <1>2, OwnersUnchanged DEF stateVars
    <2>. QED  BY <1>1, <2>1, RunningUnchanged DEF Promise!vars
  <1>3. CASE callbacks' = [callbacks EXCEPT ![d][t] = c]
    <2>1. Owned[d] = Known(w, d) /\ Owned'[d] = Known(w, d)' /\ Owned[d] # None
      BY <1>0, <1>1, SeenBeforeAndAfter, MonomeppAssumption DEF Seen, wrapperVars
    <2>2. callbacks'[d] = [callbacks[d] EXCEPT ![t] = c]
      BY <1>1, <1>3 DEF RInv, IInv, TypeOK
    <2>3. Owned'[d] = [Owned[d] EXCEPT !.table = [@ EXCEPT ![t] = c]]
      <3>1. Owned[d] = [owner |-> w, table |-> callbacks[d], failures |-> failureCount[d]]
        BY <2>1 DEF Known
      <3>2. Owned'[d] = [owner |-> w, table |-> [callbacks[d] EXCEPT ![t] = c],
                         failures |-> failureCount[d]]
        BY <1>1, <2>1, <2>2 DEF Known
      <3>. QED  BY <3>1, <3>2
    <2>4. \A e \in Devices \ {d} : Owned'[e] = Owned[e]
      <3>1. \A e \in Devices \ {d} : callbacks'[e] = callbacks[e]
        BY <1>3 DEF RInv, IInv, TypeOK
      <3>. QED  BY <1>1, <3>1, SeenAsBefore DEF wrapperVars
    <2>5. Owned' = [Owned EXCEPT ![d].table[t] = c]
      <3>1. Owned' = [e \in Devices |-> Owned'[e]] /\ Owned = [e \in Devices |-> Owned[e]]
        BY SeenBeforeAndAfter DEF Seen
      <3>2. [Owned EXCEPT ![d].table[t] = c] = [e \in Devices |->
               IF e = d THEN [Owned[d] EXCEPT !.table = [@ EXCEPT ![t] = c]] ELSE Owned[e]]
        BY <3>1
      <3>. QED  BY <1>1, <2>3, <2>4, <3>1, <3>2
    <2>6. Owned[d].owner = w
      BY <2>1 DEF Known
    <2>. QED  BY <1>1, <2>1, <2>5, <2>6, RunningUnchanged DEF Promise!On, Promise!Owns
  <1>. QED  BY <1>0, <1>1, <1>2, <1>3 DEF On

(* An event that is dispatched to the function of its device's CallbackState *)
(* is handled by the callback of the device's owner.                        *)
LEMMA CallHandles ==
    ASSUME RInv, [Next]_vars, NEW d \in Devices, NEW by \in Wrappers \cup {None},
           running = None, phase[d] = "open", pending[d] # <<>>,
           pending' = [pending EXCEPT ![d] = Tail(@)],
           callbacks[d][Head(pending[d])] = None => running' = None,
           callbacks[d][Head(pending[d])] # None =>
             running' = [by |-> by, state |-> d, type |-> Head(pending[d]),
                         fn |-> callbacks[d][Head(pending[d])]],
           report' \in {report, "Event"},
           UNCHANGED <<wrapperVars, stateVars>>
    PROVE  Promise!Handle(d)
  <1>. DEFINE t == Head(pending[d])
              c == Owned[d].table[t]
  <1>1. t \in Types
    BY DEF RInv, IInv, TypeOK
  <1>2. Owned[d] # None /\ c = callbacks[d][t]
    <2>1. PICK w \in Wrappers : monome_[w] = d
      BY OwnersDiffer DEF RInv
    <2>2. Owned[d] # None /\ Owned[d] = Known(w, d)
      BY <2>1, SeenBeforeAndAfter DEF Seen
    <2>. QED  BY <2>2 DEF Known
  <1>3. c \in Fns \cup {None}
    BY <1>1, <1>2 DEF RInv, IInv, TypeOK
  <1>4. Active = None /\ Owned' = Owned
    BY OwnersUnchanged DEF Active
  <1>5. Active' = IF c = None THEN None ELSE [device |-> d, type |-> t, fn |-> c]
    <2>1. CASE c = None
      BY <1>2, <2>1 DEF Active
    <2>2. CASE c # None
      <3>1. running' = [by |-> by, state |-> d, type |-> t, fn |-> c]
        BY <1>2, <2>2
      <3>2. running' # None
        BY <1>1, <1>3, <2>2, <3>1, NoneAssumption
      <3>. QED  BY <2>2, <3>1, <3>2 DEF Active
    <2>. QED  BY <2>1, <2>2
  <1>. QED  BY <1>2, <1>4, <1>5 DEF Promise!Handle, Promise!Idle

LEMMA EventHandleNextHandles ==
    ASSUME RInv, [Next]_vars, NEW w \in Wrappers, EventHandleNext(w)
    PROVE  \E d \in Devices : Promise!Handle(d)
  <1>. DEFINE d == monome_[w]
  <1>1. d \in Devices /\ phase[d] = "open" /\ callbackState_[w] = d
    BY CallbackFacts DEF EventHandleNext, RInv
  <1>. HIDE DEF d
  <1>2. /\ running = None /\ monome_event_next(d) /\ report' = "Event"
        /\ Call(w, d, Head(pending[d]))
        /\ UNCHANGED <<wrapperVars, stateVars>>
    BY <1>1 DEF EventHandleNext, d
  <1>3. Promise!Handle(d)
    BY <1>1, <1>2, CallHandles DEF Call, monome_event_next
  <1>. QED  BY <1>1, <1>3

LEMMA NativeHandleNextHandles ==
    ASSUME RInv, [Next]_vars, NEW d \in Devices, NativeHandleNext(d)
    PROVE  Promise!Handle(d)
  <1>1. /\ running = None /\ phase[d] = "open" /\ pending[d] # <<>>
        /\ pending' = [pending EXCEPT ![d] = Tail(@)]
        /\ UNCHANGED <<wrapperVars, stateVars, report>>
    BY DEF NativeHandleNext, monome_event_handle_next, monome_event_next
  <1>. DEFINE t == Head(pending[d])
  <1>2. t \in Types
    BY <1>1 DEF RInv, IInv, TypeOK
  <1>3. handlers[d][t] = IF callbacks[d][t] = None THEN None ELSE d
    BY <1>1, <1>2, HandlersAreOwners DEF RInv
  <1>4. CASE callbacks[d][t] = None
    <2>1. running' = None
      BY <1>3, <1>4 DEF NativeHandleNext, monome_event_handle_next
    <2>. QED  BY <1>1, <1>4, <2>1, CallHandles
  <1>5. CASE callbacks[d][t] # None
    <2>1. running' = [by |-> None, state |-> d, type |-> t, fn |-> callbacks[d][t]]
      BY <1>3, <1>5, MonomeppAssumption
      DEF NativeHandleNext, monome_event_handle_next, Call
    <2>. QED  BY <1>1, <1>5, <2>1, CallHandles
  <1>. QED  BY <1>4, <1>5

LEMMA EventNextTakes ==
    ASSUME RInv, [Next]_vars, NEW w \in Wrappers, EventNext(w)
    PROVE  Promise!Take(w)
  <1>1. monome_[w] \in Devices /\ Owned' = Owned /\ Active' = Active
    BY CallbackFacts, OwnersUnchanged, RunningUnchanged DEF EventNext, RInv
  <1>2. Owned[monome_[w]] # None /\ Owned[monome_[w]].owner = w
    BY <1>1, SeenBeforeAndAfter DEF Seen
  <1>. QED  BY <1>1, <1>2 DEF EventNext, monome_event_next, Promise!Take, Promise!Owns

(* Functions that fail, or whose work is with the device.                   *)
LEMMA ResultIsReported ==
    ASSUME RInv, [Next]_vars, NEW w \in Wrappers,
           IF monome_[w] = None THEN report' = "DeviceError"
           ELSE report' \in {"Success", "NoData", "DeviceError"},
           UNCHANGED <<pending, wrapperVars, stateVars, running>>
    PROVE  Promise!Report(w)
  <1>1. Owned' = Owned /\ Active' = Active
    BY OwnersUnchanged, RunningUnchanged
  <1>2. (\E d \in Devices : Owned[d] # None /\ Owned[d].owner = w) <=> monome_[w] # None
    BY SeenBeforeAndAfter, OwnersDiffer, MonomeppAssumption DEF Seen, RInv
  <1>. QED  BY <1>1, <1>2 DEF Promise!Report, Promise!Owns

LEMMA ThrowIsCounted ==
    ASSUME RInv, [Next]_vars, CallbackThrows
    PROVE  Promise!Throws
  <1>0. PICK d \in Devices : d = running.state
    BY CallbackFacts DEF CallbackThrows, RInv
  <1>1. /\ phase[d] = "open" /\ Counter = d
        /\ running # None /\ running' = None
        /\ UNCHANGED <<libraryVars, wrapperVars, callbacks, report>>
    BY <1>0, CallbackFacts DEF CallbackThrows, Counter, RInv, RunningIsOpen
  <1>2. failureCount' = [failureCount EXCEPT ![d] = @ + 1]
    BY <1>1 DEF CallbackThrows
  <1>3. Active # None /\ Active.device = d /\ Active' = None
    <2>1. Active = [device |-> d, type |-> running.type, fn |-> running.fn]
      BY <1>0, <1>1 DEF Active
    <2>2. Active \in [device : Devices, type : Types, fn : Fns]
      BY <1>1, <2>1, CallbackFacts DEF RInv
    <2>. QED  BY <1>1, <2>1, <2>2, NoneAssumption DEF Active
  <1>4. PICK w \in Wrappers : monome_[w] = d
    BY <1>1, OwnersDiffer DEF RInv
  <1>5. Owned'[d] = [Owned[d] EXCEPT !.failures = @ + 1]
    <2>1. Owned[d] = [owner |-> w, table |-> callbacks[d], failures |-> failureCount[d]]
      BY <1>1, <1>4, SeenBeforeAndAfter DEF Seen, Known
    <2>2. Owned'[d] = [owner |-> w, table |-> callbacks[d],
                       failures |-> failureCount[d] + 1]
      <3>1. monome_'[w] = d /\ callbacks' = callbacks
            /\ failureCount'[d] = failureCount[d] + 1
        BY <1>1, <1>2, <1>4 DEF wrapperVars, RInv, IInv, TypeOK
      <3>2. Owned'[d] = Known(w, d)'
        BY <1>1, <3>1, SeenBeforeAndAfter DEF Seen
      <3>. QED  BY <3>1, <3>2 DEF Known
    <2>. QED  BY <2>1, <2>2
  <1>6. \A e \in Devices \ {d} : Owned'[e] = Owned[e]
    <2>1. \A e \in Devices \ {d} : failureCount'[e] = failureCount[e]
      BY <1>2 DEF RInv, IInv, TypeOK
    <2>. QED  BY <1>1, <2>1, SeenAsBefore DEF libraryVars, wrapperVars
  <1>7. Owned' = [Owned EXCEPT ![d].failures = @ + 1]
    <2>1. Owned' = [e \in Devices |-> Owned'[e]] /\ Owned = [e \in Devices |-> Owned[e]]
      BY SeenBeforeAndAfter DEF Seen
    <2>2. [Owned EXCEPT ![d].failures = @ + 1] = [e \in Devices |->
             IF e = d THEN [Owned[d] EXCEPT !.failures = @ + 1] ELSE Owned[e]]
      BY <2>1
    <2>. QED  BY <1>1, <1>5, <1>6, <2>1, <2>2
  <1>. QED  BY <1>1, <1>3, <1>7 DEF Promise!Throws, libraryVars

-----------------------------------------------------------------------------
LEMMA StepIsPromised ==
    ASSUME RInv, [Next]_vars
    PROVE  [Promise!Next]_(Promise!vars)
  <1>1. ASSUME NEW w \in Wrappers, NEW d \in Devices, Construct(w, d)
        PROVE  Promise!Next
    BY <1>1, ConstructOpens DEF Promise!Next
  <1>2. ASSUME NEW v \in Wrappers, NEW w \in Wrappers,
               MoveConstruct(v, w) \/ MoveAssign(v, w)
        PROVE  Promise!Next
    BY <1>2, MoveConstructMoves, MoveAssignMoves DEF Promise!Next
  <1>3. ASSUME NEW w \in Wrappers, Destroy(w) PROVE Promise!Next
    BY <1>3, DestroyCloses DEF Promise!Next
  <1>4. ASSUME NEW w \in Wrappers, LedCall(w) PROVE Promise!Next
    <2>1. Promise!Report(w)
      BY <1>4, ResultIsReported DEF LedCall, makeIoResult, libraryVars
    <2>. QED  BY <2>1 DEF Promise!Next
  <1>5. ASSUME NEW w \in Wrappers, NEW t \in Types, NEW c \in Fns \cup {None},
               On(w, t, c)
        PROVE  Promise!Next \/ UNCHANGED Promise!vars
    BY <1>5, OnSets DEF Promise!Next
  <1>6. ASSUME NEW d \in Devices, NEW t \in Types, Arrive(d, t) PROVE Promise!Next
    <2>1. Owned' = Owned /\ Active' = Active
      BY <1>6, OwnersUnchanged, RunningUnchanged DEF Arrive
    <2>2. Owned[d] # None
      BY <1>6, SeenBeforeAndAfter DEF Seen, Arrive
    <2>3. Promise!Arrive(d, t)
      BY <1>6, <2>1, <2>2 DEF Arrive, Promise!Arrive
    <2>. QED  BY <2>3 DEF Promise!Next
  <1>7. ASSUME NEW w \in Wrappers, EventNext(w) PROVE Promise!Next
    BY <1>7, EventNextTakes DEF Promise!Next
  <1>8. ASSUME NEW w \in Wrappers, EventNextFails(w) PROVE Promise!Next
    <2>1. Promise!Report(w)
      BY <1>8, ResultIsReported DEF EventNextFails, libraryVars
    <2>. QED  BY <2>1 DEF Promise!Next
  <1>9. ASSUME NEW w \in Wrappers, EventHandleNext(w) PROVE Promise!Next
    BY <1>9, EventHandleNextHandles DEF Promise!Next
  <1>10. ASSUME NEW d \in Devices, NativeHandleNext(d) PROVE Promise!Next
    BY <1>10, NativeHandleNextHandles DEF Promise!Next
  <1>11. ASSUME (\E w \in Wrappers : EventLoop(w)) \/ LoopEnds \/ UNCHANGED vars
         PROVE  UNCHANGED Promise!vars
    <2>1. UNCHANGED <<pending, wrapperVars, stateVars, running, report>>
      BY <1>11 DEF EventLoop, LoopEnds, vars, libraryVars
    <2>. QED  BY <2>1, OwnersUnchanged, RunningUnchanged DEF Promise!vars
  <1>12. ASSUME CallbackReturns PROVE Promise!Next
    <2>1. Owned' = Owned /\ Active' = None /\ UNCHANGED <<pending, report>>
      BY <1>12, OwnersUnchanged DEF CallbackReturns, Active, libraryVars
    <2>2. Active # None
      <3>1. Active = [device |-> running.state, type |-> running.type, fn |-> running.fn]
        BY <1>12 DEF CallbackReturns, Active
      <3>2. Active \in [device : Devices, type : Types, fn : Fns]
        BY <1>12, <3>1, CallbackFacts DEF CallbackReturns, RInv
      <3>. QED  BY <3>2, NoneAssumption
    <2>3. Promise!Returns
      BY <2>1, <2>2 DEF Promise!Returns
    <2>. QED  BY <2>3 DEF Promise!Next
  <1>13. ASSUME CallbackThrows PROVE Promise!Next
    BY <1>13, ThrowIsCounted DEF Promise!Next
  <1>. QED  BY <1>1, <1>2, <1>3, <1>4, <1>5, <1>6, <1>7, <1>8, <1>9, <1>10, <1>11,
               <1>12, <1>13 DEF Next

LEMMA InitIsPromised == Init => Promise!Init
  <1>. SUFFICES ASSUME Init PROVE Promise!Init
    OBVIOUS
  <1>1. Owned = [d \in Devices |-> None]
    <2>1. \A d \in Devices : Owned[d] = None
      BY SeenIsSo, InitIInv DEF Seen, Init
    <2>2. Owned = [d \in Devices |-> Owned[d]]
      BY DEF Owned
    <2>. QED  BY <2>1, <2>2
  <1>. QED  BY <1>1 DEF Init, Active, Promise!Init

(* Events go to the callback that was set last, however they are taken,     *)
(* failures are counted where they happened, and moves carry both along     *)
(* (Monome.cpp with monome_event_handle_next() and monome_event_loop()).    *)
THEOREM MonomeppKeepsItsPromise == Spec => MonomeppImplementsCallbacks
  <1>1. RInv /\ [Next]_vars => [Promise!Next]_(Promise!vars)
    BY StepIsPromised
  <1>. QED  BY <1>1, InitIsPromised, AlwaysRInv, PTL
            DEF Spec, MonomeppImplementsCallbacks, Promise!Spec

=============================================================================
