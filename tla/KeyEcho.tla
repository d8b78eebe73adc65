------------------------------ MODULE KeyEcho -------------------------------
(***************************************************************************)
(* The commonest monome program lights the LED under the key that was      *)
(* pressed, on a grid that may be turned at any time.  Between the two     *)
(* translations of module Rotation lie the application's own queue of      *)
(* events and the width of a coordinate on the wire.                       *)
(*                                                                         *)
(* The hardware has KeyCols by KeyRows keys, the library believes it to    *)
(* have Cols by Rows of them: "pretending a bigger monome (say, a 256) is  *)
(* a smaller monome (say, a 128)" in the words of rotation.c.              *)
(***************************************************************************)
EXTENDS Rotation, Sequences

CONSTANTS Cols, Rows, KeyCols, KeyRows,
          Arguments,    \* what applications pass to monome_set_rotation()
          MaxEvents     \* bound: events the application has not echoed yet

ByteRange == 256

ASSUME SizeAssumption ==
    /\ Cols \in 1..ByteRange /\ Rows \in 1..ByteRange
    /\ KeyCols \in 1..ByteRange /\ KeyRows \in 1..ByteRange
    /\ ByteRange <= UintRange
    /\ Arguments \subseteq Int /\ MaxEvents \in Nat

VARIABLES rotation,   \* monome->rotation
          events,     \* events received and not echoed, each with the key
                      \* pressed and the rotation at that time (history)
          echo        \* the last LED command, with the event it answers

vars == <<rotation, events, echo>>

Keys == HardwareGrid(KeyCols, KeyRows)
BelievedKeys == HardwareGrid(Cols, Rows)

NoEcho == [key |-> <<0, 0>>, turned |-> 0, at |-> <<0, 0>>, rotation |-> 0]

TypeOK ==
    /\ rotation \in Rotations
    /\ events \in Seq([key : Keys, turned : Rotations, x : Int, y : Int])
    /\ echo \in [key : Keys, turned : Rotations, at : Int \X Int,
                 rotation : Rotations]

Init ==
    /\ rotation = 0
    /\ events = <<>>
    /\ echo = NoEcho

monome_set_rotation ==
    /\ \E arg \in Arguments : rotation' = RotationOf(arg)
    /\ UNCHANGED <<events, echo>>

(* Seeded fault: the place is not translated. *)
FaultyKeyHandler ==
    /\ Len(events) < MaxEvents
    /\ \E k \in Keys :
         events' = Append(events, [key |-> k, turned |-> rotation,
                                   x |-> k[1], y |-> k[2]])
    /\ UNCHANGED <<rotation, echo>>

(* A key is pressed and mext_handler_key_grid() translates its place. *)
mext_handler_key_grid ==
    /\ Len(events) < MaxEvents
    /\ \E k \in Keys :
         LET p == input_cb(rotation, Cols, Rows, k)
         IN events' = Append(events, [key |-> k, turned |-> rotation,
                                      x |-> p[1], y |-> p[2]])
    /\ UNCHANGED <<rotation, echo>>

(* Seeded fault: the coordinates are sent as they are. *)
FaultyLedSet ==
    /\ events # <<>>
    /\ LET e == Head(events)
       IN echo' = [key |-> e.key, turned |-> e.turned,
                   at |-> <<e.x % ByteRange, e.y % ByteRange>>,
                   rotation |-> rotation]
    /\ events' = Tail(events)
    /\ UNCHANGED rotation

(* The application calls monome_led_set() with the coordinates of its       *)
(* oldest event; mext_led_set() stores the translated ones in two bytes.    *)
mext_led_set ==
    /\ events # <<>>
    /\ LET e == Head(events)
           p == output_cb(rotation, Cols, Rows, <<e.x, e.y>>)
       IN echo' = [key |-> e.key, turned |-> e.turned,
                   at |-> <<p[1] % ByteRange, p[2] % ByteRange>>,
                   rotation |-> rotation]
    /\ events' = Tail(events)
    /\ UNCHANGED rotation

Next == monome_set_rotation \/ mext_handler_key_grid \/ mext_led_set

Spec == Init /\ [][Next]_vars

-----------------------------------------------------------------------------
(* Properties                                                               *)

(* The LED that lights up is the one under the key, in all four rotations,  *)
(* unless the application turned the grid between the two.                  *)
EchoLightsTheKey ==
    echo.key \in BelievedKeys /\ echo.turned = echo.rotation
        => echo.at = echo.key

(* Every event of a key the library believes in has coordinates inside the  *)
(* grid monome_get_cols() and monome_get_rows() describe at that time.      *)
EventsInsideGrid ==
    \A i \in 1..Len(events) :
        events[i].key \in BelievedKeys =>
            <<events[i].x, events[i].y>>
                \in LogicalGrid(events[i].turned, Cols, Rows)

(* Not even a key outside that grid yields one of the "very big numbers" of *)
(* rotation.c: a coordinate is below the size of the grid or of the         *)
(* hardware.                                                                *)
NoVeryBigNumbers ==
    LET bound == KeyCols + KeyRows + Cols + Rows
    IN \A i \in 1..Len(events) :
           events[i].x \in 0..bound /\ events[i].y \in 0..bound

=============================================================================
