----------------------------- MODULE FrameQueue -----------------------------
(***************************************************************************)
(* What a receiver buffer promises to the task that consumes frames: a     *)
(* bounded queue of completed frames which never blocks its producer.      *)
(* Frames come out in the order they were completed; only the oldest       *)
(* waiting frame may be given up; the frame being read stays the same      *)
(* frame until it is returned.  Implemented by MessageBuffer.              *)
(***************************************************************************)
EXTENDS Naturals, Sequences

CONSTANTS
    Frames,    \* frames, named by their timestamps
    Capacity,  \* frames that can wait or be read at the same time
    NoFrame    \* nothing is being read

VARIABLES
    ready,     \* completed frames waiting for the consumer, oldest first
    reading    \* the frame the consumer reads

vars == <<ready, reading>>

Occupied == Len(ready) + (IF reading = NoFrame THEN 0 ELSE 1)

Init == ready = <<>> /\ reading = NoFrame

Put(f) ==
    /\ Occupied < Capacity
    /\ ready' = Append(ready, f)
    /\ UNCHANGED reading

DropOldest ==
    /\ ready # <<>>
    /\ ready' = Tail(ready)
    /\ UNCHANGED reading

Take ==
    /\ reading = NoFrame
    /\ ready # <<>>
    /\ reading' = Head(ready)
    /\ ready' = Tail(ready)

Release ==
    /\ reading # NoFrame
    /\ reading' = NoFrame
    /\ UNCHANGED ready

Next == (\E f \in Frames : Put(f)) \/ DropOldest \/ Take \/ Release

Spec == Init /\ [][Next]_vars

=============================================================================
