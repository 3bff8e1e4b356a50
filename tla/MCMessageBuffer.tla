-------------------------- MODULE MCMessageBuffer --------------------------
(***************************************************************************)
(* An instance of MessageBuffer for TLC.                                   *)
(***************************************************************************)
EXTENDS MessageBuffer

\* Frames of two, one and two parts, and one longer than frame_max_len.
MCFrames == 1 .. 4
MCTotal == <<2, 1, 2, 3>>

=============================================================================
