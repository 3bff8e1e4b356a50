--------------------------- MODULE MCControlLink ---------------------------
(* ControlLink for TLC.                                                    *)
EXTENDS ControlLink

=============================================================================
