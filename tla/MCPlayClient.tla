---------------------------- MODULE MCPlayClient ----------------------------
(***************************************************************************)
(* Instances of PlayClient for TLC.                                        *)
(***************************************************************************)
EXTENDS PlayClient

MCSize == [k \in Kinds |-> IF k = "sources" THEN 1 ELSE 2]

=============================================================================
