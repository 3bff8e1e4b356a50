--------------------------- MODULE MCNatTraversal ---------------------------
(* NatTraversal for TLC.                                                   *)
EXTENDS NatTraversal

\* One, two and three parts, the last one full or not.
MCFrameLens == {1, 3, 4, 6, 7}

=============================================================================
