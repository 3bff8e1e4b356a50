---------------------------- MODULE MCStreamPath ----------------------------
(***************************************************************************)
(* The instance of StreamPath for TLC.                                     *)
(***************************************************************************)
EXTENDS StreamPath

\* Another rate than the default, one that is zero as an uint16_t, and the
\* parameter without which the buffer is kept.
MCSettings == {<<"fps", 1>>, <<"fps", RateSpan>>, <<"before", 0>>}

=============================================================================
