---------------------------- MODULE MCPushClient ----------------------------
(***************************************************************************)
(* Instances of PushClient for TLC.                                        *)
(***************************************************************************)
EXTENDS PushClient

MCInitConfig == [max_len |-> 1, fps |-> 1]

=============================================================================
