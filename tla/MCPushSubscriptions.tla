------------------------ MODULE MCPushSubscriptions -------------------------
(* TLC instances of PushSubscriptions.                                     *)
EXTENDS PushSubscriptions
=============================================================================
