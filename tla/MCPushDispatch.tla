--------------------------- MODULE MCPushDispatch ---------------------------
(* TLC instances of PushDispatch.                                          *)
EXTENDS PushDispatch, TLC

Symmetry == Permutations(Cycles) \cup Permutations(Sessions) \cup Permutations(Endpoints)
=============================================================================
