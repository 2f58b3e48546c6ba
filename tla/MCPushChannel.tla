---------------------------- MODULE MCPushChannel ----------------------------
(* The instance of PushChannel for TLC.                                    *)
EXTENDS PushChannel, TLC

Symmetry == Permutations(Callers) \cup Permutations(Endpoints)
=============================================================================
