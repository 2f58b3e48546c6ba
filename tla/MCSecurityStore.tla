--------------------------- MODULE MCSecurityStore ---------------------------
(* Instances of SecurityStore for TLC.                                     *)
EXTENDS SecurityStore, TLC

Symmetry == Permutations(Codes) \cup Permutations(Devices) \cup Permutations(Phones)
=============================================================================
