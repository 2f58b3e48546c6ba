----------------------------- MODULE MCTickLock -----------------------------
(* TLC instances of TickLock, and the mutants of its definitions.          *)
EXTENDS TickLock
=============================================================================
