---------------------------- MODULE MCWorkbench ----------------------------
(* The instance of Workbench for TLC.                                      *)
EXTENDS Workbench, TLC
=============================================================================
