---------------------------- MODULE MCScreenScan ----------------------------
(* Model-checking instance: every set of changed pixels of a 4 x 3 screen. *)
EXTENDS ScreenScan
=============================================================================
